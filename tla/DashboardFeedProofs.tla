------------------------ MODULE DashboardFeedProofs ------------------------
(***************************************************************************)
(* Theorems about DashboardFeed, for any number of hosts, browsers and     *)
(* publishers and any length of the channels.                              *)
(***************************************************************************)
EXTENDS DashboardFeed, TLAPS

\* Who is connected is among the clients that a publisher signals.
ClientsInv == \A c \in Clients : client[c].pc # "away" => c \in clients

\* A goroutine has merged nothing before it puts; the goroutine of a
\* connection signals its own client only, before it serves it.
CallInv ==
    \A g \in Goroutines : call[g] # NoCall =>
        /\ call[g].step # "put" => call[g].pending = NoUpdate
        /\ g \in Clients => client[g].pc = "serving" /\ call[g].client = g

WillBring(p, f) ==
    f \in Rendered(publisher[p].update) \cup Rendered(publisher[p].second)

\* The cache has been cleared since a fragment's last change, or the goroutine
\* that made the change is about to clear it, and will have it rendered.
AnnouncedInv ==
    \A f \in Fragments :
        \/ due[f] <= announced
        \/ \E p \in Publishers :
              /\ publisher[p].pc = "committed" /\ publisher[p].commit = due[f]
              /\ WillBring(p, f)

\* The commits that fragment f is sure to show when the render under way, if
\* there is one, is done.
Shown(c, f) ==
    IF client[c].pc = "rendering" /\ f \in Rendered(client[c].update)
    THEN client[c].floor ELSE view[c][f]

Queued(c, f) == \E i \in 1 .. Len(queue[c]) : f \in Rendered(queue[c][i])

\* Fragment f will be rendered for client c by a render that has not started.
OnItsWay(c, f) ==
    \/ client[c].pc = "joined"
    \/ \E g \in Goroutines : Brings(g, c, f)
    \/ \E p \in Publishers : Publishes(p, c, f)
    \/ Queued(c, f)

\* What the render under way may miss is on its way again.  (That the page is
\* up to date is not enough: a render that reads the data before a change is
\* announced may replace what one that happened to see it has shown.)
ShownInv ==
    \A c \in Clients, f \in Fragments :
        Connected(c) /\ Shown(c, f) < due[f] => OnItsWay(c, f) \/ f \in lost[c]

IInv ==
    /\ TypeOK
    /\ ClientsInv
    /\ CallInv
    /\ AnnouncedInv
    /\ ShownInv

-----------------------------------------------------------------------------
(* Updates.                                                                *)

LEMMA RenderedType ==
    ASSUME NEW u \in Update
    PROVE  Rendered(u) \subseteq Fragments
BY DEF Update, Rendered, Fragments

\* The update of everything brings every fragment.
LEMMA RenderedAll == UpdateAll \in Update /\ Rendered(UpdateAll) = Fragments
BY DEF UpdateAll, Update, Sections, Rendered, Fragments

\* The update of nothing is an update.
LEMMA NoUpdateType == NoUpdate \in Update
BY DEF NoUpdate, Update

\* A merged update brings what each of the two would have brought.
LEMMA MergedBoth ==
    ASSUME NEW u \in Update, NEW v \in Update
    PROVE  /\ Merge(u, v) \in Update
           /\ Rendered(u) \subseteq Rendered(Merge(u, v))
           /\ Rendered(v) \subseteq Rendered(Merge(u, v))
<1>1. Merge(u, v) \in Update
  BY DEF Merge, Update
<1>2. ASSUME NEW m \in Update, u.sections \subseteq m.sections,
             u.rows \subseteq m.rows, u.metrics \subseteq m.metrics
      PROVE  Rendered(u) \subseteq Rendered(m)
  BY <1>2 DEF Rendered, Update
<1>3. ASSUME NEW m \in Update, v.sections \subseteq m.sections,
             v.rows \subseteq m.rows, v.metrics \subseteq m.metrics
      PROVE  Rendered(v) \subseteq Rendered(m)
  BY <1>3 DEF Rendered, Update
<1> QED
  BY <1>1, <1>2, <1>3 DEF Merge

\* Nothing merged with an update is that update.
LEMMA MergedNothing ==
    ASSUME NEW u \in Update
    PROVE  Merge(NoUpdate, u) = u
BY DEF Merge, NoUpdate, Update

\* The update of an event brings all that its commits may have changed, but
\* for what it leaves out.
LEMMA TouchedRendered ==
    ASSUME NEW kind \in Kinds, NEW h \in Hosts
    PROVE  /\ UpdateFor(kind, h) \in Update
           /\ Touched(kind, h) \ LeftOut(kind, h) \subseteq Rendered(UpdateFor(kind, h))
           /\ Touched(kind, h) \subseteq Fragments
<1>1. CASE kind = "HostCreatedOrDeleted"
  BY <1>1, RenderedAll DEF UpdateFor, Touched, Fragments
<1>2. CASE kind = "HostUpdated"
  BY <1>2 DEF UpdateFor, Touched, LeftOut, RowUpdate, Update, Sections, Rendered, Fragments
<1>3. CASE kind = "MetricSnapshotCreated"
  BY <1>3 DEF UpdateFor, Touched, LeftOut, MetricUpdate, Update, Sections, Rendered, Fragments
<1>4. CASE kind \in {"AgentAssigned", "SystemInfoUpdated", "ManagementMethodCreated"}
  <2>1. UpdateFor(kind, h) = RowUpdate({"overview"}, h)
    BY <1>4 DEF UpdateFor
  <2>2. Touched(kind, h) \subseteq {<<"overview">>, <<"row", h>>, <<"metrics", h>>}
    BY <1>4 DEF Touched
  <2>3. /\ RowUpdate({"overview"}, h) \in Update
        /\ {<<"overview">>, <<"row", h>>, <<"metrics", h>>} \subseteq
              Rendered(RowUpdate({"overview"}, h)) \cap Fragments
    BY DEF RowUpdate, Update, Sections, Rendered, Fragments
  <2> QED
    BY <2>1, <2>2, <2>3
<1> QED
  BY <1>1, <1>2, <1>3, <1>4 DEF Kinds

-----------------------------------------------------------------------------
(* Channels.                                                               *)

LEMMA PutQueued ==
    ASSUME TypeOK, NEW d \in Clients, NEW u \in Update, HasRoom(d), Put(d, u)
    PROVE  /\ queue' \in [Clients -> Seq(Update)]
           /\ \A c \in Clients : Len(queue'[c]) <= Capacity
           /\ \A f : \A c \in Clients : Queued(c, f) => Queued(c, f)'
           /\ \A f \in Rendered(u) : Queued(d, f)'
<1>1. queue' = [queue EXCEPT ![d] = Append(queue[d], u)]
  BY DEF Put
<1>2. /\ Append(queue[d], u) \in Seq(Update)
      /\ Len(Append(queue[d], u)) = Len(queue[d]) + 1
      /\ Append(queue[d], u)[Len(queue[d]) + 1] = u
      /\ \A i \in 1 .. Len(queue[d]) : Append(queue[d], u)[i] = queue[d][i]
      /\ Len(queue[d]) \in Nat
  BY DEF TypeOK
<1>3. queue' \in [Clients -> Seq(Update)] /\ \A c \in Clients : Len(queue'[c]) <= Capacity
  BY <1>1, <1>2, CapacityAssumption DEF TypeOK, HasRoom
<1>4. ASSUME NEW c \in Clients, NEW f, Queued(c, f)
      PROVE  Queued(c, f)'
  <2>1. PICK i \in 1 .. Len(queue[c]) : f \in Rendered(queue[c][i])
    BY <1>4 DEF Queued
  <2>2. i \in 1 .. Len(queue'[c]) /\ queue'[c][i] = queue[c][i]
    BY <1>1, <1>2 DEF TypeOK
  <2> QED
    BY <2>1, <2>2 DEF Queued
<1>5. ASSUME NEW f \in Rendered(u)
      PROVE  Queued(d, f)'
  <2>1. Len(queue[d]) + 1 \in 1 .. Len(queue'[d]) /\ queue'[d][Len(queue[d]) + 1] = u
    BY <1>1, <1>2 DEF TypeOK
  <2> QED
    BY <2>1 DEF Queued
<1> QED
  BY <1>3, <1>4, <1>5

\* What a receive takes from a channel is all that the channel loses.
LEMMA TakeQueued ==
    ASSUME TypeOK, NEW d \in Clients, queue[d] # << >>, queue' = [queue EXCEPT ![d] = Tail(@)]
    PROVE  /\ queue' \in [Clients -> Seq(Update)]
           /\ \A c \in Clients : Len(queue'[c]) <= Capacity
           /\ Head(queue[d]) \in Update
           /\ \A f : \A c \in Clients : Queued(c, f) =>
                 Queued(c, f)' \/ (c = d /\ f \in Rendered(Head(queue[d])))
<1>1. queue' = [queue EXCEPT ![d] = Tail(queue[d])]
  OBVIOUS
<1>2. /\ Tail(queue[d]) \in Seq(Update) /\ Len(Tail(queue[d])) = Len(queue[d]) - 1
      /\ \A i \in 1 .. Len(queue[d]) - 1 : Tail(queue[d])[i] = queue[d][i + 1]
      /\ Head(queue[d]) = queue[d][1] /\ Len(queue[d]) \in Nat \ {0}
      /\ Head(queue[d]) \in Update
  BY DEF TypeOK
<1>3. queue' \in [Clients -> Seq(Update)] /\ \A c \in Clients : Len(queue'[c]) <= Capacity
  BY <1>1, <1>2, CapacityAssumption DEF TypeOK
<1>4. ASSUME NEW c \in Clients, NEW f, Queued(c, f)
      PROVE  Queued(c, f)' \/ (c = d /\ f \in Rendered(Head(queue[d])))
  <2>1. PICK i \in 1 .. Len(queue[c]) : f \in Rendered(queue[c][i])
    BY <1>4 DEF Queued
  <2>2. CASE c # d
    <3>1. queue'[c] = queue[c]
      BY <1>1, <2>2 DEF TypeOK
    <3> QED
      BY <2>1, <3>1 DEF Queued
  <2>3. CASE c = d /\ i = 1
    BY <1>2, <2>1, <2>3
  <2>4. CASE c = d /\ i # 1
    <3>1. i - 1 \in 1 .. Len(queue'[d]) /\ queue'[d][i - 1] = queue[d][i]
      BY <1>1, <1>2, <2>4 DEF TypeOK
    <3> QED
      BY <2>1, <2>4, <3>1 DEF Queued
  <2> QED
    BY <2>2, <2>3, <2>4
<1> QED
  BY <1>2, <1>3, <1>4

-----------------------------------------------------------------------------
(* The handler of an event.                                                *)

LEMMA InitIInv == Init => IInv
<1> SUFFICES ASSUME Init
             PROVE  IInv
  OBVIOUS
<1>1. TypeOK
  <2>1. Quiet \in Publisher /\ Away \in Client /\ Blank \in [Fragments -> Nat]
    BY NoUpdateType DEF Quiet, Publisher, Away, Client, Blank
  <2>2. << >> \in Seq(Update) /\ Len(<< >>) <= Capacity
    BY CapacityAssumption
  <2> QED
    BY <2>1, <2>2 DEF Init, TypeOK
<1>2. ClientsInv /\ CallInv
  BY DEF Init, ClientsInv, CallInv, Away
<1>3. AnnouncedInv
  BY DEF Init, AnnouncedInv, Blank
<1>4. ShownInv
  BY DEF Init, ShownInv, Connected, Away
<1> QED
  BY <1>1, <1>2, <1>3, <1>4 DEF IInv

\* What a page shows is a number of commits.
LEMMA ShownType ==
    ASSUME TypeOK, NEW c \in Clients, NEW f \in Fragments
    PROVE  Shown(c, f) \in Nat
BY DEF TypeOK, Client, Shown

\* Steps that change no fragment, take nothing back from a page and drop no
\* update without notice.
LEMMA Carried ==
    ASSUME IInv, TypeOK', due' = due,
           \A c \in Clients, f \in Fragments : Connected(c)' =>
               \/ client'[c].pc = "joined"
               \/ /\ Connected(c) /\ Shown(c, f)' >= Shown(c, f)
                  /\ OnItsWay(c, f) \/ f \in lost[c] => OnItsWay(c, f)' \/ f \in lost'[c]
    PROVE  ShownInv'
<1> SUFFICES ASSUME NEW c \in Clients, NEW f \in Fragments, Connected(c)',
                    Shown(c, f)' < due'[f]
             PROVE  OnItsWay(c, f)' \/ f \in lost'[c]
  BY DEF ShownInv
<1>1. CASE client'[c].pc = "joined"
  BY <1>1 DEF OnItsWay
<1>2. CASE client'[c].pc # "joined"
  <2>1. /\ Connected(c) /\ Shown(c, f)' >= Shown(c, f)
        /\ OnItsWay(c, f) \/ f \in lost[c] => OnItsWay(c, f)' \/ f \in lost'[c]
    BY <1>2
  <2>2. Shown(c, f) \in Nat /\ Shown(c, f)' \in Nat /\ due[f] \in Nat
    BY ShownType DEF IInv, TypeOK, Shown, Client
  <2>3. Shown(c, f) < due[f]
    BY <2>1, <2>2
  <2> QED
    BY <2>1, <2>3 DEF IInv, ShownInv
<1> QED
  BY <1>1, <1>2

\* What a page shows depends on its connection only.
LEMMA SamePage ==
    ASSUME UNCHANGED <<client, view>>
    PROVE  \A c, f : Connected(c)' = Connected(c) /\ Shown(c, f)' = Shown(c, f)
BY DEF Connected, Shown

\* A step that only moves one publisher on.
LEMMA HandlerStep ==
    ASSUME IInv, NEW p \in Publishers, NEW q \in Publisher,
           publisher' = [publisher EXCEPT ![p] = q],
           UNCHANGED <<changed, due, clients, client, queue, view, lost>>,
           TypeOK', CallInv', AnnouncedInv',
           \A c, f : \A g \in Goroutines : Brings(g, c, f) => Brings(g, c, f)',
           \A c \in Clients, f \in Fragments : Connected(c) /\ Publishes(p, c, f) =>
               Publishes(p, c, f)' \/ \E g \in Goroutines : Brings(g, c, f)'
    PROVE  IInv'
<1>1. ClientsInv'
  BY DEF IInv, ClientsInv
<1>2. ASSUME NEW c \in Clients, NEW f \in Fragments, Connected(c), OnItsWay(c, f)
      PROVE  OnItsWay(c, f)'
  <2>1. \A r \in Publishers \ {p} : Publishes(r, c, f) => Publishes(r, c, f)'
    BY DEF IInv, TypeOK, Publishes
  <2> QED
    BY <1>2, <2>1 DEF OnItsWay, Queued
<1>3. ShownInv'
  <2>1. ASSUME NEW c \in Clients, NEW f \in Fragments, Connected(c)'
        PROVE  /\ Connected(c) /\ Shown(c, f)' >= Shown(c, f)
               /\ OnItsWay(c, f) \/ f \in lost[c] => OnItsWay(c, f)' \/ f \in lost'[c]
    BY <1>2, <2>1, SamePage, ShownType DEF IInv
  <2> QED
    BY <2>1, Carried
<1> QED
  BY <1>1, <1>3 DEF IInv

\* A fragment that a commit changes is on its way from its publisher, but for
\* what the update leaves out.
LEMMA CommitStep ==
    ASSUME IInv, NEW p \in Publishers, Commit(p)
    PROVE  IInv'
<1>1. PICK kind \in Kinds, h \in Hosts :
         LET update   == UpdateFor(kind, h)
             assigned == kind = "AgentAssigned"
         IN  /\ Change(Touched(kind, h))
             /\ due' = [f \in Fragments |->
                           IF f \in Touched(kind, h) \ LeftOut(kind, h)
                           THEN commits' ELSE due[f]]
             /\ publisher' = [publisher EXCEPT ![p] =
                   [pc |-> "committed", commit |-> commits',
                    update |-> IF assigned THEN UpdateFor("HostUpdated", h) ELSE update,
                    second |-> IF assigned THEN update ELSE NoUpdate,
                    todo |-> {}]]
  BY DEF Commit
<1> DEFINE brought == Touched(kind, h) \ LeftOut(kind, h)
           assigned == kind = "AgentAssigned"
           first  == IF assigned THEN UpdateFor("HostUpdated", h) ELSE UpdateFor(kind, h)
           second == IF assigned THEN UpdateFor(kind, h) ELSE NoUpdate
           q == [pc |-> "committed", commit |-> commits', update |-> first,
                 second |-> second, todo |-> {}]
<1>2. /\ first \in Update /\ second \in Update
      /\ brought \subseteq Rendered(first) \cup Rendered(second)
  <2>1. /\ UpdateFor(kind, h) \in Update /\ UpdateFor("HostUpdated", h) \in Update
        /\ brought \subseteq Rendered(UpdateFor(kind, h))
    BY TouchedRendered DEF Kinds
  <2> QED
    BY <2>1, NoUpdateType
<1>3. /\ commits' \in Nat /\ publisher[p].pc = "idle"
      /\ UNCHANGED <<announced, call, clients, client, queue, view, lost>>
  BY DEF Commit, IInv, TypeOK
<1>4. /\ due' = [f \in Fragments |-> IF f \in brought THEN commits' ELSE due[f]]
      /\ changed' \in [Fragments -> Nat] /\ due' \in [Fragments -> Nat]
      /\ publisher' = [publisher EXCEPT ![p] = q]
  BY <1>1, <1>3 DEF Change, IInv, TypeOK
<1> HIDE DEF brought, first, second
<1>5. /\ q \in Publisher /\ q.pc = "committed" /\ q.commit = commits'
      /\ q.update = first /\ q.second = second
  BY <1>2, <1>3 DEF Publisher
<1> HIDE DEF q
<1>6. /\ publisher' \in [Publishers -> Publisher] /\ publisher'[p] = q
      /\ \A r \in Publishers \ {p} : publisher'[r] = publisher[r]
  BY <1>4, <1>5 DEF IInv, TypeOK
<1>7. TypeOK'
  BY <1>3, <1>4, <1>6 DEF IInv, TypeOK
<1>8. ClientsInv' /\ CallInv'
  BY <1>3 DEF IInv, ClientsInv, CallInv
<1>9. \A f \in brought : WillBring(p, f)'
  BY <1>2, <1>5, <1>6 DEF WillBring
<1>10. AnnouncedInv'
  <2> SUFFICES ASSUME NEW f \in Fragments
               PROVE  \/ due'[f] <= announced'
                      \/ \E r \in Publishers :
                            /\ publisher'[r].pc = "committed"
                            /\ publisher'[r].commit = due'[f]
                            /\ WillBring(r, f)'
    BY DEF AnnouncedInv
  <2>1. CASE f \in brought
    BY <1>4, <1>5, <1>6, <1>9, <2>1
  <2>2. CASE f \notin brought
    BY <1>3, <1>4, <1>6, <2>2 DEF IInv, AnnouncedInv, WillBring
  <2> QED
    BY <2>1, <2>2
<1>11. ShownInv'
  <2> SUFFICES ASSUME NEW c \in Clients, NEW f \in Fragments, Connected(c)',
                      Shown(c, f)' < due'[f]
               PROVE  OnItsWay(c, f)' \/ f \in lost'[c]
    BY DEF ShownInv
  <2>1. CASE f \in brought
    BY <1>5, <1>6, <1>9, <2>1 DEF OnItsWay, Publishes, WillBring
  <2>2. CASE f \notin brought
    <3>1. OnItsWay(c, f) \/ f \in lost[c]
      BY <1>3, <1>4, <2>2, SamePage DEF IInv, ShownInv
    <3>2. \A r \in Publishers \ {p} : Publishes(r, c, f) => Publishes(r, c, f)'
      BY <1>6 DEF Publishes
    <3>3. ~Publishes(p, c, f)
      BY <1>3 DEF Publishes
    <3> QED
      BY <1>3, <3>1, <3>2, <3>3 DEF OnItsWay, Brings, Queued
  <2> QED
    BY <2>1, <2>2
<1> QED
  BY <1>7, <1>8, <1>10, <1>11 DEF IInv

\* A change that no update is to bring is not due.
LEMMA SilentCommitStep ==
    ASSUME IInv, SilentCommit
    PROVE  IInv'
<1>1. /\ commits' \in Nat /\ changed' \in [Fragments -> Nat]
      /\ UNCHANGED <<announced, due, publisher, call, clients, client, queue, view, lost>>
  BY DEF SilentCommit, Change, IInv, TypeOK
<1>2. TypeOK' /\ ClientsInv' /\ CallInv' /\ AnnouncedInv'
  BY <1>1 DEF IInv, TypeOK, ClientsInv, CallInv, AnnouncedInv, WillBring
<1>3. \A c, f : OnItsWay(c, f)' = OnItsWay(c, f)
  BY <1>1 DEF OnItsWay, Brings, Publishes, Queued
<1>4. ShownInv'
  BY <1>1, <1>3, SamePage DEF IInv, ShownInv
<1> QED
  BY <1>2, <1>4 DEF IInv

\* A commit that is announced stays with its publisher until it is sent.
LEMMA InvalidateStep ==
    ASSUME IInv, NEW p \in Publishers, Invalidate(p)
    PROVE  IInv'
<1> DEFINE q == [publisher[p] EXCEPT !.pc = "invalidated"]
<1>1. publisher[p] \in Publisher /\ publisher[p].pc = "committed"
  BY DEF Invalidate, IInv, TypeOK
<1>2. /\ q \in Publisher /\ q.pc = "invalidated" /\ q.update = publisher[p].update
      /\ q.second = publisher[p].second
  BY <1>1 DEF Publisher
<1>3. /\ publisher' = [publisher EXCEPT ![p] = q]
      /\ UNCHANGED <<commits, changed, due, call, clients, client, queue, view, lost>>
      /\ announced' \in Nat /\ announced' >= announced /\ announced' >= publisher[p].commit
  BY <1>1 DEF Invalidate, IInv, TypeOK, Publisher
<1> HIDE DEF q
<1>4. /\ publisher' \in [Publishers -> Publisher] /\ publisher'[p] = q
      /\ \A r \in Publishers \ {p} : publisher'[r] = publisher[r]
  BY <1>2, <1>3 DEF IInv, TypeOK
<1>5. TypeOK'
  BY <1>3, <1>4 DEF IInv, TypeOK
<1>6. CallInv'
  BY <1>3 DEF IInv, CallInv
<1>7. AnnouncedInv'
  <2> SUFFICES ASSUME NEW f \in Fragments
               PROVE  \/ due[f] <= announced'
                      \/ \E r \in Publishers :
                            /\ publisher'[r].pc = "committed"
                            /\ publisher'[r].commit = due[f]
                            /\ WillBring(r, f)'
    BY <1>3 DEF AnnouncedInv
  <2>1. due[f] \in Nat /\ announced \in Nat
    BY DEF IInv, TypeOK
  <2>2. CASE due[f] <= announced
    BY <1>3, <2>1, <2>2
  <2>3. CASE ~(due[f] <= announced)
    <3>1. PICK r \in Publishers :
             /\ publisher[r].pc = "committed" /\ publisher[r].commit = due[f]
             /\ WillBring(r, f)
      BY <2>3 DEF IInv, AnnouncedInv
    <3> QED
      BY <1>3, <1>4, <2>1, <3>1 DEF WillBring
  <2> QED
    BY <2>2, <2>3
<1>8. \A c, f : \A g \in Goroutines : Brings(g, c, f) => Brings(g, c, f)'
  BY <1>3 DEF Brings
<1>9. \A c, f : Publishes(p, c, f) => Publishes(p, c, f)'
  BY <1>1, <1>2, <1>4 DEF Publishes
<1> QED
  BY <1>2, <1>3, <1>5, <1>6, <1>7, <1>8, <1>9, HandlerStep

\* The goroutine that has cleared the cache goes on.
LEMMA ClearedStep ==
    ASSUME IInv, NEW p \in Publishers, publisher[p].pc # "committed",
           NEW q \in Publisher, publisher' = [publisher EXCEPT ![p] = q],
           UNCHANGED <<announced, due>>
    PROVE  AnnouncedInv'
<1>1. \A r \in Publishers : publisher[r].pc = "committed" => publisher'[r] = publisher[r]
  BY DEF IInv, TypeOK
<1> QED
  BY <1>1 DEF IInv, AnnouncedInv, WillBring

\* Every connected client is among those that the publisher will signal.
LEMMA StartQueueingStep ==
    ASSUME IInv, NEW p \in Publishers, StartQueueing(p)
    PROVE  IInv'
<1> DEFINE q == [publisher[p] EXCEPT !.pc = "signalling", !.todo = clients]
<1>1. publisher[p] \in Publisher /\ publisher[p].pc = "invalidated" /\ clients \subseteq Clients
  BY DEF StartQueueing, IInv, TypeOK
<1>2. /\ q \in Publisher /\ q.pc = "signalling" /\ q.update = publisher[p].update
      /\ q.todo = clients /\ q.second = publisher[p].second
  BY <1>1 DEF Publisher
<1>3. /\ publisher' = [publisher EXCEPT ![p] = q]
      /\ UNCHANGED <<commits, announced, changed, due, call, clients, client, queue, view, lost>>
  BY DEF StartQueueing
<1> HIDE DEF q
<1>4. publisher' \in [Publishers -> Publisher] /\ publisher'[p] = q
  BY <1>2, <1>3 DEF IInv, TypeOK
<1>5. TypeOK' /\ CallInv' /\ AnnouncedInv'
  BY <1>1, <1>2, <1>3, <1>4, ClearedStep DEF IInv, TypeOK, CallInv
<1>6. \A c, f : \A g \in Goroutines : Brings(g, c, f) => Brings(g, c, f)'
  BY <1>3 DEF Brings
<1>7. ASSUME NEW c \in Clients, NEW f \in Fragments, Connected(c), Publishes(p, c, f)
      PROVE  Publishes(p, c, f)'
  BY <1>1, <1>2, <1>4, <1>7 DEF Publishes, Connected, IInv, ClientsInv
<1> QED
  BY <1>2, <1>3, <1>5, <1>6, <1>7, HandlerStep

\* A client leaves the list of those to be signalled when its signal begins.
LEMMA SignalNextStep ==
    ASSUME IInv, NEW p \in Publishers, SignalNext(p)
    PROVE  IInv'
<1>1. PICK d \in publisher[p].todo :
         /\ call' = [call EXCEPT ![p] =
                       [step |-> "send", client |-> d,
                        update |-> publisher[p].update, pending |-> NoUpdate]]
         /\ publisher' = [publisher EXCEPT ![p].todo = @ \ {d}]
  BY DEF SignalNext
<1> DEFINE q    == [publisher[p] EXCEPT !.todo = @ \ {d}]
           made == [step |-> "send", client |-> d,
                    update |-> publisher[p].update, pending |-> NoUpdate]
<1>2. /\ publisher[p] \in Publisher /\ publisher[p].pc = "signalling" /\ call[p] = NoCall
      /\ d \in Clients /\ p \in Goroutines /\ p \notin Clients
      /\ UNCHANGED <<commits, announced, changed, due, clients, client, queue, view, lost>>
  BY <1>1, GoroutineAssumption DEF SignalNext, IInv, TypeOK, Publisher, Goroutines
<1>3. /\ q \in Publisher /\ q.pc = "signalling" /\ q.update = publisher[p].update
      /\ q.todo = publisher[p].todo \ {d} /\ q.second = publisher[p].second
  BY <1>2 DEF Publisher
<1>4. /\ made \in Call /\ made.step = "send" /\ made.client = d
      /\ made.update = publisher[p].update /\ made.pending = NoUpdate
  BY <1>2, NoUpdateType DEF Call, Publisher
<1>5. publisher' = [publisher EXCEPT ![p] = q] /\ call' = [call EXCEPT ![p] = made]
  BY <1>1
<1> HIDE DEF q, made
<1>6. /\ publisher' \in [Publishers -> Publisher] /\ publisher'[p] = q
      /\ call' \in [Goroutines -> Call \cup {NoCall}] /\ call'[p] = made
      /\ \A g \in Goroutines \ {p} : call'[g] = call[g]
  BY <1>2, <1>3, <1>4, <1>5 DEF IInv, TypeOK
<1>7. TypeOK'
  BY <1>2, <1>6 DEF IInv, TypeOK
<1>8. CallInv'
  BY <1>2, <1>4, <1>6 DEF IInv, CallInv
<1>9. AnnouncedInv'
  BY <1>2, <1>3, <1>5, ClearedStep
<1>10. \A c, f : \A g \in Goroutines : Brings(g, c, f) => Brings(g, c, f)'
  BY <1>2, <1>6 DEF Brings
<1>11. ASSUME NEW c \in Clients, NEW f \in Fragments, Publishes(p, c, f)
       PROVE  Publishes(p, c, f)' \/ \E g \in Goroutines : Brings(g, c, f)'
  <2>1. CASE c # d \/ f \in Rendered(publisher[p].second)
    BY <1>2, <1>3, <1>6, <1>11, <2>1 DEF Publishes
  <2>2. CASE c = d /\ f \notin Rendered(publisher[p].second)
    <3>1. f \in Rendered(Merge(NoUpdate, publisher[p].update))
      BY <1>2, <1>11, <2>2, MergedNothing DEF Publishes, Publisher
    <3>2. Brings(p, c, f)'
      BY <1>4, <1>6, <2>2, <3>1, NoCallAssumption DEF Brings
    <3> QED
      BY <1>2, <3>2
  <2> QED
    BY <2>1, <2>2
<1> QED
  BY <1>2, <1>3, <1>5, <1>7, <1>8, <1>9, <1>10, <1>11, HandlerStep

\* The second event of the goroutine brings what it held back.
LEMMA PublishSecondStep ==
    ASSUME IInv, NEW p \in Publishers, PublishSecond(p)
    PROVE  IInv'
<1> DEFINE q == [pc |-> "committed", commit |-> publisher[p].commit,
                 update |-> publisher[p].second, second |-> NoUpdate, todo |-> {}]
<1>1. /\ publisher[p].pc = "signalling" /\ publisher[p].todo = {}
      /\ publisher' = [publisher EXCEPT ![p] = q]
      /\ UNCHANGED <<commits, announced, changed, due, call, clients, client, queue, view, lost>>
  BY DEF PublishSecond, Signalled
<1>2. publisher[p] \in Publisher
  BY DEF IInv, TypeOK
<1>3. q \in Publisher /\ q.pc = "committed" /\ q.update = publisher[p].second
  BY <1>2, NoUpdateType DEF Publisher
<1> HIDE DEF q
<1>4. publisher' \in [Publishers -> Publisher] /\ publisher'[p] = q
  BY <1>1, <1>3 DEF IInv, TypeOK
<1>5. TypeOK' /\ CallInv' /\ AnnouncedInv'
  BY <1>1, <1>3, <1>4, ClearedStep DEF IInv, TypeOK, CallInv
<1>6. \A c, f : \A g \in Goroutines : Brings(g, c, f) => Brings(g, c, f)'
  BY <1>1 DEF Brings
<1>7. \A c, f : Publishes(p, c, f) => Publishes(p, c, f)'
  BY <1>1, <1>3, <1>4 DEF Publishes
<1> QED
  BY <1>1, <1>3, <1>5, <1>6, <1>7, HandlerStep

\* A publisher is done when it has no client left to signal and no event left
\* to publish.
LEMMA FinishPublishStep ==
    ASSUME IInv, NEW p \in Publishers, FinishPublish(p)
    PROVE  IInv'
<1>1. /\ publisher[p].pc = "signalling" /\ publisher[p].todo = {}
      /\ publisher[p].second = NoUpdate
      /\ publisher' = [publisher EXCEPT ![p] = Quiet]
      /\ UNCHANGED <<commits, announced, changed, due, call, clients, client, queue, view, lost>>
  BY DEF FinishPublish, Signalled
<1>2. Quiet \in Publisher /\ Quiet.pc = "idle"
  BY NoUpdateType DEF Quiet, Publisher
<1>3. TypeOK' /\ CallInv' /\ AnnouncedInv'
  BY <1>1, <1>2, ClearedStep DEF IInv, TypeOK, CallInv
<1>4. \A c, f : \A g \in Goroutines : Brings(g, c, f) => Brings(g, c, f)'
  BY <1>1 DEF Brings
<1>5. \A c, f : ~Publishes(p, c, f)
  BY <1>1 DEF Publishes, NoUpdate, Rendered
<1> QED
  BY <1>1, <1>2, <1>3, <1>4, <1>5, HandlerStep

-----------------------------------------------------------------------------
(* signalClient.                                                           *)

LEMMA CallType ==
    ASSUME IInv, NEW g \in Goroutines, call[g] # NoCall
    PROVE  /\ call[g] \in Call /\ call[g].client \in Clients
           /\ call[g].update \in Update /\ call[g].pending \in Update
           /\ Merge(call[g].pending, call[g].update) \in Update
           /\ call[g].step # "put" => Merge(call[g].pending, call[g].update) = call[g].update
<1>1. call[g] \in Call
  BY DEF IInv, TypeOK
<1>2. /\ call[g].client \in Clients
      /\ call[g].update \in Update /\ call[g].pending \in Update
  BY <1>1 DEF Call
<1> QED
  BY <1>1, <1>2, MergedBoth, MergedNothing DEF IInv, CallInv

\* A step of a call: what it brought is brought on, or queued, or counted as
\* lost; and what it takes from the channel is brought.
LEMMA CalledStep ==
    ASSUME IInv, NEW g \in Goroutines, call[g] # NoCall,
           UNCHANGED <<commits, announced, changed, due, publisher, clients, client, view>>,
           NEW new \in Call \cup {NoCall}, call' = [call EXCEPT ![g] = new],
           new # NoCall => /\ new.client = call[g].client
                           /\ new.step # "put" => new.pending = NoUpdate,
           queue' \in [Clients -> Seq(Update)],
           \A c \in Clients : Len(queue'[c]) <= Capacity,
           lost' \in [Clients -> SUBSET Fragments],
           \A c \in Clients, f \in Fragments :
               /\ f \in lost[c] => f \in lost'[c]
               /\ Queued(c, f) => Queued(c, f)' \/ Brings(g, c, f)'
               /\ Brings(g, c, f) => Brings(g, c, f)' \/ Queued(c, f)' \/ f \in lost'[c]
    PROVE  IInv'
<1>1. /\ call' \in [Goroutines -> Call \cup {NoCall}] /\ call'[g] = new
      /\ \A o \in Goroutines \ {g} : call'[o] = call[o]
  BY DEF IInv, TypeOK
<1>2. TypeOK'
  BY <1>1 DEF IInv, TypeOK
<1>3. ClientsInv' /\ AnnouncedInv'
  BY DEF IInv, ClientsInv, AnnouncedInv, WillBring
<1>4. CallInv'
  BY <1>1 DEF IInv, CallInv
<1>5. ASSUME NEW c \in Clients, NEW f \in Fragments, OnItsWay(c, f) \/ f \in lost[c]
      PROVE  OnItsWay(c, f)' \/ f \in lost'[c]
  <2>1. \A o \in Goroutines \ {g} : Brings(o, c, f) => Brings(o, c, f)'
    BY <1>1 DEF Brings
  <2>2. \A p \in Publishers : Publishes(p, c, f) => Publishes(p, c, f)'
    BY DEF Publishes
  <2> QED
    BY <1>5, <2>1, <2>2 DEF OnItsWay
<1>6. ShownInv'
  <2>1. ASSUME NEW c \in Clients, NEW f \in Fragments, Connected(c)'
        PROVE  /\ Connected(c) /\ Shown(c, f)' >= Shown(c, f)
               /\ OnItsWay(c, f) \/ f \in lost[c] => OnItsWay(c, f)' \/ f \in lost'[c]
    BY <1>5, <2>1, SamePage, ShownType DEF IInv
  <2> QED
    BY <1>2, <2>1, Carried
<1> QED
  BY <1>2, <1>3, <1>4, <1>6 DEF IInv

\* An update goes from the goroutine to the channel, or stays to be merged.
LEMMA TrySendStep ==
    ASSUME IInv, NEW g \in Goroutines, TrySend(g)
    PROVE  IInv'
<1>1. /\ call[g] # NoCall /\ call[g].step = "send"
      /\ UNCHANGED <<commits, announced, changed, due, publisher, clients, client, view, lost>>
  BY DEF TrySend
<1>2. PICK d : d = call[g].client
  OBVIOUS
<1>3. PICK u : u = call[g].update
  OBVIOUS
<1>4. /\ call[g] \in Call /\ d \in Clients /\ u \in Update
      /\ Merge(call[g].pending, u) = u
  BY <1>1, <1>2, <1>3, CallType
<1>5. lost' \in [Clients -> SUBSET Fragments]
  BY <1>1 DEF IInv, TypeOK
<1>6. CASE HasRoom(d) /\ Put(d, u) /\ Return(g)
  <2>1. \A c, f : Brings(g, c, f) => c = d /\ f \in Rendered(u)
    BY <1>2, <1>3, <1>4 DEF Brings
  <2>2. /\ queue' \in [Clients -> Seq(Update)]
        /\ \A c \in Clients : Len(queue'[c]) <= Capacity
        /\ \A f : \A c \in Clients : Queued(c, f) => Queued(c, f)'
        /\ \A f \in Rendered(u) : Queued(d, f)'
    BY <1>4, <1>6, PutQueued DEF IInv
  <2>3. call' = [call EXCEPT ![g] = NoCall]
    BY <1>6 DEF Return
  <2>4. \A c \in Clients, f \in Fragments :
           /\ f \in lost[c] => f \in lost'[c]
           /\ Queued(c, f) => Queued(c, f)' \/ Brings(g, c, f)'
           /\ Brings(g, c, f) => Brings(g, c, f)' \/ Queued(c, f)' \/ f \in lost'[c]
    BY <1>1, <2>1, <2>2
  <2> QED
    BY <1>1, <1>5, <2>2, <2>3, <2>4, CalledStep
<1>7. CASE call' = [call EXCEPT ![g].step = "take"] /\ UNCHANGED queue
  <2> DEFINE new == [call[g] EXCEPT !.step = "take"]
  <2>1. /\ new \in Call /\ new.step = "take" /\ new.client = d
        /\ new.update = u /\ new.pending = call[g].pending
    BY <1>2, <1>3, <1>4 DEF Call
  <2>2. call' = [call EXCEPT ![g] = new]
    BY <1>7
  <2> HIDE DEF new
  <2>3. call[g].pending = NoUpdate
    BY <1>1 DEF IInv, CallInv
  <2>4. call'[g] = new
    BY <2>2 DEF IInv, TypeOK
  <2>5. \A c, f : Brings(g, c, f) => Brings(g, c, f)'
    BY <1>2, <1>3, <2>1, <2>4, NoCallAssumption DEF Brings
  <2>6. \A c, f : Queued(c, f) => Queued(c, f)'
    BY <1>7 DEF Queued
  <2>7. queue' \in [Clients -> Seq(Update)] /\ \A c \in Clients : Len(queue'[c]) <= Capacity
    BY <1>7 DEF IInv, TypeOK
  <2> QED
    BY <1>1, <1>2, <1>5, <2>1, <2>2, <2>3, <2>5, <2>6, <2>7, CalledStep
<1> QED
  BY <1>2, <1>3, <1>6, <1>7 DEF TrySend

\* What is dropped is remembered as lost.
LEMMA DropCounts ==
    ASSUME IInv, NEW d \in Clients, NEW u \in Update, Drop(d, u)
    PROVE  /\ lost' \in [Clients -> SUBSET Fragments]
           /\ \A c \in Clients : lost[c] \subseteq lost'[c]
           /\ Rendered(u) \subseteq lost'[d]
BY RenderedType DEF Drop, IInv, TypeOK

\* An update taken from the full channel is merged into the one that follows.
LEMMA TryTakeStep ==
    ASSUME IInv, NEW g \in Goroutines, TryTake(g)
    PROVE  IInv'
<1>1. /\ call[g] # NoCall /\ call[g].step = "take"
      /\ UNCHANGED <<commits, announced, changed, due, publisher, clients, client, view>>
  BY DEF TryTake
<1>2. PICK d : d = call[g].client
  OBVIOUS
<1>3. PICK u : u = call[g].update
  OBVIOUS
<1>4. /\ call[g] \in Call /\ d \in Clients /\ u \in Update
      /\ Merge(call[g].pending, u) = u
  BY <1>1, <1>2, <1>3, CallType
<1>5. \A c, f : Brings(g, c, f) => c = d /\ f \in Rendered(u)
  BY <1>2, <1>3, <1>4 DEF Brings
<1>6. CASE /\ queue[d] # << >>
           /\ call' = [call EXCEPT ![g].step = "put", ![g].pending = Head(queue[d])]
           /\ queue' = [queue EXCEPT ![d] = Tail(@)]
           /\ UNCHANGED lost
  <2> DEFINE head == Head(queue[d])
             new  == [call[g] EXCEPT !.step = "put", !.pending = head]
  <2>1. /\ queue' \in [Clients -> Seq(Update)]
        /\ \A c \in Clients : Len(queue'[c]) <= Capacity
        /\ head \in Update
        /\ \A f : \A c \in Clients : Queued(c, f) =>
              Queued(c, f)' \/ (c = d /\ f \in Rendered(head))
    BY <1>4, <1>6, TakeQueued DEF IInv
  <2> HIDE DEF head
  <2>2. /\ new \in Call /\ new.step = "put" /\ new.client = d
        /\ new.update = u /\ new.pending = head
    BY <1>2, <1>3, <1>4, <2>1 DEF Call
  <2>3. call' = [call EXCEPT ![g] = new]
    BY <1>6 DEF head
  <2> HIDE DEF new
  <2>4. call'[g] = new
    BY <2>3 DEF IInv, TypeOK
  <2>5. Rendered(u) \subseteq Rendered(Merge(head, u)) /\ Rendered(head) \subseteq Rendered(Merge(head, u))
    BY <1>4, <2>1, MergedBoth
  <2>6. \A f \in Rendered(u) \cup Rendered(head) : Brings(g, d, f)'
    BY <2>2, <2>4, <2>5, NoCallAssumption DEF Brings
  <2>7. lost' \in [Clients -> SUBSET Fragments]
    BY <1>6 DEF IInv, TypeOK
  <2>8. \A c \in Clients, f \in Fragments :
           /\ f \in lost[c] => f \in lost'[c]
           /\ Queued(c, f) => Queued(c, f)' \/ Brings(g, c, f)'
           /\ Brings(g, c, f) => Brings(g, c, f)' \/ Queued(c, f)' \/ f \in lost'[c]
    BY <1>5, <1>6, <2>1, <2>6
  <2> QED
    BY <1>1, <1>2, <2>1, <2>2, <2>3, <2>7, <2>8, CalledStep
<1>7. CASE Drop(d, u) /\ Return(g) /\ UNCHANGED queue
  <2>1. /\ lost' \in [Clients -> SUBSET Fragments]
        /\ \A c \in Clients : lost[c] \subseteq lost'[c]
        /\ Rendered(u) \subseteq lost'[d]
    BY <1>4, <1>7, DropCounts
  <2>2. call' = [call EXCEPT ![g] = NoCall]
    BY <1>7 DEF Return
  <2>3. \A c, f : Queued(c, f) => Queued(c, f)'
    BY <1>7 DEF Queued
  <2>4. queue' \in [Clients -> Seq(Update)] /\ \A c \in Clients : Len(queue'[c]) <= Capacity
    BY <1>7 DEF IInv, TypeOK
  <2>5. \A c \in Clients, f \in Fragments :
           /\ f \in lost[c] => f \in lost'[c]
           /\ Queued(c, f) => Queued(c, f)' \/ Brings(g, c, f)'
           /\ Brings(g, c, f) => Brings(g, c, f)' \/ Queued(c, f)' \/ f \in lost'[c]
    BY <1>5, <2>1, <2>3
  <2> QED
    BY <1>1, <2>1, <2>2, <2>4, <2>5, CalledStep
<1> QED
  BY <1>2, <1>3, <1>6, <1>7 DEF TryTake

\* A merged update goes into the channel, or is dropped.
LEMMA TryPutStep ==
    ASSUME IInv, NEW g \in Goroutines, TryPut(g)
    PROVE  IInv'
<1>1. /\ call[g] # NoCall
      /\ call' = [call EXCEPT ![g] = NoCall]
      /\ UNCHANGED <<commits, announced, changed, due, publisher, clients, client, view>>
  BY DEF TryPut, Return
<1>2. PICK d : d = call[g].client
  OBVIOUS
<1>3. PICK merged : merged = Merge(call[g].pending, call[g].update)
  OBVIOUS
<1>4. d \in Clients /\ merged \in Update
  BY <1>1, <1>2, <1>3, CallType
<1>5. \A c, f : Brings(g, c, f) => c = d /\ f \in Rendered(merged)
  BY <1>2, <1>3 DEF Brings
<1>6. CASE HasRoom(d) /\ Put(d, merged) /\ UNCHANGED lost
  <2>1. /\ queue' \in [Clients -> Seq(Update)]
        /\ \A c \in Clients : Len(queue'[c]) <= Capacity
        /\ \A f : \A c \in Clients : Queued(c, f) => Queued(c, f)'
        /\ \A f \in Rendered(merged) : Queued(d, f)'
    BY <1>4, <1>6, PutQueued DEF IInv
  <2>2. lost' \in [Clients -> SUBSET Fragments]
    BY <1>6 DEF IInv, TypeOK
  <2>3. \A c \in Clients, f \in Fragments :
           /\ f \in lost[c] => f \in lost'[c]
           /\ Queued(c, f) => Queued(c, f)' \/ Brings(g, c, f)'
           /\ Brings(g, c, f) => Brings(g, c, f)' \/ Queued(c, f)' \/ f \in lost'[c]
    BY <1>5, <1>6, <2>1
  <2> QED
    BY <1>1, <2>1, <2>2, <2>3, CalledStep
<1>7. CASE Drop(d, merged) /\ UNCHANGED queue
  <2>1. /\ lost' \in [Clients -> SUBSET Fragments]
        /\ \A c \in Clients : lost[c] \subseteq lost'[c]
        /\ Rendered(merged) \subseteq lost'[d]
    BY <1>4, <1>7, DropCounts
  <2>2. \A c, f : Queued(c, f) => Queued(c, f)'
    BY <1>7 DEF Queued
  <2>3. queue' \in [Clients -> Seq(Update)] /\ \A c \in Clients : Len(queue'[c]) <= Capacity
    BY <1>7 DEF IInv, TypeOK
  <2>4. \A c \in Clients, f \in Fragments :
           /\ f \in lost[c] => f \in lost'[c]
           /\ Queued(c, f) => Queued(c, f)' \/ Brings(g, c, f)'
           /\ Brings(g, c, f) => Brings(g, c, f)' \/ Queued(c, f)' \/ f \in lost'[c]
    BY <1>5, <2>1, <2>2
  <2> QED
    BY <1>1, <2>1, <2>3, <2>4, CalledStep
<1> QED
  BY <1>2, <1>3, <1>6, <1>7 DEF TryPut

-----------------------------------------------------------------------------
(* The goroutine of a connection.                                          *)

LEMMA PageStep ==
    ASSUME IInv, NEW c \in Clients, NEW new \in Client, client' = [client EXCEPT ![c] = new],
           UNCHANGED <<commits, announced, changed, due, publisher>>,
           new.pc # "away" => c \in clients', clients \ {c} \subseteq clients', clients' \subseteq Clients,
           call' \in [Goroutines -> Call \cup {NoCall}], CallInv',
           \A g \in Goroutines \ {c} : call'[g] = call[g],
           queue' \in [Clients -> Seq(Update)], \A d \in Clients : Len(queue'[d]) <= Capacity,
           view' \in [Clients -> [Fragments -> Nat]], lost' \in [Clients -> SUBSET Fragments],
           \A d \in Clients \ {c} : queue'[d] = queue[d] /\ view'[d] = view[d] /\ lost'[d] = lost[d],
           \A f \in Fragments : Connected(c)' /\ Shown(c, f)' < due[f] =>
               OnItsWay(c, f)' \/ f \in lost'[c]
    PROVE  IInv'
<1>1. /\ client' \in [Clients -> Client] /\ client'[c] = new
      /\ \A d \in Clients \ {c} : client'[d] = client[d]
  BY DEF IInv, TypeOK
<1>2. TypeOK'
  BY <1>1 DEF IInv, TypeOK
<1>3. ClientsInv' /\ AnnouncedInv'
  BY <1>1 DEF IInv, ClientsInv, AnnouncedInv, WillBring
<1>4. ASSUME NEW d \in Clients \ {c}, NEW f \in Fragments, Connected(d)', Shown(d, f)' < due[f]
      PROVE  OnItsWay(d, f)' \/ f \in lost'[d]
  <2>1. Connected(d) /\ Shown(d, f) < due[f]
    BY <1>1, <1>4 DEF Connected, Shown
  <2>2. OnItsWay(d, f) \/ f \in lost[d]
    BY <2>1 DEF IInv, ShownInv
  <2>3. ASSUME NEW g \in Goroutines, Brings(g, d, f)
        PROVE  Brings(g, d, f)'
    BY <2>3 DEF Brings, IInv, CallInv
  <2>4. \A p \in Publishers : Publishes(p, d, f) => Publishes(p, d, f)'
    BY DEF Publishes
  <2> QED
    BY <1>1, <2>2, <2>3, <2>4 DEF OnItsWay, Queued
<1>5. ShownInv'
  BY <1>4 DEF ShownInv
<1> QED
  BY <1>2, <1>3, <1>5 DEF IInv

\* A connection between two renders is well typed.
LEMMA AwayType ==
    ASSUME NEW pc \in {"away", "joined", "serving", "rendering", "leaving"}
    PROVE  [Away EXCEPT !.pc = pc] \in Client /\ [Away EXCEPT !.pc = pc].pc = pc
BY NoUpdateType DEF Away, Client

\* What a step keeps that leaves the channels and the calls.
LEMMA CallsKept ==
    ASSUME IInv, NEW c \in Clients, UNCHANGED <<call, queue>>,
           client[c].pc # "serving" \/ call[c] = NoCall,
           \A d \in Clients \ {c} : client'[d] = client[d]
    PROVE  /\ CallInv' /\ call' \in [Goroutines -> Call \cup {NoCall}]
           /\ queue' \in [Clients -> Seq(Update)] /\ \A d \in Clients : Len(queue'[d]) <= Capacity
BY DEF IInv, TypeOK, CallInv

\* A connection that ends, and the removal of its client, forget no other page.
LEMMA LeavingSteps ==
    ASSUME IInv, NEW c \in Clients, Leave(c) \/ BreakOff(c) \/ Unregister(c)
    PROVE  IInv'
<1>1. CASE Leave(c) \/ BreakOff(c)
  <2> DEFINE new == [Away EXCEPT !.pc = "leaving"]
  <2>1. new \in Client /\ new.pc = "leaving"
    BY AwayType
  <2>2. /\ client' = [client EXCEPT ![c] = new]
        /\ client[c].pc \in {"serving", "rendering"}
        /\ client[c].pc = "serving" => call[c] = NoCall
        /\ UNCHANGED <<commits, announced, changed, due, publisher, call, clients, queue, view, lost>>
    BY <1>1 DEF Leave, BreakOff
  <2> HIDE DEF new
  <2>3. /\ client'[c] = new /\ \A d \in Clients \ {c} : client'[d] = client[d]
        /\ c \in clients /\ clients \subseteq Clients
        /\ view' \in [Clients -> [Fragments -> Nat]] /\ lost' \in [Clients -> SUBSET Fragments]
    BY <2>2 DEF IInv, TypeOK, ClientsInv
  <2>4. ~Connected(c)'
    BY <2>1, <2>3 DEF Connected
  <2>5. /\ CallInv' /\ call' \in [Goroutines -> Call \cup {NoCall}]
        /\ queue' \in [Clients -> Seq(Update)] /\ \A d \in Clients : Len(queue'[d]) <= Capacity
    BY <2>2, <2>3, CallsKept
  <2> QED
    BY <2>1, <2>2, <2>3, <2>4, <2>5, PageStep
<1>2. CASE Unregister(c)
  <2>1. /\ client[c].pc = "leaving" /\ client' = [client EXCEPT ![c] = Away]
        /\ clients' = clients \ {c}
        /\ queue' = [queue EXCEPT ![c] = << >>] /\ view' = [view EXCEPT ![c] = Blank]
        /\ lost' = [lost EXCEPT ![c] = {}]
        /\ UNCHANGED <<commits, announced, changed, due, publisher, call>>
    BY <1>2 DEF Unregister
  <2>2. Away \in Client /\ Away.pc = "away"
    BY NoUpdateType DEF Away, Client
  <2>3. /\ client'[c] = Away /\ \A d \in Clients \ {c} : client'[d] = client[d]
        /\ clients' \subseteq Clients
        /\ view' \in [Clients -> [Fragments -> Nat]] /\ lost' \in [Clients -> SUBSET Fragments]
        /\ \A d \in Clients \ {c} : queue'[d] = queue[d] /\ view'[d] = view[d] /\ lost'[d] = lost[d]
    BY <2>1 DEF IInv, TypeOK, Blank
  <2>4. queue' \in [Clients -> Seq(Update)] /\ \A d \in Clients : Len(queue'[d]) <= Capacity
    <3>1. << >> \in Seq(Update) /\ Len(<< >>) <= Capacity
      BY CapacityAssumption
    <3> QED
      BY <2>1, <3>1 DEF IInv, TypeOK
  <2>5. call' \in [Goroutines -> Call \cup {NoCall}] /\ CallInv'
    BY <2>1, <2>3 DEF IInv, TypeOK, CallInv
  <2>6. ~Connected(c)'
    BY <2>2, <2>3 DEF Connected
  <2> QED
    BY <2>1, <2>2, <2>3, <2>4, <2>5, <2>6, PageStep
<1> QED
  BY <1>1, <1>2

\* A new connection will be sent everything.
LEMMA JoinStep ==
    ASSUME IInv, NEW c \in Clients, Join(c)
    PROVE  IInv'
<1> DEFINE new == [client[c] EXCEPT !.pc = "joined"]
<1>1. /\ client[c].pc = "away" /\ client' = [client EXCEPT ![c] = new]
      /\ clients' = clients \cup {c}
      /\ UNCHANGED <<commits, announced, changed, due, publisher, call, queue, view, lost>>
  BY DEF Join
<1>2. new \in Client /\ new.pc = "joined"
  BY DEF IInv, TypeOK, Client
<1> HIDE DEF new
<1>3. /\ client'[c] = new /\ \A d \in Clients \ {c} : client'[d] = client[d]
      /\ clients' \subseteq Clients
      /\ view' \in [Clients -> [Fragments -> Nat]] /\ lost' \in [Clients -> SUBSET Fragments]
  BY <1>1 DEF IInv, TypeOK
<1>4. /\ CallInv' /\ call' \in [Goroutines -> Call \cup {NoCall}]
      /\ queue' \in [Clients -> Seq(Update)] /\ \A d \in Clients : Len(queue'[d]) <= Capacity
  BY <1>1, <1>3, CallsKept
<1>5. \A f \in Fragments : OnItsWay(c, f)'
  BY <1>2, <1>3 DEF OnItsWay
<1> QED
  BY <1>1, <1>2, <1>3, <1>4, <1>5, PageStep

\* The first update, of everything.
LEMMA GreetStep ==
    ASSUME IInv, NEW c \in Clients, Greet(c)
    PROVE  IInv'
<1> DEFINE new  == [client[c] EXCEPT !.pc = "serving"]
           made == [step |-> "send", client |-> c, update |-> UpdateAll, pending |-> NoUpdate]
<1>1. /\ client[c].pc = "joined" /\ client' = [client EXCEPT ![c] = new]
      /\ call' = [call EXCEPT ![c] = made]
      /\ UNCHANGED <<commits, announced, changed, due, publisher, clients, queue, view, lost>>
  BY DEF Greet
<1>2. new \in Client /\ new.pc = "serving"
  BY DEF IInv, TypeOK, Client
<1>3. /\ made \in Call /\ made.step = "send" /\ made.client = c
      /\ made.update = UpdateAll /\ made.pending = NoUpdate
  BY RenderedAll, NoUpdateType DEF Call
<1> HIDE DEF new, made
<1>4. /\ client'[c] = new /\ \A d \in Clients \ {c} : client'[d] = client[d]
      /\ c \in clients /\ clients \subseteq Clients
      /\ view' \in [Clients -> [Fragments -> Nat]] /\ lost' \in [Clients -> SUBSET Fragments]
      /\ queue' \in [Clients -> Seq(Update)] /\ \A d \in Clients : Len(queue'[d]) <= Capacity
  BY <1>1 DEF IInv, TypeOK, ClientsInv
<1>5. /\ c \in Goroutines /\ call' \in [Goroutines -> Call \cup {NoCall}] /\ call'[c] = made
      /\ \A g \in Goroutines \ {c} : call'[g] = call[g]
  BY <1>1, <1>3 DEF IInv, TypeOK, Goroutines
<1>6. CallInv'
  BY <1>2, <1>3, <1>4, <1>5 DEF IInv, CallInv
<1>7. \A f \in Fragments : OnItsWay(c, f)'
  <2>1. Rendered(Merge(made.pending, made.update)) = Fragments
    BY <1>3, RenderedAll, MergedNothing
  <2>2. \A f \in Fragments : Brings(c, c, f)'
    BY <1>3, <1>5, <2>1, NoCallAssumption DEF Brings
  <2> QED
    BY <1>5, <2>2 DEF OnItsWay
<1> QED
  BY <1>1, <1>2, <1>4, <1>5, <1>6, <1>7, PageStep

\* A render starts from data with every announced commit: those it may miss are
\* on their way.
LEMMA StartRenderStep ==
    ASSUME IInv, NEW c \in Clients, StartRender(c)
    PROVE  IInv'
<1>1. PICK update : update = Head(queue[c])
  OBVIOUS
<1> DEFINE new == [pc |-> "rendering", update |-> update, floor |-> announced]
<1>2. /\ client[c].pc = "serving" /\ call[c] = NoCall /\ queue[c] # << >>
      /\ client' = [client EXCEPT ![c] = new]
      /\ lost' = [lost EXCEPT ![c] = @ \ Rendered(update)]
      /\ queue' = [queue EXCEPT ![c] = Tail(@)]
      /\ UNCHANGED <<commits, announced, changed, due, publisher, call, clients, view>>
  BY <1>1 DEF StartRender
<1>3. /\ queue' \in [Clients -> Seq(Update)]
      /\ \A d \in Clients : Len(queue'[d]) <= Capacity
      /\ update \in Update
      /\ \A f : Queued(c, f) => Queued(c, f)' \/ f \in Rendered(update)
  BY <1>1, <1>2, TakeQueued DEF IInv
<1>4. /\ new \in Client /\ new.pc = "rendering" /\ new.update = update /\ new.floor = announced
  BY <1>3 DEF IInv, TypeOK, Client
<1> HIDE DEF new
<1>5. /\ client'[c] = new /\ \A d \in Clients \ {c} : client'[d] = client[d]
      /\ c \in clients /\ clients \subseteq Clients
      /\ view' \in [Clients -> [Fragments -> Nat]] /\ lost' \in [Clients -> SUBSET Fragments]
      /\ \A d \in Clients \ {c} : queue'[d] = queue[d] /\ lost'[d] = lost[d]
      /\ lost'[c] = lost[c] \ Rendered(update)
  BY <1>2 DEF IInv, TypeOK, ClientsInv
<1>6. CallInv' /\ call' \in [Goroutines -> Call \cup {NoCall}]
  BY <1>2, <1>5 DEF IInv, TypeOK, CallInv
<1>7. ASSUME NEW f \in Fragments, Shown(c, f)' < due[f]
      PROVE  OnItsWay(c, f)' \/ f \in lost'[c]
  <2>1. CASE f \in Rendered(update)
    <3>1. announced < due[f]
      BY <1>4, <1>5, <1>7, <2>1 DEF Shown
    <3>2. ~(due[f] <= announced)
      BY <3>1 DEF IInv, TypeOK
    <3>3. PICK p \in Publishers :
             publisher[p].pc = "committed" /\ WillBring(p, f)
      BY <3>2 DEF IInv, AnnouncedInv
    <3>4. Publishes(p, c, f)'
      BY <1>2, <3>3 DEF Publishes, WillBring
    <3> QED
      BY <3>4 DEF OnItsWay
  <2>2. CASE f \notin Rendered(update)
    <3>1. Connected(c) /\ Shown(c, f) < due[f]
      BY <1>2, <1>4, <1>5, <1>7, <2>2 DEF Connected, Shown
    <3>2. OnItsWay(c, f) \/ f \in lost[c]
      BY <3>1 DEF IInv, ShownInv
    <3>3. \A g \in Goroutines : Brings(g, c, f) => Brings(g, c, f)'
      BY <1>2 DEF Brings
    <3>4. \A p \in Publishers : Publishes(p, c, f) => Publishes(p, c, f)'
      BY <1>2 DEF Publishes
    <3> QED
      BY <1>2, <1>3, <1>5, <2>2, <3>2, <3>3, <3>4 DEF OnItsWay
  <2> QED
    BY <2>1, <2>2
<1> QED
  BY <1>2, <1>3, <1>4, <1>5, <1>6, <1>7, PageStep

\* A page shows at least the data that the render started from.
LEMMA EndRenderStep ==
    ASSUME IInv, NEW c \in Clients, EndRender(c)
    PROVE  IInv'
<1>1. PICK version \in client[c].floor .. commits :
         view' = [view EXCEPT ![c] = [f \in Fragments |->
                     IF f \in Rendered(client[c].update) THEN version ELSE view[c][f]]]
  BY DEF EndRender
<1> DEFINE new  == [Away EXCEPT !.pc = "serving"]
           page == [f \in Fragments |->
                      IF f \in Rendered(client[c].update) THEN version ELSE view[c][f]]
<1>2. /\ client[c].pc = "rendering" /\ client' = [client EXCEPT ![c] = new]
      /\ view' = [view EXCEPT ![c] = page]
      /\ UNCHANGED <<commits, announced, changed, due, publisher, call, clients, queue, lost>>
  BY <1>1 DEF EndRender
<1>3. new \in Client /\ new.pc = "serving"
  BY AwayType
<1>4. /\ client[c].floor \in Nat /\ version \in Nat /\ version >= client[c].floor
      /\ page \in [Fragments -> Nat]
  BY <1>1 DEF IInv, TypeOK, Client
<1>5. \A f \in Fragments : page[f] \in Nat /\ page[f] >= Shown(c, f)
  BY <1>2, <1>4 DEF Shown, IInv, TypeOK
<1> HIDE DEF new, page
<1>6. /\ client'[c] = new /\ \A d \in Clients \ {c} : client'[d] = client[d]
      /\ c \in clients /\ clients \subseteq Clients
      /\ view' \in [Clients -> [Fragments -> Nat]] /\ lost' \in [Clients -> SUBSET Fragments]
      /\ view'[c] = page /\ \A d \in Clients \ {c} : view'[d] = view[d]
  BY <1>2, <1>4 DEF IInv, TypeOK, ClientsInv
<1>7. /\ CallInv' /\ call' \in [Goroutines -> Call \cup {NoCall}]
      /\ queue' \in [Clients -> Seq(Update)] /\ \A d \in Clients : Len(queue'[d]) <= Capacity
  BY <1>2, <1>6, CallsKept
<1>8. ASSUME NEW f \in Fragments, Shown(c, f)' < due[f]
      PROVE  OnItsWay(c, f)' \/ f \in lost'[c]
  <2>1. page[f] < due[f]
    BY <1>3, <1>6, <1>8 DEF Shown
  <2>2. Connected(c) /\ Shown(c, f) < due[f]
    <3>1. Shown(c, f) \in Nat /\ due[f] \in Nat
      BY ShownType DEF IInv, TypeOK
    <3> QED
      BY <1>2, <1>5, <2>1, <3>1 DEF Connected
  <2>3. OnItsWay(c, f) \/ f \in lost[c]
    BY <2>2 DEF IInv, ShownInv
  <2>4. \A g \in Goroutines : Brings(g, c, f) => Brings(g, c, f)'
    BY <1>2 DEF Brings
  <2>5. \A p \in Publishers : Publishes(p, c, f) => Publishes(p, c, f)'
    BY <1>2 DEF Publishes
  <2> QED
    BY <1>2, <2>3, <2>4, <2>5 DEF OnItsWay, Queued
<1> QED
  BY <1>2, <1>3, <1>6, <1>7, <1>8, PageStep

-----------------------------------------------------------------------------
(* Theorems.                                                               *)

LEMMA NextStep == IInv /\ [Next]_vars => IInv'
<1> SUFFICES ASSUME IInv, [Next]_vars
             PROVE  IInv'
  OBVIOUS
<1>1. ASSUME NEW p \in Publishers, Commit(p) \/ PublisherStep(p)
      PROVE  IInv'
  BY <1>1, CommitStep, InvalidateStep, StartQueueingStep, SignalNextStep,
     PublishSecondStep, FinishPublishStep DEF PublisherStep
<1>2. ASSUME NEW g \in Goroutines, SignalStep(g)
      PROVE  IInv'
  BY <1>2, TrySendStep, TryTakeStep, TryPutStep DEF SignalStep
<1>3. ASSUME NEW c \in Clients, \/ Join(c) \/ Greet(c) \/ Leave(c) \/ Unregister(c)
                                \/ StartRender(c) \/ EndRender(c) \/ BreakOff(c)
      PROVE  IInv'
  BY <1>3, JoinStep, GreetStep, LeavingSteps, StartRenderStep, EndRenderStep
<1>4. CASE SilentCommit
  BY <1>4, SilentCommitStep
<1>5. CASE UNCHANGED vars
  <2>1. TypeOK' /\ ClientsInv' /\ CallInv' /\ AnnouncedInv'
    BY <1>5 DEF vars, IInv, TypeOK, ClientsInv, CallInv, AnnouncedInv, WillBring
  <2>2. /\ \A c, f : /\ Connected(c)' = Connected(c) /\ Shown(c, f)' = Shown(c, f)
                     /\ OnItsWay(c, f)' = OnItsWay(c, f)
        /\ lost' = lost /\ due' = due
    BY <1>5 DEF vars, Connected, Shown, OnItsWay, Brings, Publishes, Queued
  <2>3. ShownInv'
    BY <2>2 DEF IInv, ShownInv
  <2> QED
    BY <2>1, <2>3 DEF IInv
<1> QED
  BY <1>1, <1>2, <1>3, <1>4, <1>5 DEF Next

\* The inductive invariant holds throughout.
THEOREM Invariance == Spec => []IInv
BY InitIInv, NextStep, PTL DEF Spec

\* No channel holds more than its length, and every update is one.
THEOREM TypeCorrect == Spec => []TypeOK
<1>1. IInv => TypeOK
  BY DEF IInv
<1> QED
  BY <1>1, Invariance, PTL

\* What a connected browser does not show yet is on its way to it, or its
\* update was dropped by signalClient.
THEOREM NothingForgottenHolds == Spec => []NothingForgotten
<1>1. IInv => NothingForgotten
  <2> SUFFICES ASSUME IInv, NEW c \in Clients, NEW f \in Fragments,
                      Connected(c), ~(view[c][f] >= due[f])
               PROVE  Coming(c, f) \/ f \in lost[c]
    BY DEF NothingForgotten
  <2>1. Shown(c, f) \in Nat /\ due[f] \in Nat /\ view[c][f] \in Nat
    BY ShownType DEF IInv, TypeOK
  <2>2. CASE Shown(c, f) < due[f]
    BY <2>2 DEF IInv, ShownInv, OnItsWay, Queued, Coming
  <2>3. CASE ~(Shown(c, f) < due[f])
    BY <2>1, <2>3 DEF Shown, Coming
  <2> QED
    BY <2>2, <2>3
<1> QED
  BY <1>1, Invariance, PTL
=============================================================================
