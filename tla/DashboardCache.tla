--------------------------- MODULE DashboardCache ---------------------------
(***************************************************************************)
(* The dashboard's cache: one set of rows for all pages and live updates,  *)
(* collected by several queries under the write lock of h.mu, kept for a   *)
(* fixed time and thrown away when an event says that the database has     *)
(* changed.                                                                *)
(*                                                                         *)
(* The database is the sequence of its commits: a query sees a prefix of   *)
(* it, named by its length.  The server's services publish an event after  *)
(* a commit, in the goroutine that committed.  Nothing is published for a  *)
(* commit of the CLI, which is another process, nor for an update or a     *)
(* deletion of a management method.                                        *)
(***************************************************************************)
EXTENDS Naturals, Sequences

CONSTANTS
    Readers,    \* goroutines that need the data: pages and live updates
    Writers,    \* goroutines whose commits are followed by an event
    Sources,    \* number of queries that make up the data (4 in the code)
    TTL,        \* dashboardCacheTTL, in ticks of the clock
    MaxCommits, \* bound on the commits
    MaxClock,   \* bound on the clock
    NoOne       \* the holder of a free lock

ASSUME SourcesAssumption == Sources \in Nat \ {0}
ASSUME TTLAssumption == TTL \in Nat \ {0}
ASSUME BoundsAssumption == MaxCommits \in Nat /\ MaxClock \in Nat
ASSUME NoOneAssumption == NoOne \notin Readers

VARIABLES
    log,        \* log[i]: the time of commit i
    clock,      \* time.Now, a monotonic clock
    pending,    \* pending[w]: w's commit whose event is still unhandled, or 0
    announced,  \* the last commit whose event has been handled
    cache,      \* the cached data and when it expires
    holder,     \* the reader that holds h.mu for writing, or NoOne
    reader      \* reader[r]: where reader r stands

vars == <<log, clock, pending, announced, cache, holder, reader>>

Version == Len(log)

\* For every query of collectDashboardData, the prefix of log it has seen.
Data == [1 .. Sources -> Nat]

\* The zero dashboardCache: it expired before any time there is.
NoData == [s \in 1 .. Sources |-> 0]
EmptyCache == [data |-> NoData, expires |-> 0]

\* start and floor are the clock and announced when the reader started; now
\* is the time collectDashboardData was given; next the query it runs next.
Reader == [pc    : {"idle", "check", "lock", "collect", "done", "failed"},
           start : Nat,
           floor : Nat,
           now   : Nat,
           next  : 1 .. Sources + 1,
           data  : Data]

Idle == [pc |-> "idle", start |-> 0, floor |-> 0, now |-> 0, next |-> 1,
         data |-> NoData]

TypeOK ==
    /\ log \in Seq(Nat)
    /\ clock \in Nat
    /\ pending \in [Writers -> Nat]
    /\ announced \in Nat
    /\ cache \in [data : Data, expires : Nat]
    /\ holder \in Readers \cup {NoOne}
    /\ reader \in [Readers -> Reader]

\* The clock starts above 0, so that the empty cache is an expired one.
Init ==
    /\ log = << >>
    /\ clock = 1
    /\ pending = [w \in Writers |-> 0]
    /\ announced = 0
    /\ cache = EmptyCache
    /\ holder = NoOne
    /\ reader = [r \in Readers |-> Idle]

-----------------------------------------------------------------------------
(* The database, and the clock.                                            *)

\* A service commits: a host, a method, system information, a snapshot.
Commit(w) ==
    /\ pending[w] = 0
    /\ Version < MaxCommits
    /\ log' = Append(log, clock)
    /\ pending' = [pending EXCEPT ![w] = Version + 1]
    /\ UNCHANGED <<clock, announced, cache, holder, reader>>

\* A commit that no event of this process follows.
SilentCommit ==
    /\ Version < MaxCommits
    /\ log' = Append(log, clock)
    /\ UNCHANGED <<clock, pending, announced, cache, holder, reader>>

Tick ==
    /\ clock < MaxClock
    /\ clock' = clock + 1
    /\ UNCHANGED <<log, pending, announced, cache, holder, reader>>

\* Fault: the cache is cleared without taking h.mu.
InvalidateUnlocked(w) ==
    /\ pending[w] # 0
    /\ cache' = EmptyCache
    /\ announced' = IF pending[w] > announced THEN pending[w] ELSE announced
    /\ pending' = [pending EXCEPT ![w] = 0]
    /\ UNCHANGED <<log, clock, holder, reader>>

\* The event's handler: invalidateCache waits for h.mu and clears the cache.
Invalidate(w) ==
    /\ pending[w] # 0
    /\ holder = NoOne
    /\ cache' = EmptyCache
    /\ announced' = IF pending[w] > announced THEN pending[w] ELSE announced
    /\ pending' = [pending EXCEPT ![w] = 0]
    /\ UNCHANGED <<log, clock, holder, reader>>

-----------------------------------------------------------------------------
(* dashboardData.                                                          *)

\* Read the clock.
StartRead(r) ==
    /\ reader[r].pc = "idle"
    /\ reader' = [reader EXCEPT ![r] =
                     [Idle EXCEPT !.pc = "check",
                                  !.start = clock, !.floor = announced]]
    /\ UNCHANGED <<log, clock, pending, announced, cache, holder>>

\* The caller gets a copy of what is cached.
Return(r) ==
    reader' = [reader EXCEPT ![r] =
                  [@ EXCEPT !.pc = "done", !.data = cache.data]]

\* Under the read lock: return what is cached unless it had expired.
CheckCache(r) ==
    /\ reader[r].pc = "check"
    /\ holder = NoOne
    /\ \/ /\ reader[r].start < cache.expires
          /\ Return(r)
       \/ /\ reader[r].start >= cache.expires
          /\ reader' = [reader EXCEPT ![r] = [@ EXCEPT !.pc = "lock"]]
    /\ UNCHANGED <<log, clock, pending, announced, cache, holder>>

\* Fault: what another reader has stored meanwhile is not looked at.
LockCacheBlindly(r) ==
    /\ reader[r].pc = "lock"
    /\ holder = NoOne
    /\ holder' = r
    /\ reader' = [reader EXCEPT ![r] =
                     [@ EXCEPT !.pc = "collect", !.now = clock]]
    /\ UNCHANGED <<log, clock, pending, announced, cache>>

\* Take the write lock, read the clock and look again: another reader may
\* have filled the cache in between.
LockCache(r) ==
    /\ reader[r].pc = "lock"
    /\ holder = NoOne
    /\ \/ /\ clock < cache.expires
          /\ Return(r)
          /\ UNCHANGED holder
       \/ /\ clock >= cache.expires
          /\ holder' = r
          /\ reader' = [reader EXCEPT ![r] =
                           [@ EXCEPT !.pc = "collect", !.now = clock]]
    /\ UNCHANGED <<log, clock, pending, announced, cache>>

\* Fault: one query too many.
RunQueryBeyond(r) ==
    /\ reader[r].pc = "collect"
    /\ reader[r].next <= Sources + 1
    /\ LET next == reader[r].next
           seen == [reader[r].data EXCEPT ![next] = Version]
       IN  reader' = [reader EXCEPT ![r] =
                         [@ EXCEPT !.data = seen, !.next = next + 1]]
    /\ UNCHANGED <<log, clock, pending, announced, cache, holder>>

\* One of the queries of collectDashboardData, in a statement of its own.
RunQuery(r) ==
    /\ reader[r].pc = "collect"
    /\ reader[r].next <= Sources
    /\ LET next == reader[r].next
           seen == [reader[r].data EXCEPT ![next] = Version]
       IN  reader' = [reader EXCEPT ![r] =
                         [@ EXCEPT !.data = seen, !.next = next + 1]]
    /\ UNCHANGED <<log, clock, pending, announced, cache, holder>>

\* Fault: the entry's life starts when it is stored, not when the collection
\* did.
StoreCacheLate(r) ==
    /\ reader[r].pc = "collect"
    /\ reader[r].next = Sources + 1
    /\ cache' = [data |-> reader[r].data, expires |-> clock + TTL]
    /\ holder' = NoOne
    /\ reader' = [reader EXCEPT ![r] = [@ EXCEPT !.pc = "done"]]
    /\ UNCHANGED <<log, clock, pending, announced>>

\* All queries have answered: keep the data and release the lock.
StoreCache(r) ==
    /\ reader[r].pc = "collect"
    /\ reader[r].next = Sources + 1
    /\ cache' = [data |-> reader[r].data, expires |-> reader[r].now + TTL]
    /\ holder' = NoOne
    /\ reader' = [reader EXCEPT ![r] = [@ EXCEPT !.pc = "done"]]
    /\ UNCHANGED <<log, clock, pending, announced>>

\* Fault: a collection that fails is tried again under the lock.
FailQueryRetry(r) ==
    /\ reader[r].pc = "collect"
    /\ reader[r].next <= Sources
    /\ reader' = [reader EXCEPT ![r] = [@ EXCEPT !.next = 1, !.data = NoData]]
    /\ UNCHANGED <<log, clock, pending, announced, cache, holder>>

\* A query fails, or the reader's context ends: nothing is kept and the
\* lock is released.
FailQuery(r) ==
    /\ reader[r].pc = "collect"
    /\ reader[r].next <= Sources
    /\ holder' = NoOne
    /\ reader' = [reader EXCEPT ![r] = [@ EXCEPT !.pc = "failed"]]
    /\ UNCHANGED <<log, clock, pending, announced, cache>>

\* The page or the live update has been sent.
EndRead(r) ==
    /\ reader[r].pc \in {"done", "failed"}
    /\ reader' = [reader EXCEPT ![r] = Idle]
    /\ UNCHANGED <<log, clock, pending, announced, cache, holder>>

Collect(r) == RunQuery(r) \/ StoreCache(r) \/ FailQuery(r)

Next ==
    \/ \E w \in Writers : Commit(w) \/ Invalidate(w)
    \/ SilentCommit
    \/ Tick
    \/ \E r \in Readers : StartRead(r) \/ CheckCache(r) \/ LockCache(r)
    \/ \E r \in Readers : Collect(r)
    \/ \E r \in Readers : EndRead(r)

Spec == Init /\ [][Next]_vars

\* A query of the database answers or fails, and Go's mutex lets no waiter
\* starve: a goroutine that waits long enough is given the lock.
FairSpec ==
    /\ Spec
    /\ \A r \in Readers : WF_vars(Collect(r))
    /\ \A r \in Readers : SF_vars(CheckCache(r)) /\ SF_vars(LockCache(r))
    /\ \A w \in Writers : SF_vars(Invalidate(w))

-----------------------------------------------------------------------------
(* Properties.                                                             *)

Includes(data, i) == \A s \in 1 .. Sources : data[s] >= i

\* Read your writes: data returned to a reader has every commit whose event
\* had been handled when the reader started, in each of its queries, however
\* the collection it came from overlapped the commit and its event.
ReadYourWrites ==
    \A r \in Readers :
        reader[r].pc = "done" => Includes(reader[r].data, reader[r].floor)

\* What no event announces is shown all the same once the entry has expired:
\* data returned to a reader has every commit that was a TTL old when the
\* reader started.
StaleAtMostTTL ==
    \A r \in Readers, i \in 1 .. Version :
        reader[r].pc = "done" /\ log[i] + TTL <= reader[r].start
            => Includes(reader[r].data, i)

\* Readers that wait for h.mu behind the one that collects use its result:
\* an entry that is still fresh is never collected again over.
FreshNeverReplaced ==
    [][\A r \in Readers : StoreCache(r) => reader[r].now >= cache.expires]_vars

\* Everyone who waits for h.mu is served: every reader is answered, also the
\* ones that wait behind a collection that fails, and the readers of the cache
\* do not for ever hold up the request that changed the database, which waits
\* for its event to be handled.
EveryoneAnswered ==
    /\ \A r \in Readers :
          reader[r].pc = "check" ~> reader[r].pc \in {"done", "failed"}
    /\ \A w \in Writers : pending[w] # 0 ~> pending[w] = 0
=============================================================================
