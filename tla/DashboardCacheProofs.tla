------------------------ MODULE DashboardCacheProofs ------------------------
(***************************************************************************)
(* Theorems about DashboardCache, for any number of readers, writers,      *)
(* queries and commits and any TTL.                                        *)
(***************************************************************************)
EXTENDS DashboardCache, TLAPS

\* No commit is later than the clock.
TimeInv == \A i \in 1 .. Version : log[i] <= clock

\* Events are about commits that have been made.
CommitInv ==
    /\ announced <= Version
    /\ \A w \in Writers : pending[w] <= Version

\* Who collects holds h.mu, and conversely.
LockInv == \A r \in Readers : reader[r].pc = "collect" <=> holder = r

\* A cached entry has every announced commit, and every commit older than
\* the collection it comes from.
CacheInv ==
    /\ cache.expires <= clock + TTL
    /\ cache.expires > 0 => Includes(cache.data, announced)
    /\ \A i \in 1 .. Version :
          log[i] + TTL < cache.expires => Includes(cache.data, i)

\* A started reader: its two readings of the clock are in order.
Started(q) ==
    q.pc # "idle" => q.start <= clock /\ q.floor <= announced

\* A collection: the queries it has run have seen every announced commit,
\* and every one before the collection.
Collecting(q) ==
    q.pc = "collect" =>
        /\ q.start <= q.now /\ q.now <= clock
        /\ cache.expires <= q.now
        /\ \A s \in 1 .. Sources :
              s < q.next =>
                /\ q.data[s] >= announced
                /\ \A i \in 1 .. Version : log[i] < q.now => q.data[s] >= i

\* The two promises about the data a reader is given.
Answered(q) ==
    q.pc = "done" =>
        /\ Includes(q.data, q.floor)
        /\ \A i \in 1 .. Version :
              log[i] + TTL <= q.start => Includes(q.data, i)

\* No query has been run before the lock was taken.
Fresh(q) == q.pc \in {"idle", "check", "lock"} => q.next = 1

ReaderInv(q) == Started(q) /\ Collecting(q) /\ Answered(q) /\ Fresh(q)

ReadersInv == \A r \in Readers : ReaderInv(reader[r])

IInv ==
    /\ TypeOK
    /\ TimeInv
    /\ CommitInv
    /\ LockInv
    /\ CacheInv
    /\ ReadersInv

\* A reader that does nothing is well typed.
LEMMA IdleType == Idle \in Reader
BY SourcesAssumption DEF Idle, Reader, NoData, Data

\* Who has seen a commit has seen the earlier ones.
LEMMA IncludesEarlier ==
    ASSUME NEW data \in Data, NEW i \in Nat, NEW j \in Nat, j <= i,
           Includes(data, i)
    PROVE  Includes(data, j)
<1> SUFFICES ASSUME NEW s \in 1 .. Sources
             PROVE  data[s] >= j
  BY DEF Includes
<1>1. data[s] \in Nat /\ data[s] >= i
  BY DEF Includes, Data
<1> QED
  BY <1>1

\* The cache is empty at first, and nobody holds its lock.
LEMMA InitIInv == Init => IInv
<1> SUFFICES ASSUME Init
             PROVE  IInv
  OBVIOUS
<1>2. TypeOK
  BY IdleType DEF Init, TypeOK, EmptyCache, NoData, Data
<1>3. TimeInv /\ CommitInv
  BY DEF Init, TimeInv, CommitInv, Version
<1>4. LockInv
  BY NoOneAssumption DEF Init, LockInv, Idle
<1>5. CacheInv
  BY TTLAssumption DEF Init, CacheInv, EmptyCache, Version
<1>6. ReadersInv
  BY DEF Init, ReadersInv, ReaderInv, Started, Collecting, Answered, Fresh,
         Idle
<1> QED
  BY <1>2, <1>3, <1>4, <1>5, <1>6 DEF IInv

\* A commit of whatever kind is at the clock's time, and so too young for
\* any of the promises made so far to be about it.
LEMMA CommitStep ==
    ASSUME IInv, log' = Append(log, clock),
           UNCHANGED <<clock, announced, cache, holder, reader>>,
           pending' \in [Writers -> Nat],
           \A w \in Writers : pending'[w] <= Version + 1
    PROVE  IInv'
<1> USE DEF Version
<1>1. /\ Version' = Version + 1
      /\ \A i \in 1 .. Version : log'[i] = log[i]
      /\ log'[Version + 1] = clock
  BY DEF IInv, TypeOK
<1>2. TypeOK'
  BY DEF IInv, TypeOK
<1>3. TimeInv'
  BY <1>1 DEF IInv, TypeOK, TimeInv
<1>4. CommitInv'
  BY <1>1 DEF IInv, TypeOK, CommitInv
<1>5. LockInv'
  BY DEF IInv, LockInv
<1>6. CacheInv'
  <2>1. \A i \in 1 .. Version' :
           log'[i] + TTL < cache.expires => Includes(cache.data, i)
    BY <1>1, TTLAssumption DEF IInv, TypeOK, CacheInv
  <2> QED
    BY <2>1, TTLAssumption DEF IInv, CacheInv, Includes
<1>7. ReadersInv'
  <2> SUFFICES ASSUME NEW r \in Readers
               PROVE  ReaderInv(reader[r])'
    BY DEF ReadersInv
  <2> DEFINE q == reader[r]
  <2>1. ReaderInv(q) /\ q \in Reader
    BY DEF IInv, ReadersInv, TypeOK
  <2>2. Started(q)'
    BY <2>1 DEF ReaderInv, Started
  <2>3. Collecting(q)'
    <3> SUFFICES ASSUME q.pc = "collect"
                 PROVE  Collecting(q)'
      BY DEF Collecting
    <3>1. \A i \in 1 .. Version' : log'[i] < q.now => i \in 1 .. Version /\ log[i] < q.now
      BY <1>1, <2>1 DEF ReaderInv, Collecting, IInv, TypeOK, Reader
    <3> QED
      BY <2>1, <3>1 DEF ReaderInv, Collecting
  <2>4. Answered(q)'
    <3> SUFFICES ASSUME q.pc = "done"
                 PROVE  Answered(q)'
      BY DEF Answered
    <3>1. \A i \in 1 .. Version' :
             log'[i] + TTL <= q.start => i \in 1 .. Version /\ log[i] + TTL <= q.start
      BY <1>1, <2>1, TTLAssumption DEF ReaderInv, Started, IInv, TypeOK, Reader
    <3> QED
      BY <2>1, <3>1 DEF ReaderInv, Answered, Includes
  <2> QED
    BY <2>1, <2>2, <2>3, <2>4 DEF ReaderInv, Fresh
<1> QED
  BY <1>2, <1>3, <1>4, <1>5, <1>6, <1>7 DEF IInv

\* Time passing only takes an entry nearer to its expiry.
LEMMA TickStep == IInv /\ Tick => IInv'
<1> SUFFICES ASSUME IInv, Tick
             PROVE  IInv'
  OBVIOUS
<1> USE DEF Tick, Version
<1>1. TypeOK' /\ CommitInv' /\ LockInv'
  BY DEF IInv, TypeOK, CommitInv, LockInv
<1>2. TimeInv'
  BY DEF IInv, TypeOK, TimeInv
<1>3. CacheInv'
  BY TTLAssumption DEF IInv, TypeOK, CacheInv, Includes
<1>4. ReadersInv'
  <2> SUFFICES ASSUME NEW r \in Readers
               PROVE  ReaderInv(reader[r])'
    BY DEF ReadersInv
  <2>1. ReaderInv(reader[r]) /\ reader[r] \in Reader
    BY DEF IInv, ReadersInv, TypeOK
  <2> QED
    BY <2>1 DEF IInv, TypeOK, ReaderInv, Started, Collecting, Answered,
                Fresh, Includes, Reader
<1> QED
  BY <1>1, <1>2, <1>3, <1>4 DEF IInv

\* Who announces a commit has cleared the cache, and no reader collects then.
LEMMA InvalidateStep ==
    ASSUME IInv, NEW w \in Writers, Invalidate(w)
    PROVE  IInv'
<1> USE DEF Invalidate, Version
<1>1. /\ cache' = EmptyCache
      /\ announced' \in Nat /\ announced <= announced' /\ announced' <= Version
  BY DEF IInv, TypeOK, CommitInv
<1>2. TypeOK'
  BY <1>1 DEF IInv, TypeOK, EmptyCache, NoData, Data
<1>3. TimeInv' /\ LockInv'
  BY DEF IInv, TimeInv, LockInv
<1>4. CommitInv'
  BY <1>1 DEF IInv, TypeOK, CommitInv
<1>5. CacheInv'
  <2>1. cache'.expires = 0
    BY <1>1 DEF EmptyCache
  <2> QED
    BY <2>1, TTLAssumption DEF IInv, TypeOK, CacheInv
<1>6. ReadersInv'
  <2> SUFFICES ASSUME NEW r \in Readers
               PROVE  ReaderInv(reader[r])'
    BY DEF ReadersInv
  <2>1. ReaderInv(reader[r]) /\ reader[r] \in Reader
    BY DEF IInv, ReadersInv, TypeOK
  <2>2. reader[r].pc # "collect"
    BY NoOneAssumption DEF IInv, LockInv
  <2>3. Started(reader[r])'
    BY <1>1, <2>1 DEF ReaderInv, Started, Reader, IInv, TypeOK
  <2> QED
    BY <2>1, <2>2, <2>3 DEF ReaderInv, Collecting, Answered, Fresh, Includes
<1> QED
  BY <1>2, <1>3, <1>4, <1>5, <1>6 DEF IInv

\* A reader that takes a step of its own, with the cache as it is.
LEMMA ReaderStep ==
    ASSUME IInv, NEW r \in Readers, NEW q \in Reader,
           reader' = [reader EXCEPT ![r] = q],
           UNCHANGED <<log, clock, pending, announced, cache>>,
           holder' \in Readers \cup {NoOne},
           q.pc = "collect" <=> holder' = r,
           \A s \in Readers \ {r} : holder = s <=> holder' = s,
           ReaderInv(q)
    PROVE  IInv'
<1>1. TypeOK' /\ TimeInv' /\ CommitInv' /\ CacheInv'
  BY DEF IInv, TypeOK, TimeInv, CommitInv, CacheInv, Version, Includes
<1>2. \A s \in Readers : reader'[s] = IF s = r THEN q ELSE reader[s]
  BY DEF IInv, TypeOK
<1>3. LockInv'
  BY <1>2 DEF IInv, LockInv
<1>4. ReadersInv'
  <2> SUFFICES ASSUME NEW s \in Readers
               PROVE  ReaderInv(reader[s])'
    BY DEF ReadersInv
  <2>1. ReaderInv(reader'[s])
    BY <1>2 DEF IInv, ReadersInv
  <2> QED
    BY <2>1 DEF ReaderInv, Started, Collecting, Answered, Fresh, Includes,
                Version
<1> QED
  BY <1>1, <1>3, <1>4 DEF IInv

\* A reader notes the clock and what has been announced so far.
LEMMA StartReadStep ==
    ASSUME IInv, NEW r \in Readers, StartRead(r)
    PROVE  IInv'
<1> DEFINE q == [Idle EXCEPT !.pc = "check", !.start = clock, !.floor = announced]
<1>1. q \in Reader
  BY IdleType DEF IInv, TypeOK, Reader
<1>2. ReaderInv(q)
  BY <1>1 DEF IInv, TypeOK, ReaderInv, Started, Collecting, Answered, Fresh,
              Idle
<1>3. q.pc # "collect" /\ holder # r
  BY DEF StartRead, IInv, LockInv, Idle
<1> QED
  BY <1>1, <1>2, <1>3, ReaderStep DEF StartRead, IInv, TypeOK

\* An entry that has not expired at the first look has all that it must.
LEMMA CheckCacheStep ==
    ASSUME IInv, NEW r \in Readers, CheckCache(r)
    PROVE  IInv'
<1> DEFINE hit  == [reader[r] EXCEPT !.pc = "done", !.data = cache.data]
           miss == [reader[r] EXCEPT !.pc = "lock"]
<1>1. /\ reader[r] \in Reader /\ ReaderInv(reader[r])
      /\ holder = NoOne /\ reader[r].pc = "check"
  BY DEF CheckCache, IInv, TypeOK, ReadersInv
<1>2. hit \in Reader /\ miss \in Reader
  BY <1>1 DEF IInv, TypeOK, Reader
<1>3. ASSUME reader[r].start < cache.expires
      PROVE  ReaderInv(hit)
  <2>1. Includes(cache.data, reader[r].floor)
    <3>1. cache.expires > 0 /\ reader[r].floor <= announced
      BY <1>1, <1>3 DEF ReaderInv, Started, IInv, TypeOK, Reader
    <3>2. /\ cache.data \in Data /\ Includes(cache.data, announced)
          /\ announced \in Nat /\ reader[r].floor \in Nat
      BY <1>1, <3>1 DEF IInv, TypeOK, CacheInv, Reader
    <3> QED
      BY <3>1, <3>2, IncludesEarlier
  <2>2. \A i \in 1 .. Version :
           log[i] + TTL <= reader[r].start => Includes(cache.data, i)
    BY <1>1, <1>3, TTLAssumption DEF IInv, TypeOK, CacheInv, Reader, Version
  <2> QED
    BY <1>1, <2>1, <2>2 DEF ReaderInv, Started, Collecting, Answered, Fresh, Reader
<1>4. ReaderInv(miss)
  BY <1>1 DEF ReaderInv, Started, Collecting, Answered, Fresh, Reader
<1>5. hit.pc # "collect" /\ miss.pc # "collect" /\ holder # r
  BY <1>1, NoOneAssumption DEF Reader
<1>6. CASE reader[r].start < cache.expires
  <2>1. reader' = [reader EXCEPT ![r] = hit]
    BY <1>1, <1>6 DEF CheckCache, Return, IInv, TypeOK, Reader
  <2> HIDE DEF hit
  <2> QED
    BY <1>2, <1>3, <1>5, <1>6, <2>1, ReaderStep DEF CheckCache, IInv, TypeOK
<1>7. CASE reader[r].start >= cache.expires
  <2>1. reader' = [reader EXCEPT ![r] = miss]
    BY <1>1, <1>7 DEF CheckCache, IInv, TypeOK, Reader
  <2> HIDE DEF miss
  <2> QED
    BY <1>2, <1>4, <1>5, <1>7, <2>1, ReaderStep DEF CheckCache, IInv, TypeOK
<1> QED
  BY <1>6, <1>7 DEF CheckCache

\* So has one found at the second look, under the lock; else a collection starts.
LEMMA LockCacheStep ==
    ASSUME IInv, NEW r \in Readers, LockCache(r)
    PROVE  IInv'
<1> DEFINE hit  == [reader[r] EXCEPT !.pc = "done", !.data = cache.data]
           miss == [reader[r] EXCEPT !.pc = "collect", !.now = clock]
<1>1. /\ reader[r] \in Reader /\ ReaderInv(reader[r])
      /\ holder = NoOne /\ reader[r].pc = "lock"
  BY DEF LockCache, IInv, TypeOK, ReadersInv
<1>2. hit \in Reader /\ miss \in Reader
  BY <1>1 DEF IInv, TypeOK, Reader
<1>3. CASE clock < cache.expires
  <2>1. reader' = [reader EXCEPT ![r] = hit] /\ UNCHANGED holder
    BY <1>1, <1>3 DEF LockCache, Return, IInv, TypeOK, Reader
  <2>2. Includes(cache.data, reader[r].floor)
    <3>1. cache.expires > 0 /\ reader[r].floor <= announced
      BY <1>1, <1>3 DEF ReaderInv, Started, IInv, TypeOK
    <3>2. /\ cache.data \in Data /\ Includes(cache.data, announced)
          /\ announced \in Nat /\ reader[r].floor \in Nat
      BY <1>1, <3>1 DEF IInv, TypeOK, CacheInv, Reader
    <3> QED
      BY <3>1, <3>2, IncludesEarlier
  <2>3. \A i \in 1 .. Version :
           log[i] + TTL <= reader[r].start => Includes(cache.data, i)
    BY <1>1, <1>3, TTLAssumption
       DEF ReaderInv, Started, IInv, TypeOK, CacheInv, Reader, Version
  <2>4. ReaderInv(hit)
    BY <1>1, <2>2, <2>3 DEF ReaderInv, Started, Collecting, Answered, Fresh, Reader
  <2>5. hit.pc # "collect" /\ holder # r
    BY <1>1, NoOneAssumption DEF Reader
  <2> HIDE DEF hit
  <2> QED
    BY <1>2, <2>1, <2>4, <2>5, ReaderStep DEF LockCache, IInv, TypeOK
<1>4. CASE clock >= cache.expires
  <2>1. reader' = [reader EXCEPT ![r] = miss] /\ holder' = r
    BY <1>1, <1>4 DEF LockCache, Return, IInv, TypeOK, Reader
  <2>2. miss.next = 1
    BY <1>1 DEF ReaderInv, Fresh, Reader
  <2>3. ReaderInv(miss)
    BY <1>1, <1>4, <2>2, SourcesAssumption
       DEF ReaderInv, Started, Collecting, Answered, Fresh, Reader, IInv, TypeOK
  <2>4. miss.pc = "collect" /\ \A s \in Readers : s # r => holder # s
    BY <1>1, NoOneAssumption DEF Reader
  <2> HIDE DEF miss
  <2> QED
    BY <1>1, <1>2, <2>1, <2>3, <2>4, ReaderStep DEF LockCache, IInv, TypeOK
<1> QED
  BY <1>3, <1>4 DEF LockCache

\* The query sees every commit made so far, so every announced one.
LEMMA RunQueryStep ==
    ASSUME IInv, NEW r \in Readers, RunQuery(r)
    PROVE  IInv'
<1> DEFINE old  == reader[r]
           seen == [old.data EXCEPT ![old.next] = Version]
           q    == [old EXCEPT !.data = seen, !.next = old.next + 1]
<1>1. /\ old \in Reader /\ ReaderInv(old)
      /\ old.pc = "collect" /\ holder = r
      /\ old.next \in 1 .. Sources /\ old.data \in Data
  BY SourcesAssumption DEF RunQuery, IInv, TypeOK, ReadersInv, LockInv, Reader
<1>2. Version \in Nat /\ announced \in Nat /\ announced <= Version
  BY DEF IInv, TypeOK, CommitInv, Version
<1>3. /\ seen \in Data
      /\ seen[old.next] = Version
      /\ \A s \in 1 .. Sources : s # old.next => seen[s] = old.data[s]
  BY <1>1, <1>2 DEF Data
<1>4. reader' = [reader EXCEPT ![r] = q]
  BY DEF RunQuery, IInv, TypeOK
<1> HIDE DEF seen
<1>5. /\ q.pc = "collect" /\ q.start = old.start /\ q.floor = old.floor
      /\ q.now = old.now /\ q.next = old.next + 1 /\ q.data = seen
  BY <1>1 DEF Reader
<1>6. q \in Reader
  <2>1. old.next + 1 \in 1 .. Sources + 1
    BY <1>1, SourcesAssumption
  <2> QED
    BY <1>1, <1>3, <2>1 DEF Reader
<1> HIDE DEF q
<1>7. Collecting(q)
  <2> SUFFICES ASSUME NEW s \in 1 .. Sources, s < old.next + 1
               PROVE  /\ seen[s] >= announced
                      /\ \A i \in 1 .. Version :
                            log[i] < old.now => seen[s] >= i
    BY <1>1, <1>5 DEF ReaderInv, Collecting
  <2>1. CASE s = old.next
    BY <1>2, <1>3, <2>1
  <2>2. CASE s < old.next
    BY <1>1, <1>3, <2>2 DEF ReaderInv, Collecting
  <2> QED
    BY <1>1, <2>1, <2>2
<1>8. ReaderInv(q)
  BY <1>1, <1>5, <1>7 DEF ReaderInv, Started, Answered, Fresh
<1> QED
  BY <1>1, <1>4, <1>5, <1>6, <1>8, ReaderStep DEF RunQuery, IInv, TypeOK

\* Who gives up the lock without storing anything.
LEMMA FailQueryStep ==
    ASSUME IInv, NEW r \in Readers, FailQuery(r)
    PROVE  IInv'
<1> DEFINE q == [reader[r] EXCEPT !.pc = "failed"]
<1>1. /\ reader[r] \in Reader /\ ReaderInv(reader[r])
      /\ reader[r].pc = "collect" /\ holder = r
  BY DEF FailQuery, IInv, TypeOK, ReadersInv, LockInv
<1>2. q \in Reader /\ q.pc = "failed"
  BY <1>1 DEF Reader
<1>3. ReaderInv(q)
  BY <1>1 DEF ReaderInv, Started, Collecting, Answered, Fresh, Reader
<1>4. reader' = [reader EXCEPT ![r] = q]
  BY DEF FailQuery, IInv, TypeOK
<1> HIDE DEF q
<1> QED
  BY <1>1, <1>2, <1>3, <1>4, NoOneAssumption, ReaderStep
     DEF FailQuery, IInv, TypeOK

\* A reader that has got its answer makes no claim any more.
LEMMA EndReadStep ==
    ASSUME IInv, NEW r \in Readers, EndRead(r)
    PROVE  IInv'
<1>1. Idle.pc = "idle" /\ ReaderInv(Idle)
  BY DEF Idle, ReaderInv, Started, Collecting, Answered, Fresh
<1>2. holder # r
  BY DEF EndRead, IInv, LockInv
<1> QED
  BY <1>1, <1>2, IdleType, ReaderStep DEF EndRead, IInv, TypeOK

\* What is cached has every announced commit, as the lock has kept events out.
LEMMA StoreCacheStep ==
    ASSUME IInv, NEW r \in Readers, StoreCache(r)
    PROVE  IInv'
<1> DEFINE old == reader[r]
           q   == [old EXCEPT !.pc = "done"]
<1>1. /\ old \in Reader /\ ReaderInv(old)
      /\ old.pc = "collect" /\ holder = r /\ old.next = Sources + 1
  BY DEF StoreCache, IInv, TypeOK, ReadersInv, LockInv
<1>2. /\ old.start <= old.now /\ old.now <= clock
      /\ old.floor <= announced
      /\ Includes(old.data, announced)
      /\ \A i \in 1 .. Version : log[i] < old.now => Includes(old.data, i)
  BY <1>1, SourcesAssumption
     DEF ReaderInv, Started, Collecting, Includes, Reader
<1>3. /\ q \in Reader /\ q.pc = "done"
      /\ q.start = old.start /\ q.floor = old.floor /\ q.data = old.data
  BY <1>1 DEF Reader
<1>4. /\ reader' = [reader EXCEPT ![r] = q]
      /\ cache' = [data |-> old.data, expires |-> old.now + TTL]
      /\ holder' = NoOne
      /\ UNCHANGED <<log, clock, pending, announced>>
  BY DEF StoreCache, IInv, TypeOK
<1>5. \A i \in 1 .. Version : log[i] \in Nat
  BY DEF IInv, TypeOK, Version
<1>6. Answered(q)
  <2>1. Includes(q.data, q.floor)
    BY <1>1, <1>2, <1>3, IncludesEarlier DEF IInv, TypeOK, Reader
  <2>2. \A i \in 1 .. Version :
           log[i] + TTL <= q.start => Includes(q.data, i)
    BY <1>1, <1>2, <1>3, <1>5, TTLAssumption DEF Reader
  <2> QED
    BY <2>1, <2>2 DEF Answered
<1>7. ReaderInv(q)
  BY <1>1, <1>3, <1>6 DEF ReaderInv, Started, Collecting, Fresh
<1> HIDE DEF q
<1>8. \A s \in Readers :
         reader'[s] = (IF s = r THEN q ELSE reader[s])
  BY <1>4 DEF IInv, TypeOK
<1>9. TypeOK'
  BY <1>1, <1>3, <1>4, TTLAssumption DEF IInv, TypeOK, Reader
<1>10. TimeInv' /\ CommitInv'
  BY <1>4 DEF IInv, TimeInv, CommitInv, Version
<1>11. LockInv'
  BY <1>1, <1>3, <1>4, <1>8, NoOneAssumption DEF IInv, LockInv
<1>12. CacheInv'
  <2>1. \A i \in 1 .. Version :
           log[i] + TTL < old.now + TTL => Includes(old.data, i)
    BY <1>1, <1>2, <1>5, TTLAssumption DEF Reader
  <2> QED
    BY <1>1, <1>2, <1>4, <2>1, TTLAssumption
       DEF CacheInv, Version, Includes, Reader, IInv, TypeOK
<1>13. ReadersInv'
  <2> SUFFICES ASSUME NEW s \in Readers
               PROVE  ReaderInv(reader[s])'
    BY DEF ReadersInv
  <2>1. ReaderInv(reader'[s])
    BY <1>7, <1>8 DEF IInv, ReadersInv
  <2>2. reader'[s].pc # "collect"
    BY <1>1, <1>3, <1>8 DEF IInv, LockInv
  <2> QED
    BY <1>4, <2>1, <2>2
       DEF ReaderInv, Started, Collecting, Answered, Fresh, Includes, Version
<1> QED
  BY <1>9, <1>10, <1>11, <1>12, <1>13 DEF IInv

\* Every step keeps the inductive invariant.
LEMMA NextIInv == IInv /\ [Next]_vars => IInv'
<1> SUFFICES ASSUME IInv, [Next]_vars
             PROVE  IInv'
  OBVIOUS
<1>1. ASSUME NEW w \in Writers, Commit(w)
      PROVE  IInv'
  <2>1. /\ pending' \in [Writers -> Nat]
        /\ \A v \in Writers : pending'[v] <= Version + 1
    BY <1>1 DEF Commit, IInv, TypeOK, CommitInv, Version
  <2> QED
    BY <1>1, <2>1, CommitStep DEF Commit
<1>2. ASSUME SilentCommit
      PROVE  IInv'
  <2>1. /\ pending' \in [Writers -> Nat]
        /\ \A v \in Writers : pending'[v] <= Version + 1
    BY <1>2 DEF SilentCommit, IInv, TypeOK, CommitInv, Version
  <2> QED
    BY <1>2, <2>1, CommitStep DEF SilentCommit
<1>3. CASE UNCHANGED vars
  BY <1>3 DEF vars, IInv, TypeOK, TimeInv, CommitInv, LockInv, CacheInv,
              ReadersInv, ReaderInv, Started, Collecting, Answered, Fresh,
              Includes, Version
<1> QED
  BY <1>1, <1>2, <1>3, InvalidateStep, TickStep, StartReadStep,
     CheckCacheStep, LockCacheStep, RunQueryStep, StoreCacheStep,
     FailQueryStep, EndReadStep DEF Next, Collect

\* The inductive invariant holds throughout.
LEMMA Invariance == Spec => []IInv
BY InitIInv, NextIInv, PTL DEF Spec

\* The state of the cache and of its readers stays well typed.
THEOREM TypeCorrect == Spec => []TypeOK
<1>1. IInv => TypeOK
  BY DEF IInv
<1> QED
  BY <1>1, Invariance, PTL

\* A reader is given every commit whose event had been handled when it
\* started.
THEOREM ReadYourWritesHolds == Spec => []ReadYourWrites
<1>1. IInv => ReadYourWrites
  BY DEF IInv, ReadersInv, ReaderInv, Answered, ReadYourWrites
<1> QED
  BY <1>1, Invariance, PTL

\* A reader is given every commit, announced or not, that was a TTL old
\* when it started.
THEOREM StaleAtMostTTLHolds == Spec => []StaleAtMostTTL
<1>1. IInv => StaleAtMostTTL
  BY DEF IInv, ReadersInv, ReaderInv, Answered, StaleAtMostTTL
<1> QED
  BY <1>1, Invariance, PTL

\* No reader collects again over an entry that is still fresh.
THEOREM FreshNeverReplacedHolds == Spec => FreshNeverReplaced
<1>1. ASSUME IInv, NEW r \in Readers, StoreCache(r)
      PROVE  reader[r].now >= cache.expires
  BY <1>1 DEF StoreCache, IInv, TypeOK, Reader, ReadersInv, ReaderInv,
              Collecting
<1>2. IInv /\ [Next]_vars =>
        [\A r \in Readers : StoreCache(r) => reader[r].now >= cache.expires]_vars
  BY <1>1
<1> QED
  BY <1>2, Invariance, PTL DEF Spec, FreshNeverReplaced
=============================================================================
