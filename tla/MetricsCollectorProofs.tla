----------------------- MODULE MetricsCollectorProofs -----------------------
(***************************************************************************)
(* Theorems about MetricsCollector, for any number of callers and any TTL. *)
(***************************************************************************)
EXTENDS MetricsCollector, TLAPS

\* The flag c.running says that one call collects, and only one.
RunningInv ==
    /\ running => \E c \in Callers : caller[c].pc = "collecting"
    /\ \A c \in Callers : caller[c].pc = "collecting" => running
    /\ \A c, d \in Callers :
          caller[c].pc = "collecting" /\ caller[d].pc = "collecting" => c = d

TimeInv ==
    \A i \in 1 .. Last :
        samples[i].started <= samples[i].stored /\ samples[i].stored <= clock

\* The last sample answers a call made at time t: it was stored later than a
\* TTL before.
Answers(t) == Last > 0 /\ t < samples[Last].stored + TTL

\* A call that collects does so at least a TTL after every sample, and the
\* channel it will close is the last one made.
Collecting(q) ==
    q.pc = "collecting" =>
        /\ q.channel = completed /\ q.channel \in 1 .. completed
        /\ q.channel \notin closed
        /\ q.asked <= q.started /\ q.started <= clock
        /\ \A i \in 1 .. Last : q.started >= samples[i].stored + TTL

\* A call that waits has a channel whose sample, once stored, answers it.
Waiting(q) ==
    /\ q.pc = "waiting" =>
          \/ q.channel \in closed /\ Answers(q.asked)
          \/ running /\ q.channel = completed
    /\ q.pc = "woken" => Answers(q.asked)

Returning(q) ==
    q.pc \in {"answered", "panicked"} =>
        /\ q.sample \in 1 .. Last
        /\ q.asked < samples[q.sample].stored + TTL

CallInv(q) ==
    /\ q.asked <= clock
    /\ Collecting(q)
    /\ Waiting(q)
    /\ Returning(q)

CallsInv == \A c \in Callers : CallInv(caller[c])

IInv ==
    /\ TypeOK
    /\ RunningInv
    /\ TimeInv
    /\ CollectionsSpaced
    /\ PanicStopsOne
    /\ CallsInv

\* A call that has not been made is well typed.
LEMMA NoCallType == NoCall \in Call
BY DEF NoCall, Call

\* There is no sample at first, and nobody collects.
LEMMA InitIInv == Init => IInv
<1> SUFFICES ASSUME Init
             PROVE  IInv
  OBVIOUS
<1>1. TypeOK
  <2>1. samples \in Seq(Sample) /\ caller \in [Callers -> Call]
    BY NoCallType DEF Init
  <2>2. running \in BOOLEAN
    BY Zenon DEF Init
  <2> QED
    BY <2>1, <2>2 DEF Init, TypeOK
<1>2. RunningInv /\ TimeInv /\ CollectionsSpaced /\ PanicStopsOne
  BY DEF Init, RunningInv, TimeInv, CollectionsSpaced, PanicStopsOne, NoCall,
         Last
<1>3. CallsInv
  <2>1. NoCall.pc = "idle" /\ NoCall.asked = 0
    BY DEF NoCall
  <2>2. CallInv(NoCall)
    BY <2>1 DEF Init, CallInv, Collecting, Waiting, Returning
  <2> QED
    BY <2>2 DEF Init, CallsInv
<1> QED
  BY <1>1, <1>2, <1>3 DEF IInv

\* A step of one call that neither begins nor ends a collection.
LEMMA CallStep ==
    ASSUME IInv, NEW c \in Callers, NEW q \in Call,
           caller' = [caller EXCEPT ![c] = q],
           UNCHANGED <<clock, samples, running, completed, closed>>,
           caller[c].pc # "collecting",
           q.pc \notin {"collecting", "panicked"},
           CallInv(q)
    PROVE  IInv'
<1>1. \A d \in Callers : caller'[d] = IF d = c THEN q ELSE caller[d]
  BY DEF IInv, TypeOK
<1>2. TypeOK' /\ TimeInv'
  BY DEF IInv, TypeOK, TimeInv, Last
<1>3. RunningInv'
  BY <1>1 DEF IInv, RunningInv
<1>4. CollectionsSpaced'
  BY <1>1 DEF IInv, CollectionsSpaced, Last
<1>5. PanicStopsOne'
  BY <1>1 DEF IInv, PanicStopsOne
<1>6. CallsInv'
  <2> SUFFICES ASSUME NEW d \in Callers
               PROVE  CallInv(caller[d])'
    BY DEF CallsInv
  <2>1. CallInv(caller'[d])
    BY <1>1 DEF IInv, CallsInv
  <2> QED
    BY <2>1 DEF CallInv, Collecting, Waiting, Returning, Answers, Last
<1> QED
  BY <1>2, <1>3, <1>4, <1>5, <1>6 DEF IInv

\* A call notes the time at which it is made.
LEMMA StartCallStep ==
    ASSUME IInv, NEW c \in Callers, StartCall(c)
    PROVE  IInv'
<1> DEFINE q == [NoCall EXCEPT !.pc = "called", !.asked = clock]
<1>1. q \in Call /\ q.pc = "called" /\ q.asked = clock
  BY NoCallType DEF IInv, TypeOK, Call
<1>2. caller' = [caller EXCEPT ![c] = q] /\ caller[c].pc = "idle"
  BY DEF StartCall
<1> HIDE DEF q
<1>3. CallInv(q)
  BY <1>1 DEF IInv, TypeOK, CallInv, Collecting, Waiting, Returning
<1> QED
  BY <1>1, <1>2, <1>3, CallStep DEF StartCall

\* A call that has returned makes no claim any more.
LEMMA EndCallStep ==
    ASSUME IInv, NEW c \in Callers, EndCall(c)
    PROVE  IInv'
<1>1. NoCall.pc = "idle" /\ CallInv(NoCall)
  BY DEF NoCall, IInv, TypeOK, CallInv, Collecting, Waiting, Returning
<1> QED
  BY <1>1, NoCallType, CallStep DEF EndCall

\* What the steps of a call that returns a cached sample have in common.
LEMMA AnswerStep ==
    ASSUME IInv, NEW c \in Callers, caller[c].pc \in {"called", "woken"},
           Answers(caller[c].asked),
           caller' = [caller EXCEPT ![c] =
                         [@ EXCEPT !.pc = "answered", !.sample = Last]],
           UNCHANGED <<clock, samples, running, completed, closed>>
    PROVE  IInv'
<1> DEFINE q == [caller[c] EXCEPT !.pc = "answered", !.sample = Last]
<1>1. caller[c] \in Call /\ CallInv(caller[c]) /\ Last \in Nat
  BY DEF IInv, TypeOK, CallsInv, Last
<1>2. /\ q \in Call /\ q.pc = "answered" /\ q.sample = Last
      /\ q.asked = caller[c].asked
  BY <1>1 DEF Call
<1>3. caller' = [caller EXCEPT ![c] = q]
  BY DEF IInv, TypeOK
<1> HIDE DEF q
<1>4. CallInv(q)
  BY <1>1, <1>2 DEF CallInv, Collecting, Waiting, Returning, Answers
<1> QED
  BY <1>2, <1>3, <1>4, CallStep

\* A sample that has not expired answers the call.
LEMMA AnswerFreshStep ==
    ASSUME IInv, NEW c \in Callers, AnswerFresh(c)
    PROVE  IInv'
<1>1. caller[c].asked <= clock /\ caller[c] \in Call
  BY DEF IInv, TypeOK, CallsInv, CallInv
<1>2. Last \in Nat /\ \A i \in 1 .. Last : samples[i] \in Sample
  BY DEF IInv, TypeOK, Last
<1>3. Last > 0 /\ clock < samples[Last].stored + TTL
  BY DEF AnswerFresh, Fresh
<1>4. samples[Last].stored \in Nat /\ clock \in Nat /\ caller[c].asked \in Nat
  BY <1>1, <1>2, <1>3 DEF IInv, TypeOK, Call, Sample
<1>5. Answers(caller[c].asked)
  BY <1>1, <1>3, <1>4, TTLAssumption DEF Answers
<1> QED
  BY <1>5, AnswerStep DEF AnswerFresh

\* The sample that a call waited for, or a later one, answers it.
LEMMA ReadSharedStep ==
    ASSUME IInv, NEW c \in Callers, ReadShared(c)
    PROVE  IInv'
<1>1. Answers(caller[c].asked)
  BY DEF ReadShared, IInv, CallsInv, CallInv, Waiting
<1> QED
  BY <1>1, AnswerStep DEF ReadShared

\* A call that waits has the channel of the collection under way.
LEMMA WaitStep ==
    ASSUME IInv, NEW c \in Callers, Wait(c)
    PROVE  IInv'
<1> DEFINE q == [caller[c] EXCEPT !.pc = "waiting", !.channel = completed]
<1>1. caller[c] \in Call /\ CallInv(caller[c]) /\ completed \in Nat
  BY DEF IInv, TypeOK, CallsInv
<1>2. /\ q \in Call /\ q.pc = "waiting" /\ q.channel = completed
      /\ q.asked = caller[c].asked
  BY <1>1 DEF Call
<1>3. caller' = [caller EXCEPT ![c] = q]
  BY DEF Wait, IInv, TypeOK
<1> HIDE DEF q
<1>4. CallInv(q)
  BY <1>1, <1>2 DEF Wait, CallInv, Collecting, Waiting, Returning
<1> QED
  BY <1>2, <1>3, <1>4, CallStep DEF Wait

\* A channel that is closed has its sample stored.
LEMMA WakeStep ==
    ASSUME IInv, NEW c \in Callers, Wake(c)
    PROVE  IInv'
<1> DEFINE q == [caller[c] EXCEPT !.pc = "woken"]
<1>1. caller[c] \in Call /\ CallInv(caller[c])
  BY DEF IInv, TypeOK, CallsInv
<1>2. /\ q \in Call /\ q.pc = "woken" /\ q.asked = caller[c].asked
      /\ q.channel = caller[c].channel
  BY <1>1 DEF Call
<1>3. caller' = [caller EXCEPT ![c] = q]
  BY DEF Wake, IInv, TypeOK
<1> HIDE DEF q
\* The channel is closed, so it is not the one of a collection going on.
<1>4. ~(running /\ caller[c].channel = completed)
  BY DEF Wake, IInv, RunningInv, CallsInv, CallInv, Collecting
<1>5. CallInv(q)
  BY <1>1, <1>2, <1>4
     DEF Wake, CallInv, Collecting, Waiting, Returning
<1> QED
  BY <1>2, <1>3, <1>5, CallStep DEF Wake

\* A call that gives up leaves the collection to the others.
LEMMA CancelStep ==
    ASSUME IInv, NEW c \in Callers, Cancel(c)
    PROVE  IInv'
<1> DEFINE q == [caller[c] EXCEPT !.pc = "cancelled"]
<1>1. caller[c] \in Call /\ CallInv(caller[c])
  BY DEF IInv, TypeOK, CallsInv
<1>2. q \in Call /\ q.pc = "cancelled" /\ q.asked = caller[c].asked
  BY <1>1 DEF Call
<1>3. caller' = [caller EXCEPT ![c] = q]
  BY DEF Cancel, IInv, TypeOK
<1> HIDE DEF q
<1>4. CallInv(q)
  BY <1>1, <1>2 DEF CallInv, Collecting, Waiting, Returning
<1> QED
  BY <1>2, <1>3, <1>4, CallStep DEF Cancel

\* Nothing fresh is there: every sample is a TTL old.
LEMMA NotFresh ==
    ASSUME IInv, ~Fresh
    PROVE  \A i \in 1 .. Last : clock >= samples[i].stored + TTL
<1> SUFFICES ASSUME NEW i \in 1 .. Last
             PROVE  clock >= samples[i].stored + TTL
  OBVIOUS
<1>1. /\ Last \in Nat /\ Last > 0 /\ clock \in Nat
      /\ samples[i] \in Sample /\ samples[Last] \in Sample
  BY DEF IInv, TypeOK, Last
<1>2. clock >= samples[Last].stored + TTL
  BY <1>1, TTLAssumption DEF Fresh, Sample
<1>3. CASE i = Last
  BY <1>2, <1>3
<1>4. CASE i < Last
  <2>1. samples[Last].started >= samples[i].stored + TTL
    BY <1>1, <1>4 DEF IInv, CollectionsSpaced
  <2>2. samples[Last].started <= samples[Last].stored
    BY <1>1 DEF IInv, TimeInv
  <2> QED
    BY <1>1, <1>2, <2>1, <2>2, TTLAssumption DEF Sample
<1> QED
  BY <1>1, <1>3, <1>4

\* A collection starts when there is none, a TTL after the last sample.
LEMMA CollectStep ==
    ASSUME IInv, NEW c \in Callers, Collect(c)
    PROVE  IInv'
<1> DEFINE q == [caller[c] EXCEPT !.pc = "collecting", !.started = clock,
                                  !.channel = completed + 1]
<1>1. /\ caller[c] \in Call /\ CallInv(caller[c])
      /\ completed \in Nat /\ clock \in Nat
  BY DEF IInv, TypeOK, CallsInv
<1>2. /\ q \in Call /\ q.pc = "collecting" /\ q.channel = completed + 1
      /\ q.started = clock /\ q.asked = caller[c].asked
  <2>1. completed + 1 \in Nat
    BY <1>1
  <2> QED
    BY <1>1, <2>1 DEF Call
<1>3. /\ caller' = [caller EXCEPT ![c] = q]
      /\ ~Fresh /\ running = FALSE /\ running' = TRUE
      /\ completed' = completed + 1
      /\ UNCHANGED <<clock, samples, closed>>
  BY DEF Collect, IInv, TypeOK
<1> HIDE DEF q
<1>4. \A d \in Callers : caller'[d] = IF d = c THEN q ELSE caller[d]
  BY <1>3 DEF IInv, TypeOK
<1>5. \A d \in Callers : caller[d].pc # "collecting"
  BY <1>3 DEF IInv, RunningInv
<1>6. TypeOK' /\ TimeInv'
  <2>1. running' \in BOOLEAN
    BY <1>3, Zenon
  <2>2. closed' \subseteq 1 .. completed'
    BY <1>1, <1>3 DEF IInv, TypeOK
  <2>3. TypeOK'
    BY <1>1, <1>2, <1>3, <2>1, <2>2 DEF IInv, TypeOK
  <2>4. TimeInv'
    BY <1>3 DEF IInv, TimeInv, Last
  <2> QED
    BY <2>3, <2>4
<1>7. RunningInv'
  BY <1>2, <1>3, <1>4, <1>5 DEF RunningInv
<1>8. CollectionsSpaced'
  BY <1>2, <1>3, <1>4, <1>5, NotFresh DEF IInv, CollectionsSpaced, Last
<1>9. PanicStopsOne'
  BY <1>2, <1>4 DEF IInv, PanicStopsOne
<1>10. CallsInv'
  <2> SUFFICES ASSUME NEW d \in Callers
               PROVE  CallInv(caller[d])'
    BY DEF CallsInv
  <2>1. CallInv(caller[d])
    BY DEF IInv, CallsInv
  <2>2. CASE d = c
    <3>1. q.channel \notin closed
      BY <1>1, <1>2 DEF IInv, TypeOK
    <3>2. caller'[c] = q /\ q.channel \in 1 .. completed + 1
      BY <1>1, <1>2, <1>4
    <3>3. q.asked <= clock /\ \A i \in 1 .. Last : clock >= samples[i].stored + TTL
      BY <1>1, <1>2, <1>3, NotFresh DEF CallInv
    <3>4. Collecting(caller[c])'
      BY <1>1, <1>2, <1>3, <3>1, <3>2, <3>3 DEF Collecting, Last
    <3> QED
      BY <1>2, <1>3, <2>2, <3>2, <3>3, <3>4
         DEF CallInv, Waiting, Returning
  <2>3. CASE d # c
    <3>1. ~(running /\ caller[d].channel = completed)
      BY <1>3
    <3> QED
      BY <1>3, <1>4, <1>5, <2>1, <2>3, <3>1
         DEF CallInv, Collecting, Waiting, Returning, Answers, Last
  <2> QED
    BY <2>2, <2>3
<1> QED
  BY <1>6, <1>7, <1>8, <1>9, <1>10 DEF IInv

\* A sample is stored before its channel is closed, and answers all who wait.
LEMMA StoreStep ==
    ASSUME IInv, NEW c \in Callers, Store(c)
    PROVE  IInv'
<1>1. PICK result \in Results :
         /\ samples' = Append(samples,
                         [started |-> caller[c].started, stored |-> clock,
                          result |-> result])
         /\ caller' = [caller EXCEPT ![c] =
                          [@ EXCEPT !.pc = IF result = "panic"
                                           THEN "panicked" ELSE "answered",
                                    !.sample = Last + 1]]
  BY DEF Store
<1> DEFINE new == [started |-> caller[c].started, stored |-> clock,
                   result |-> result]
           pc  == IF result = "panic" THEN "panicked" ELSE "answered"
           q   == [caller[c] EXCEPT !.pc = pc, !.sample = Last + 1]
<1>2. /\ caller[c] \in Call /\ CallInv(caller[c])
      /\ caller[c].pc = "collecting"
      /\ completed \in Nat /\ clock \in Nat /\ Last \in Nat
      /\ samples \in Seq(Sample)
  BY DEF Store, IInv, TypeOK, CallsInv, Last
<1>3. new \in Sample /\ new.stored = clock /\ new.started = caller[c].started
  BY <1>2 DEF Sample, Call
<1>4. pc \in {"panicked", "answered"}
  OBVIOUS
<1>5. samples' = Append(samples, new) /\ caller' = [caller EXCEPT ![c] = q]
  BY <1>1 DEF IInv, TypeOK
<1> HIDE DEF new, pc
<1>6. /\ q \in Call /\ q.pc \in {"panicked", "answered"}
      /\ q.sample = Last + 1 /\ q.asked = caller[c].asked
  <2>1. Last + 1 \in Nat
    BY <1>2
  <2> QED
    BY <1>2, <1>4, <2>1 DEF Call
<1> HIDE DEF q
<1>7. /\ Last' = Last + 1
      /\ samples'[Last + 1] = new
      /\ \A i \in 1 .. Last : samples'[i] = samples[i]
      /\ samples' \in Seq(Sample)
  BY <1>2, <1>3, <1>5 DEF Last
<1>8. \A d \in Callers : caller'[d] = IF d = c THEN q ELSE caller[d]
  BY <1>5 DEF IInv, TypeOK
<1>9. /\ running' = FALSE /\ closed' = closed \cup {caller[c].channel}
      /\ UNCHANGED <<clock, completed>>
      /\ caller[c].channel = completed /\ completed \in 1 .. completed
      /\ caller[c].asked <= caller[c].started /\ caller[c].started <= clock
  BY <1>2 DEF Store, CallInv, Collecting
<1>10. \A d \in Callers : d # c => caller[d].pc # "collecting"
  BY <1>2 DEF IInv, RunningInv
<1>11. TypeOK'
  <2>1. running' \in BOOLEAN
    BY <1>9, Zenon
  <2>2. closed' \subseteq 1 .. completed'
    BY <1>9 DEF IInv, TypeOK
  <2>3. caller' \in [Callers -> Call]
    BY <1>5, <1>6 DEF IInv, TypeOK
  <2> QED
    BY <1>7, <1>9, <2>1, <2>2, <2>3 DEF IInv, TypeOK
<1>12. RunningInv'
  BY <1>6, <1>8, <1>9, <1>10 DEF RunningInv
<1>13. TimeInv'
  <2> SUFFICES ASSUME NEW i \in 1 .. Last + 1
               PROVE  /\ samples'[i].started <= samples'[i].stored
                      /\ samples'[i].stored <= clock
    BY <1>7, <1>9 DEF TimeInv
  <2>1. CASE i = Last + 1
    BY <1>2, <1>3, <1>7, <1>9, <2>1 DEF Call
  <2>2. CASE i \in 1 .. Last
    BY <1>7, <2>2 DEF IInv, TimeInv
  <2> QED
    BY <1>2, <2>1, <2>2
<1>14. CollectionsSpaced'
  <2>1. \A d \in Callers : caller'[d].pc # "collecting"
    BY <1>6, <1>8, <1>10
  <2>2. ASSUME NEW i \in 1 .. Last + 1, NEW j \in 1 .. Last + 1, i < j
        PROVE  samples'[j].started >= samples'[i].stored + TTL
    <3>1. i \in 1 .. Last
      BY <1>2, <2>2
    <3>2. CASE j = Last + 1
      BY <1>2, <1>3, <1>7, <3>1, <3>2 DEF IInv, CollectionsSpaced
    <3>3. CASE j \in 1 .. Last
      BY <1>7, <2>2, <3>1, <3>3 DEF IInv, CollectionsSpaced
    <3> QED
      BY <1>2, <3>2, <3>3
  <2> QED
    BY <1>7, <2>1, <2>2 DEF CollectionsSpaced
<1>15. PanicStopsOne'
  <2>1. \A d \in Callers :
           caller[d].pc = "panicked" => caller[d].sample \in 1 .. Last
    BY DEF IInv, CallsInv, CallInv, Returning
  <2>2. \A d \in Callers :
           d # c /\ caller[d].pc = "panicked" => caller[d].sample # q.sample
    BY <1>2, <1>6, <2>1
  <2> QED
    BY <1>8, <2>2 DEF IInv, PanicStopsOne
<1>16. ASSUME NEW t \in Nat, t <= clock
       PROVE  Answers(t)'
  BY <1>2, <1>3, <1>7, <1>16, TTLAssumption DEF Answers
<1>17. CallsInv'
  <2> SUFFICES ASSUME NEW d \in Callers
               PROVE  CallInv(caller[d])'
    BY DEF CallsInv
  <2>1. CallInv(caller[d]) /\ caller[d] \in Call
    BY DEF IInv, TypeOK, CallsInv
  <2>2. CASE d = c
    <3>1. caller'[c] = q /\ caller[c].asked \in Nat
      BY <1>2, <1>8 DEF Call
    <3>2. caller[c].asked < clock + TTL
      BY <1>2, <3>1, TTLAssumption DEF CallInv
    <3>3. Returning(caller[c])'
      BY <1>2, <1>3, <1>6, <1>7, <3>1, <3>2 DEF Returning
    <3> QED
      BY <1>2, <1>6, <1>9, <2>2, <3>1, <3>3
         DEF CallInv, Collecting, Waiting
  <2>3. CASE d # c
    <3>1. caller'[d] = caller[d] /\ caller[d].pc # "collecting"
      BY <1>8, <1>10, <2>3
    <3>2. Answers(caller[d].asked)'
      <4>1. caller[d].asked \in Nat /\ caller[d].asked <= clock
        BY <2>1 DEF CallInv, Call
      <4> QED
        BY <1>16, <3>1, <4>1 DEF Answers
    <3>3. Waiting(caller[d])'
      BY <1>9, <2>1, <3>1, <3>2 DEF Waiting, CallInv
    <3>4. Returning(caller[d])'
      BY <1>2, <1>7, <2>1, <3>1 DEF Returning, CallInv
    <3> QED
      BY <1>9, <2>1, <3>1, <3>3, <3>4 DEF CallInv, Collecting
  <2> QED
    BY <2>2, <2>3
<1> QED
  BY <1>11, <1>12, <1>13, <1>14, <1>15, <1>17 DEF IInv

\* Time passing changes no sample and wakes nobody.
LEMMA TickStep == IInv /\ Tick => IInv'
<1> SUFFICES ASSUME IInv, Tick
             PROVE  IInv'
  OBVIOUS
<1> USE DEF Tick
<1>1. TypeOK' /\ RunningInv' /\ CollectionsSpaced' /\ PanicStopsOne'
  BY DEF IInv, TypeOK, RunningInv, CollectionsSpaced, PanicStopsOne, Last
<1>2. TimeInv'
  <2>1. \A i \in 1 .. Last : samples[i] \in Sample
    BY DEF IInv, TypeOK, Last
  <2> QED
    BY <2>1 DEF IInv, TypeOK, TimeInv, Last, Sample
<1>3. CallsInv'
  <2> SUFFICES ASSUME NEW c \in Callers
               PROVE  CallInv(caller[c])'
    BY DEF CallsInv
  <2>1. CallInv(caller[c]) /\ caller[c] \in Call
    BY DEF IInv, CallsInv, TypeOK
  <2> QED
    BY <2>1 DEF CallInv, Collecting, Waiting, Returning, Answers, Last, Call,
                IInv, TypeOK
<1> QED
  BY <1>1, <1>2, <1>3 DEF IInv

\* Every step keeps the inductive invariant.
LEMMA NextIInv == IInv /\ [Next]_vars => IInv'
<1> SUFFICES ASSUME IInv, [Next]_vars
             PROVE  IInv'
  OBVIOUS
<1>1. CASE UNCHANGED vars
  BY <1>1 DEF vars, IInv, TypeOK, RunningInv, TimeInv, CollectionsSpaced,
              PanicStopsOne, CallsInv, CallInv, Collecting, Waiting,
              Returning, Answers, Last
<1> QED
  BY <1>1, StartCallStep, EndCallStep, AnswerFreshStep, WaitStep,
     CollectStep, StoreStep, WakeStep, ReadSharedStep, CancelStep, TickStep
     DEF Next, GetMetrics

\* The inductive invariant holds throughout.
LEMMA Invariance == Spec => []IInv
BY InitIInv, NextIInv, PTL DEF Spec

\* The collector and its calls stay well typed.
THEOREM TypeCorrect == Spec => []TypeOK
<1>1. IInv => TypeOK
  BY DEF IInv
<1> QED
  BY <1>1, Invariance, PTL

\* No call returns a sample that was a TTL old when the call was made.
THEOREM NeverStaleHolds == Spec => []NeverStale
<1>1. IInv => NeverStale
  BY DEF IInv, CallsInv, CallInv, Returning, NeverStale
<1> QED
  BY <1>1, Invariance, PTL

\* The machine is left alone for a TTL after every collection.
THEOREM CollectionsSpacedHolds == Spec => []CollectionsSpaced
<1>1. IInv => CollectionsSpaced
  BY DEF IInv
<1> QED
  BY <1>1, Invariance, PTL

\* Every call that waits has somebody who will wake it.
THEOREM NoLostWakeupHolds == Spec => []NoLostWakeup
<1>1. IInv => NoLostWakeup
  BY DEF IInv, RunningInv, CallsInv, CallInv, Waiting, Collecting,
         NoLostWakeup
<1> QED
  BY <1>1, Invariance, PTL

\* One panic of the collector stops one worker.
THEOREM PanicStopsOneHolds == Spec => []PanicStopsOne
<1>1. IInv => PanicStopsOne
  BY DEF IInv
<1> QED
  BY <1>1, Invariance, PTL
=============================================================================
