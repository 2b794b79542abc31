-------------------------- MODULE MetricsCollector --------------------------
(***************************************************************************)
(* The agent's CachedMetricsCollector: the workers of one agent process,   *)
(* one per server it reports to, share one collection of the machine's     *)
(* metrics at a time and its result, a failure too, for a TTL.             *)
(*                                                                         *)
(* A sample is a finished collection.  What the collector caches is the    *)
(* last sample; the metric itself is left out, its result is kept.  The    *)
(* sections under c.mu are short and run no other code: each is a step.    *)
(***************************************************************************)
EXTENDS Naturals, Sequences

CONSTANTS
    Callers,    \* goroutines that call GetMetrics, one call at a time
    TTL,        \* the collector's ttl, in ticks of the clock
    MaxClock    \* bound on the clock, and so on the samples

ASSUME TTLAssumption == TTL \in Nat \ {0}
ASSUME MaxClockAssumption == MaxClock \in Nat

VARIABLES
    clock,      \* time.Now, a monotonic clock
    samples,    \* the collections that have been stored; the last is cached
    running,    \* c.running
    completed,  \* c.completed: the number of the last channel made
    closed,     \* the channels that have been closed
    caller      \* caller[c]: where the call of c stands

vars == <<clock, samples, running, completed, closed, caller>>

Results == {"metric", "error", "panic"}

Sample == [started : Nat, stored : Nat, result : Results]

\* asked is the time of the call; channel the channel it closes or waits
\* for; started the time it began to collect; sample what it returns.
Call == [pc      : {"idle", "called", "collecting", "waiting", "woken",
                    "answered", "cancelled", "panicked"},
         asked   : Nat,
         channel : Nat,
         started : Nat,
         sample  : Nat]

NoCall == [pc |-> "idle", asked |-> 0, channel |-> 0, started |-> 0,
           sample |-> 0]

TypeOK ==
    /\ clock \in Nat
    /\ samples \in Seq(Sample)
    /\ running \in BOOLEAN
    /\ completed \in Nat
    /\ closed \subseteq 1 .. completed
    /\ caller \in [Callers -> Call]

Init ==
    /\ clock = 0
    /\ samples = << >>
    /\ running = FALSE
    /\ completed = 0
    /\ closed = {}
    /\ caller = [c \in Callers |-> NoCall]

Last == Len(samples)

\* A sample has been stored, and less than a TTL ago.
Fresh == Last > 0 /\ clock < samples[Last].stored + TTL

StartCall(c) ==
    /\ caller[c].pc = "idle"
    /\ caller' = [caller EXCEPT ![c] =
                     [NoCall EXCEPT !.pc = "called", !.asked = clock]]
    /\ UNCHANGED <<clock, samples, running, completed, closed>>

\* Fault: the age of the sample is not looked at.
AnswerAlways(c) ==
    /\ caller[c].pc = "called"
    /\ Last > 0
    /\ caller' = [caller EXCEPT ![c] =
                     [@ EXCEPT !.pc = "answered", !.sample = Last]]
    /\ UNCHANGED <<clock, samples, running, completed, closed>>

\* The sample there is answers the call.
AnswerFresh(c) ==
    /\ caller[c].pc = "called"
    /\ Fresh
    /\ caller' = [caller EXCEPT ![c] =
                     [@ EXCEPT !.pc = "answered", !.sample = Last]]
    /\ UNCHANGED <<clock, samples, running, completed, closed>>

\* Another call is collecting: keep its channel and wait.
Wait(c) ==
    /\ caller[c].pc = "called"
    /\ ~Fresh
    /\ running
    /\ caller' = [caller EXCEPT ![c] =
                     [@ EXCEPT !.pc = "waiting", !.channel = completed]]
    /\ UNCHANGED <<clock, samples, running, completed, closed>>

\* Fault: it is not looked at whether another call is collecting.
CollectAnyway(c) ==
    /\ caller[c].pc = "called"
    /\ ~Fresh
    /\ running' = TRUE
    /\ completed' = completed + 1
    /\ caller' = [caller EXCEPT ![c] =
                     [@ EXCEPT !.pc = "collecting", !.started = clock,
                               !.channel = completed + 1]]
    /\ UNCHANGED <<clock, samples, closed>>

\* Nobody is: make a channel for those who will wait and collect.
Collect(c) ==
    /\ caller[c].pc = "called"
    /\ ~Fresh
    /\ ~running
    /\ running' = TRUE
    /\ completed' = completed + 1
    /\ caller' = [caller EXCEPT ![c] =
                     [@ EXCEPT !.pc = "collecting", !.started = clock,
                               !.channel = completed + 1]]
    /\ UNCHANGED <<clock, samples, closed>>

\* Fault: a panic unwinds through GetMetrics at once.
StoreUnlessPanic(c) ==
    /\ caller[c].pc = "collecting"
    /\ \/ /\ \E result \in Results \ {"panic"} :
                samples' = Append(samples,
                             [started |-> caller[c].started, stored |-> clock,
                              result |-> result])
          /\ running' = FALSE
          /\ closed' = closed \cup {caller[c].channel}
          /\ caller' = [caller EXCEPT ![c] =
                           [@ EXCEPT !.pc = "answered", !.sample = Last + 1]]
       \/ /\ caller' = [caller EXCEPT ![c] = [@ EXCEPT !.pc = "panicked"]]
          /\ UNCHANGED <<samples, running, closed>>
    /\ UNCHANGED <<clock, completed>>

\* Fault: the channel of the next collection is closed.
StoreOtherChannel(c) ==
    /\ caller[c].pc = "collecting"
    /\ samples' = Append(samples,
                    [started |-> caller[c].started, stored |-> clock,
                     result |-> "metric"])
    /\ caller' = [caller EXCEPT ![c] =
                     [@ EXCEPT !.pc = "answered", !.sample = Last + 1]]
    /\ running' = FALSE
    /\ closed' = closed \cup {completed + 1}
    /\ UNCHANGED <<clock, completed>>

\* The collection ends, well or not: store what there is to share, wake
\* those who wait and only then go on with a panic.
Store(c) ==
    /\ caller[c].pc = "collecting"
    /\ \E result \in Results :
          /\ samples' = Append(samples,
                          [started |-> caller[c].started, stored |-> clock,
                           result |-> result])
          /\ caller' = [caller EXCEPT ![c] =
                           [@ EXCEPT !.pc = IF result = "panic"
                                            THEN "panicked" ELSE "answered",
                                     !.sample = Last + 1]]
    /\ running' = FALSE
    /\ closed' = closed \cup {caller[c].channel}
    /\ UNCHANGED <<clock, completed>>

\* The channel this call waits for has been closed.
Wake(c) ==
    /\ caller[c].pc = "waiting"
    /\ caller[c].channel \in closed
    /\ caller' = [caller EXCEPT ![c] = [@ EXCEPT !.pc = "woken"]]
    /\ UNCHANGED <<clock, samples, running, completed, closed>>

\* Fault: who is handed the error of a panic panics too.
ReadSharedPanic(c) ==
    /\ caller[c].pc = "woken"
    /\ caller' = [caller EXCEPT ![c] =
                     [@ EXCEPT !.pc = IF samples[Last].result = "panic"
                                      THEN "panicked" ELSE "answered",
                               !.sample = Last]]
    /\ UNCHANGED <<clock, samples, running, completed, closed>>

\* Back under c.mu, where a later sample may be found than the awaited one.
ReadShared(c) ==
    /\ caller[c].pc = "woken"
    /\ caller' = [caller EXCEPT ![c] =
                     [@ EXCEPT !.pc = "answered", !.sample = Last]]
    /\ UNCHANGED <<clock, samples, running, completed, closed>>

\* The context of a call that waits ends.
Cancel(c) ==
    /\ caller[c].pc = "waiting"
    /\ caller' = [caller EXCEPT ![c] = [@ EXCEPT !.pc = "cancelled"]]
    /\ UNCHANGED <<clock, samples, running, completed, closed>>

EndCall(c) ==
    /\ caller[c].pc \in {"answered", "cancelled", "panicked"}
    /\ caller' = [caller EXCEPT ![c] = NoCall]
    /\ UNCHANGED <<clock, samples, running, completed, closed>>

Tick ==
    /\ clock < MaxClock
    /\ clock' = clock + 1
    /\ UNCHANGED <<samples, running, completed, closed, caller>>

GetMetrics(c) ==
    \/ AnswerFresh(c)
    \/ Wait(c)
    \/ Collect(c)
    \/ Store(c)
    \/ Wake(c)
    \/ ReadShared(c)

Next ==
    \/ \E c \in Callers : StartCall(c) \/ GetMetrics(c) \/ EndCall(c)
    \/ \E c \in Callers : Cancel(c)
    \/ Tick

Spec == Init /\ [][Next]_vars

\* A goroutine that can run does, and the machine's counters can be read in
\* finite time.  Nothing makes a context end.
FairSpec == Spec /\ \A c \in Callers : WF_vars(GetMetrics(c))

-----------------------------------------------------------------------------
(* Properties.                                                             *)

\* No call returns a sample that was a TTL old when the call was made,
\* whether it found the sample, collected it or waited for it.
NeverStale ==
    \A c \in Callers :
        caller[c].pc \in {"answered", "panicked"} =>
            /\ caller[c].sample \in 1 .. Last
            /\ caller[c].asked < samples[caller[c].sample].stored + TTL

\* However many workers ask, the machine is left alone for a TTL after each
\* collection, and so is never collected from twice at a time.
CollectionsSpaced ==
    /\ \A i, j \in 1 .. Last :
          i < j => samples[j].started >= samples[i].stored + TTL
    /\ \A c \in Callers, i \in 1 .. Last :
          caller[c].pc = "collecting"
              => caller[c].started >= samples[i].stored + TTL

\* A call that waits is woken: its channel is closed, or the call that will
\* close it still collects.
NoLostWakeup ==
    \A c \in Callers :
        caller[c].pc = "waiting" =>
            \/ caller[c].channel \in closed
            \/ \E d \in Callers :
                  /\ caller[d].pc = "collecting"
                  /\ caller[d].channel = caller[c].channel

\* One panic of the collector stops one worker, the one that collected;
\* the others are given an error.
PanicStopsOne ==
    \A c, d \in Callers :
        /\ caller[c].pc = "panicked" /\ caller[d].pc = "panicked"
        /\ caller[c].sample = caller[d].sample
        => c = d

\* Every call returns, also when the one it waits for panics or fails.
CallsReturn ==
    \A c \in Callers :
        caller[c].pc = "called"
            ~> caller[c].pc \in {"answered", "cancelled", "panicked"}
=============================================================================
