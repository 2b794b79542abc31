---------------------------- MODULE AgentProcess ----------------------------
(***************************************************************************)
(* The process of `hosthalla agent run`: a runtime that starts one worker  *)
(* for every configured server and waits for all of them, and the workers, *)
(* each a loop over two tickers that sends heartbeats and metrics.         *)
(*                                                                         *)
(* The workers share the metrics collector.  MetricsCollector models it;   *)
(* here a call of it ends with a sample, an error or a panic, and a panic  *)
(* is the end of the one worker that met it.                               *)
(*                                                                         *)
(* The HTTP client has no timeout: a server may leave a request open for   *)
(* ever, and only the end of the process's context ends it then.           *)
(***************************************************************************)
EXTENDS Naturals

CONSTANTS
    Instances,  \* the configured servers, one worker each
    Answering,  \* the servers that answer every request
    MaxVersion  \* bound on the versions of a server-side configuration

ASSUME InstancesAssumption == Instances # {}
ASSUME AnsweringAssumption == Answering \subseteq Instances
ASSUME VersionAssumption == MaxVersion \in Nat \ {0}

VARIABLES
    cancelled,  \* ctx is done: the process was interrupted
    runtime,    \* where Runtime.Run stands, and how it returned
    results,    \* the instances whose result is in the channel
    received,   \* the instances whose result has been received
    worker,     \* worker[i]: where the goroutine of instance i stands
    ticks,      \* ticks[i]: the tickers of i that have fired
    version,    \* version[i]: of the configuration worker i runs with
    served      \* served[i]: of i's configuration in its server's database

vars == <<cancelled, runtime, results, received, worker, ticks, version, served>>

Tickers == {"heartbeat", "metrics"}

LoopPCs    == {"select", "heartbeat", "collect", "metrics"}
RequestPCs == {"heartbeat", "metrics"}
EndPCs     == {"returned", "panicked"}

TypeOK ==
    /\ cancelled \in BOOLEAN
    /\ runtime \in {"waiting", "stopping", "nil", "error"}
    /\ results \subseteq Instances
    /\ received \subseteq Instances
    /\ results \cap received = {}
    /\ worker \in [Instances -> LoopPCs \cup EndPCs]
    /\ ticks \in [Instances -> SUBSET Tickers]
    /\ version \in [Instances -> 1 .. MaxVersion]
    /\ served \in [Instances -> 1 .. MaxVersion]

\* The runtime has started every worker.  A registration writes version 1.
Init ==
    /\ cancelled = FALSE
    /\ runtime = "waiting"
    /\ results = {}
    /\ received = {}
    /\ worker = [i \in Instances |-> "select"]
    /\ ticks = [i \in Instances |-> {}]
    /\ version = [i \in Instances |-> 1]
    /\ served = [i \in Instances |-> 1]

-----------------------------------------------------------------------------
(* Worker.Run                                                              *)

Goto(i, pc) == worker' = [worker EXCEPT ![i] = pc]

\* A ticker's channel holds one tick; a second one is dropped.
Tick(i, ticker) ==
    /\ worker[i] \in LoopPCs
    /\ ticker \notin ticks[i]
    /\ ticks' = [ticks EXCEPT ![i] = @ \cup {ticker}]
    /\ UNCHANGED <<cancelled, runtime, results, received, worker, version, served>>

\* Fault: the workers take turns with a client they share.
TakeTickInTurn(i, ticker) ==
    /\ worker[i] = "select"
    /\ ticker \in ticks[i]
    /\ \A j \in Instances : worker[j] \notin RequestPCs
    /\ ticks' = [ticks EXCEPT ![i] = @ \ {ticker}]
    /\ Goto(i, IF ticker = "heartbeat" THEN "heartbeat" ELSE "collect")
    /\ UNCHANGED <<cancelled, runtime, results, received, version, served>>

\* The select takes one of the cases that are ready, cancellation among them.
TakeTick(i, ticker) ==
    /\ worker[i] = "select"
    /\ ticker \in ticks[i]
    /\ ticks' = [ticks EXCEPT ![i] = @ \ {ticker}]
    /\ Goto(i, IF ticker = "heartbeat" THEN "heartbeat" ELSE "collect")
    /\ UNCHANGED <<cancelled, runtime, results, received, version, served>>

ReturnOnDone(i) ==
    /\ worker[i] = "select"
    /\ cancelled
    /\ Goto(i, "returned")
    /\ UNCHANGED <<cancelled, runtime, results, received, ticks, version, served>>

\* sendMetrics has its sample, or logs the collector's error and goes on.
EndCollect(i) ==
    /\ worker[i] = "collect"
    /\ \E pc \in {"metrics", "select"} : Goto(i, pc)
    /\ UNCHANGED <<cancelled, runtime, results, received, ticks, version, served>>

PanicInCollect(i) ==
    /\ worker[i] = "collect"
    /\ Goto(i, "panicked")
    /\ UNCHANGED <<cancelled, runtime, results, received, ticks, version, served>>

\* Fault: a request that fails ends the worker.
EndRequestOrGiveUp(i) ==
    /\ worker[i] \in RequestPCs
    /\ \E pc \in {"select", "returned"} : Goto(i, pc)
    /\ UNCHANGED <<cancelled, runtime, results, received, ticks, version, served>>

\* The server answers, or the connection fails, which is logged.  The answer
\* to a heartbeat has the version served[i]; the worker has no use for it.
EndRequest(i) ==
    /\ worker[i] \in RequestPCs
    /\ Goto(i, "select")
    /\ UNCHANGED <<cancelled, runtime, results, received, ticks, version, served>>

\* Fault: the request is not bound to the process's context.
AbortRequestNever(i) == FALSE /\ UNCHANGED vars

\* A request that is open when the context ends fails.
AbortRequest(i) ==
    /\ worker[i] \in RequestPCs
    /\ cancelled
    /\ Goto(i, "select")
    /\ UNCHANGED <<cancelled, runtime, results, received, ticks, version, served>>

\* runInstance's deferred function.  The channel has room for every instance.
SendResult(i) ==
    /\ worker[i] \in EndPCs
    /\ i \notin results \cup received
    /\ results' = results \cup {i}
    /\ UNCHANGED <<cancelled, runtime, received, worker, ticks, version, served>>

-----------------------------------------------------------------------------
(* Runtime.Run                                                             *)

Remaining == Instances \ received

\* Either select or, once stopping, a plain receive.
ReceiveResult(i) ==
    /\ runtime \in {"waiting", "stopping"}
    /\ i \in results
    /\ results' = results \ {i}
    /\ received' = received \cup {i}
    /\ UNCHANGED <<cancelled, runtime, worker, ticks, version, served>>

SeeDone ==
    /\ runtime = "waiting"
    /\ Remaining # {}
    /\ cancelled
    /\ runtime' = "stopping"
    /\ UNCHANGED <<cancelled, results, received, worker, ticks, version, served>>

\* Fault: the runtime does not wait for its workers once it is to stop.
ReturnAtOnce ==
    /\ runtime \in {"waiting", "stopping"}
    /\ Remaining = {} \/ runtime = "stopping"
    /\ runtime' = IF cancelled THEN "nil" ELSE "error"
    /\ UNCHANGED <<cancelled, results, received, worker, ticks, version, served>>

Return ==
    /\ runtime \in {"waiting", "stopping"}
    /\ Remaining = {}
    /\ runtime' = IF cancelled THEN "nil" ELSE "error"
    /\ UNCHANGED <<cancelled, results, received, worker, ticks, version, served>>

-----------------------------------------------------------------------------
(* The environment.                                                        *)

\* SIGINT or SIGTERM: signal.NotifyContext cancels the context.
Interrupt ==
    /\ ~cancelled
    /\ runtime \in {"waiting", "stopping"}
    /\ cancelled' = TRUE
    /\ UNCHANGED <<runtime, results, received, worker, ticks, version, served>>

\* AgentConfigRepository.Update on a server.
UpdateServed(i) ==
    /\ served[i] < MaxVersion
    /\ served' = [served EXCEPT ![i] = @ + 1]
    /\ UNCHANGED <<cancelled, runtime, results, received, worker, ticks, version>>

\* The process has ended, and its workers with it.
Ended == runtime \in {"nil", "error"} /\ UNCHANGED vars

-----------------------------------------------------------------------------
WorkerStep(i) ==
    \/ ReturnOnDone(i)
    \/ EndCollect(i)
    \/ AbortRequest(i)
    \/ SendResult(i)

Next ==
    \/ \E i \in Instances, ticker \in Tickers :
          Tick(i, ticker) \/ TakeTick(i, ticker)
    \/ \E i \in Instances : WorkerStep(i)
    \/ \E i \in Instances : PanicInCollect(i) \/ EndRequest(i)
    \/ \E i \in Instances : ReceiveResult(i) \/ UpdateServed(i)
    \/ SeeDone
    \/ Return
    \/ Interrupt
    \/ Ended

Spec == Init /\ [][Next]_vars

\* The goroutines run; select chooses at random among what is ready, so that
\* no case that is ready again and again is passed over for ever; calls of
\* the collector return; the servers in Answering answer.
FairSpec ==
    /\ Spec
    /\ WF_vars(SeeDone) /\ WF_vars(Return)
    /\ \A i \in Instances :
          /\ WF_vars(EndCollect(i)) /\ WF_vars(AbortRequest(i))
          /\ WF_vars(SendResult(i)) /\ WF_vars(ReceiveResult(i))
          /\ SF_vars(ReturnOnDone(i))
          /\ \A ticker \in Tickers :
                WF_vars(Tick(i, ticker)) /\ SF_vars(TakeTick(i, ticker))
    /\ \A i \in Answering : WF_vars(EndRequest(i))

-----------------------------------------------------------------------------
(* Properties.                                                             *)

\* When the runtime returns, no worker is left that could still send.
NoneLeftBehind ==
    runtime \in {"nil", "error"} =>
        \A i \in Instances : worker[i] \in EndPCs /\ i \in received

\* The process reports an error only when every one of its workers has
\* panicked; a server that fails, or an interruption in the middle of panics,
\* is no reason.
ErrorOnlyIfAllPanicked ==
    runtime = "error" => \A i \in Instances : worker[i] = "panicked"

\* An interrupted process ends, also while its servers leave requests open.
StopsWhenAsked == cancelled ~> runtime = "nil"

\* A server that leaves requests open holds up its own worker only: every
\* tick of a server that answers is taken, or that worker ends.
OthersGoOn ==
    \A i \in Answering, ticker \in Tickers :
        ticker \in ticks[i] ~> ticker \notin ticks[i] \/ worker[i] \in EndPCs

\* The README on the intervals of heartbeats and metrics: "can be updated
\* through the server-side agent configuration".
UpdatesReachWorker ==
    \A i \in Answering :
        version[i] < served[i] ~> version[i] = served[i] \/ worker[i] \in EndPCs
=============================================================================
