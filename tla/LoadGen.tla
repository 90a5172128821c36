------------------------------- MODULE LoadGen ------------------------------
(***************************************************************************)
(* The load generator at work against the server: NumClients               *)
(* ClientSessions, each with its asynchronous loop  connect -> write       *)
(* request -> read header -> read body -> record -> write ..., on a pool   *)
(* of threads, a timer that sets the stop flag, and the report that main   *)
(* prints once every thread has left the io_context.  The server is        *)
(* whatever Service allows.                                                *)
(*                                                                         *)
(* Grain.  A completion handler of a client is one action, except that     *)
(* record_success counts the success first and appends the sample under    *)
(* the mutex later: there the other threads run in between.                *)
(***************************************************************************)
EXTENDS Scenario, Metrics, Functions

CONSTANTS
  NumClients,   (* --clients                                                *)
  Latencies,    (* the latencies a request may be measured to have          *)
  OrderIds,     (* the order numbers the server gives                       *)
  MaxAnswers    (* bound: answers per connection before the timer fires     *)

ASSUME LoadGenAssumption ==
  /\ NumClients \in Nat
  /\ Latencies \subseteq Nat /\ IsFiniteSet(Latencies)
  /\ MaxAnswers \in Nat

Clients == 0 .. NumClients - 1
NoOrder == 0

(* main has not printed its report. *)
NoReport == [count |-> 0]

VARIABLES
  phase,        (* of the process: running, reported, crashed               *)
  at,           (* where each client's loop stands                          *)
  rng,          (* ClientSession::rng_state_, its low bits                  *)
  requested,    (* history: requests a client made                          *)
  got,          (* answers a client has taken off its stream                *)
  stopFlag,     (* stop_flag of main                                        *)
  inFlight,     (* in_flight of main                                        *)
  successes,    (* MetricsCollector::successes_                             *)
  errors,       (* MetricsCollector::errors_                                *)
  samples,      (* MetricsCollector::samples_us_: latency -> how often      *)
  report,       (* what MetricsCollector::compute returned to main          *)
  up, link, asked, answers    (* the server and its connections: Service    *)

client  == <<at, rng, requested, got>>
metrics == <<successes, errors, samples>>
server  == <<up, link, asked, answers>>
vars == <<phase, client, stopFlag, inFlight, metrics, report, server>>

S == INSTANCE Service WITH Conns <- Clients, Types <- Range(Kinds)

Places    == {"resolving", "connecting", "connected", "writing", "readHeader",
              "readBody", "counted", "finished", "failed"}
InRequest == {"writing", "readHeader", "readBody"}
Over      == {"finished", "failed"}

At(places) == {c \in Clients : at[c] \in places}

-----------------------------------------------------------------------------
(* Pieces of a client's handlers.                                          *)

Move(c, place) == at' = [at EXCEPT ![c] = place]

(* Seeded fault: on_done_ is called here and by the destructor. *)
FinishTwice(c, how) == Move(c, how) /\ inFlight' = inFlight - 2

(* finish(): the socket is closed and on_done_ called. *)
Finish(c, how) == Move(c, how) /\ inFlight' = inFlight - 1

(* Seeded fault: a client fails without record_error(). *)
FailQuietly(c) ==
  /\ Finish(c, "failed")
  /\ UNCHANGED <<phase, rng, requested, got, stopFlag, metrics, report,
                 server>>

(* record_error(), finish(), return. *)
Fail(c) ==
  /\ errors' = errors + 1
  /\ Finish(c, "failed")
  /\ UNCHANGED <<phase, rng, requested, got, stopFlag, successes, samples,
                 report, server>>

(* do_send_request: the write of a new request starts unless the test is   *)
(* over.  On a socket the server has closed the bytes are lost.            *)
SendRequest(c) ==
  \/ /\ stopFlag
     /\ Finish(c, "finished")
     /\ UNCHANGED <<rng, requested, server>>
  \/ /\ ~stopFlag
     /\ \E r \in NextRequest(rng[c]) :
          /\ rng' = [rng EXCEPT ![c] = r.rng]
          /\ IF link[c] = "open" THEN S!Ask(c, r.type) ELSE UNCHANGED server
     /\ requested' = [requested EXCEPT ![c] = @ + 1]
     /\ Move(c, "writing")
     /\ UNCHANGED inFlight

-----------------------------------------------------------------------------
(* The completion handlers of a client.                                    *)

Completes(c, op) == phase = "running" /\ at[c] = op

Resolved(c) ==
  /\ Completes(c, "resolving")
  /\ Move(c, "connecting")
  /\ UNCHANGED <<phase, rng, requested, got, stopFlag, inFlight, metrics,
                 report, server>>

(* Seeded fault: the client tries again for ever. *)
ConnectAgain(c) ==
  /\ Completes(c, "connecting")
  /\ Move(c, "resolving")
  /\ UNCHANGED <<phase, rng, requested, got, stopFlag, inFlight, metrics,
                 report, server>>

(* No address, or no server there, or none that answers in time. *)
ResolveOrConnectFails(c) ==
  /\ Completes(c, "resolving") \/ Completes(c, "connecting")
  /\ Fail(c)

(* The kernel completes the handshake; the handler runs later. *)
Connect(c) ==
  /\ Completes(c, "connecting")
  /\ S!Open(c)
  /\ Move(c, "connected")
  /\ UNCHANGED <<phase, rng, requested, got, stopFlag, inFlight, metrics,
                 report>>

Connected(c) ==
  /\ Completes(c, "connected")
  /\ SendRequest(c)
  /\ UNCHANGED <<phase, got, stopFlag, metrics, report>>

(* set_option(no_delay) throws, as it may on a connection the server       *)
(* already closed.  Nothing catches it in a handler: it leaves ioc.run(),  *)
(* and the process ends without a report.                                  *)
ConnectedThrow(c) ==
  /\ Completes(c, "connected") /\ link[c] = "closed"
  /\ phase' = "crashed"
  /\ UNCHANGED <<client, stopFlag, inFlight, metrics, report, server>>

(* Seeded fault: the next request goes out before the answer was read. *)
WrittenNext(c) ==
  /\ Completes(c, "writing")
  /\ SendRequest(c)
  /\ UNCHANGED <<phase, got, stopFlag, metrics, report>>

Written(c) ==
  /\ Completes(c, "writing")
  /\ Move(c, "readHeader")
  /\ UNCHANGED <<phase, rng, requested, got, stopFlag, inFlight, metrics,
                 report, server>>

(* The socket fails: of what the server sent before it closed, some may be *)
(* lost.                                                                   *)
SocketFails(c) ==
  /\ \E op \in InRequest : Completes(c, op)
  /\ link[c] = "closed"
  /\ Fail(c)

HeaderArrived(c) == Completes(c, "readHeader") /\ got[c] < Len(answers[c])

(* The header announces a payload. *)
HeaderRead(c) ==
  /\ HeaderArrived(c)
  /\ Move(c, "readBody")
  /\ UNCHANGED <<phase, rng, requested, got, stopFlag, inFlight, metrics,
                 report, server>>

(* It announces none, or the payload is complete: record_success counts.   *)
AnswerRead(c) ==
  /\ HeaderArrived(c) \/ Completes(c, "readBody")
  /\ got' = [got EXCEPT ![c] = @ + 1]
  /\ successes' = successes + 1
  /\ Move(c, "counted")
  /\ UNCHANGED <<phase, rng, requested, stopFlag, inFlight, errors, samples,
                 report, server>>

(* decode_header throws: the length is over the limit, as that of every    *)
(* answer is when the hosts differ in their byte order (see Wire).         *)
HeaderMalformed(c) ==
  /\ HeaderArrived(c)
  /\ Fail(c)

(* The rest of record_success, then the next request. *)
Recorded(c) ==
  /\ Completes(c, "counted")
  /\ \E us \in Latencies : samples' = [samples EXCEPT ![us] = @ + 1]
  /\ SendRequest(c)
  /\ UNCHANGED <<phase, got, stopFlag, successes, errors, report>>

ClientStep(c) ==
  \/ Resolved(c)
  \/ ResolveOrConnectFails(c)
  \/ Connect(c)
  \/ Connected(c)
  \/ ConnectedThrow(c)
  \/ Written(c)
  \/ SocketFails(c)
  \/ HeaderRead(c)
  \/ AnswerRead(c)
  \/ HeaderMalformed(c)
  \/ Recorded(c)

-----------------------------------------------------------------------------
(* main.                                                                   *)

TimerFires ==
  /\ phase = "running" /\ ~stopFlag
  /\ stopFlag' = TRUE
  /\ UNCHANGED <<phase, client, inFlight, metrics, report, server>>

(* Seeded fault: the report does not wait for the threads. *)
TestOverEarly == stopFlag

(* ioc.run() returns, in every thread, when no operation is left. *)
NoWorkLeft == stopFlag /\ At(Over) = Clients

(* The threads are joined and the statistics printed. *)
Report ==
  /\ phase = "running" /\ NoWorkLeft
  /\ phase' = "reported"
  /\ report' = Compute(successes, errors, samples)
  /\ UNCHANGED <<client, stopFlag, inFlight, metrics, server>>

Ended == phase # "running"
Gone  == Ended /\ UNCHANGED vars

-----------------------------------------------------------------------------
(* The server, within what it promises.  After MaxAnswers answers on a     *)
(* connection it waits for the timer: this bounds the test, not a client.  *)

Answers(c) ==
  /\ phase = "running"
  /\ Len(answers[c]) < MaxAnswers \/ stopFlag
  /\ S!Reply(c)
  /\ UNCHANGED <<phase, client, stopFlag, inFlight, metrics, report>>

HangsUp ==
  /\ phase = "running"
  /\ S!Shutdown \/ \E c \in Clients : S!Hangup(c)
  /\ UNCHANGED <<phase, client, stopFlag, inFlight, metrics, report>>

-----------------------------------------------------------------------------

(* The state in which main enters ioc.run(). *)
Init ==
  /\ phase = "running"
  /\ at = [c \in Clients |-> "resolving"]
  /\ rng = [c \in Clients |-> Seed(c)]
  /\ requested = [c \in Clients |-> 0]
  /\ got = [c \in Clients |-> 0]
  /\ stopFlag = FALSE
  /\ inFlight = NumClients
  /\ successes = 0
  /\ errors = 0
  /\ samples = [us \in Latencies |-> 0]
  /\ report = NoReport
  /\ S!Init

Next ==
  \/ \E c \in Clients : ClientStep(c) \/ Answers(c)
  \/ TimerFires
  \/ Report
  \/ HangsUp
  \/ Gone

Spec == Init /\ [][Next]_vars

(* The pool's threads run every completed handler, resolving and           *)
(* connecting end by themselves, the timer fires, and main goes on when    *)
(* the threads have left.  The server owes nothing.                        *)
Fairness ==
  /\ \A c \in Clients : WF_vars(ClientStep(c))
  /\ WF_vars(TimerFires)
  /\ WF_vars(Report)

FairSpec == Spec /\ Fairness

(* A server that lets no request wait for ever: it answers, or hangs up. *)
AnsweredSpec ==
  FairSpec /\ \A c \in Clients : WF_vars(Answers(c))

-----------------------------------------------------------------------------
(* Safety.                                                                 *)

(* Every variable stays in its type; in_flight, an unsigned, never wraps:  *)
(* no client finishes twice (client_session.cpp:178).                      *)
TypeOK ==
  /\ phase \in {"running", "reported", "crashed"}
  /\ at \in [Clients -> Places]
  /\ rng \in [Clients -> Rng]
  /\ requested \in [Clients -> Nat]
  /\ got \in [Clients -> Nat]
  /\ stopFlag \in BOOLEAN
  /\ inFlight \in 0 .. NumClients
  /\ successes \in Nat
  /\ errors \in Nat
  /\ samples \in [Latencies -> Nat]
  /\ S!TypeOK

(* The books balance at every moment, through failures at any point of the *)
(* loop: every request made is a success, the one its client is busy with, *)
(* or one that ended its client; every client that ended early is one      *)
(* error; a sample is missing only while its success is being recorded;    *)
(* and in_flight is the number of clients at work (client_session.cpp:     *)
(* 112-183, metrics_collector.cpp:13-22).                                  *)
EveryRequestCounted ==
  LET lost == {c \in At({"failed"}) : requested[c] > 0}
  IN /\ Cardinality(Each(requested))
          = successes + Cardinality(At(InRequest)) + Cardinality(lost)
     /\ errors = Cardinality(At({"failed"}))
     /\ Size(samples) = successes - Cardinality(At({"counted"}))
     /\ inFlight = NumClients - Cardinality(At(Over))

(* A client measures the latency of its own request: what it reads is the  *)
(* answer to the request it made last, of that request's response type or  *)
(* an error, and nothing else is waiting behind it (client_session.cpp:    *)
(* 129-175).                                                               *)
OwnAnswer ==
  \A c \in Clients :
    /\ at[c] \in InRequest => got[c] = requested[c] - 1
    /\ at[c] \in {"connected", "counted"} => got[c] = requested[c]
    /\ Len(answers[c]) <= requested[c]
    /\ at[c] \in {"readHeader", "readBody"} /\ got[c] < Len(answers[c]) =>
         answers[c][requested[c]].type
           \in {ResponseType(asked[c][requested[c]]), kError}

(* What main prints is the whole test: no client is still at work, and     *)
(* every request made is in it as a success with its sample or as the      *)
(* error that ended its client (main.cpp:96-110).                          *)
ReportComplete ==
  phase = "reported" =>
    LET made == Cardinality(Each(requested))
    IN /\ inFlight = 0
       /\ report.count = Size(samples)
       /\ report.errors = Cardinality(At({"failed"}))
       /\ report.count <= made
       /\ made <= report.count + report.errors

(* The latencies of the report are in their order, however few the samples *)
(* are (metrics_collector.cpp:56-63).                                      *)
LatenciesOrdered ==
  phase = "reported" /\ report.count > 0 =>
    /\ report.min <= report.p50 /\ report.p50 <= report.p90
    /\ report.p90 <= report.p99 /\ report.p99 <= report.max

(* A percentile is not too low: of all samples but one, that part at least *)
(* lies at it or below, although its index is cut to an integer            *)
(* (metrics_collector.cpp:56-63).                                          *)
PercentilesReached ==
  phase = "reported" /\ report.count > 0 =>
    LET covers(us, p) ==
          100 * UpTo(samples, us) > p * (report.count - 1)
    IN covers(report.p50, 50) /\ covers(report.p90, 90) /\ covers(report.p99, 99)

(* The mean latency lies between the smallest and the largest              *)
(* (metrics_collector.cpp:52-54).                                          *)
MeanWithin ==
  phase = "reported" /\ report.count > 0 =>
    /\ report.min * report.count <= report.sum
    /\ report.sum <= report.max * report.count

(* Where the weights are not all zero, a type of weight zero is never      *)
(* asked for, at whichever end of the table it stands                      *)
(* (client_session.cpp:63-108).                                            *)
WeightsRespected ==
  SumOfWeights > 0 =>
    \A c \in Clients : \A n \in DOMAIN asked[c] :
      \E i \in DOMAIN Kinds : Kinds[i] = asked[c][n] /\ Weight[i] > 0

(* The steps a client makes at most once the timer has fired. *)
StepsLeft == [resolving |-> 3, connecting |-> 2, connected |-> 1,
              writing |-> 4, readHeader |-> 3, readBody |-> 2, counted |-> 1,
              finished |-> 0, failed |-> 0]

(* After the timer no request is made, and every step of a client brings   *)
(* it nearer to its end, whatever fails and wherever the timer found it:   *)
(* the stop flag is looked at often enough and nothing is tried again      *)
(* (client_session.cpp:112-183, main.cpp:90-96).                           *)
TimerDrains ==
  [][stopFlag =>
       /\ requested' = requested
       /\ \A c \in Clients :
            at'[c] # at[c] => StepsLeft[at'[c]] < StepsLeft[at[c]]]_vars

-----------------------------------------------------------------------------
(* Liveness.                                                               *)

(* Under AnsweredSpec: against a server that answers every request or      *)
(* hangs up, the test comes to its report, or to the crash of              *)
(* ConnectedThrow, whatever fails on the way (main.cpp:90-109).            *)
TestEnds == <>Ended

(* Under FairSpec: "Timer to stop the test after `duration_secs`."         *)
(* (main.cpp:90).  A client that waits for an answer does not look at the  *)
(* flag and has no timeout.                                                *)
TimerEndsTest == stopFlag ~> Ended

=============================================================================
