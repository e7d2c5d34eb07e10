----------------------------- MODULE WorkerGateway -----------------------------
(***************************************************************************)
(* The worker endpoint of the control plane (routes/worker_ws.py), the     *)
(* WorkerGateway and WorkerConnectionManager behind it, the selection of a *)
(* worker by the threads that run turns, and the loop of the worker that   *)
(* opens the connections (main.py, link/client.py), with its reloads.      *)
(*                                                                         *)
(* A connection is served by one coroutine and one sender task of the      *)
(* event loop; a step of either up to its next await is one action.  An    *)
(* offer is made on another thread: it looks the sink up, and the loop     *)
(* puts the message in that sink's queue later.  A connection may die      *)
(* unnoticed while the worker already opens the next one.                  *)
(*                                                                         *)
(* The journal of the worker is ResultDelivery's subject: here a result    *)
(* that could not be sent is owed and sent after the next registration.    *)
(***************************************************************************)
EXTENDS Naturals, Sequences, FiniteSets, SequencesExt

CONSTANTS
  NumWorkers,    \* workers are numbered in the order of their identities
  Credentials,   \* what a hello may carry: TRUE when token and version are accepted
  Jobs,          \* one job per turn that offers one
  Unsupported,   \* jobs of a type no worker advertises
  Nobody,
  Grace,         \* ticks of the clock in heartbeat_interval * grace_multiplier
  MaxConnections, MaxFaults   \* bounds

Workers == 1 .. NumWorkers
Connections == 1 .. MaxConnections

(* WorkerRecord: the connection a worker registered over, what it is at, and *)
(* the ticks since it was last heard of.                                     *)
Records == [link : Connections, state : {"ready", "busy"}, job : Jobs \cup {Nobody},
            quiet : Nat]

ASSUME GatewayAssumption ==
  /\ NumWorkers \in Nat /\ Credentials \subseteq BOOLEAN
  /\ Unsupported \subseteq Jobs /\ Grace \in Nat
  /\ Nobody \notin Workers \cup Connections \cup Jobs /\ Nobody \notin Records
  /\ MaxConnections \in Nat /\ MaxFaults \in Nat

VARIABLES
  workers,   \* WorkerConnectionManager.workers: what is kept of each worker
  sinks,     \* WorkerGateway._sinks: the connection a worker is reached by
  pending,   \* WorkerGateway._pending_offers
  links,     \* the connections, as both ends see them
  client,    \* WorkerLinkClient of each worker process, and its main loop
  turn,      \* the threads that select a worker and offer it their job
  request,   \* the reload request file
  outdated,  \* workers that run other code than is on their disk
  faults     \* drops of a connection, requests to reload and edits so far

vars == <<workers, sinks, pending, links, client, turn, request, outdated, faults>>

-------------------------------------------------------------------------------
(* The messages of studio_contracts.worker_protocol. *)
Hello(w, good) == [type |-> "worker_hello", of |-> w, good |-> good]
Registered(w) == [type |-> "worker_registered", of |-> w]
Rejected(w) == [type |-> "worker_rejected", of |-> w]
Heartbeat(w) == [type |-> "heartbeat", of |-> w]
Ack(w) == [type |-> "heartbeat_ack", of |-> w]
Offer(j) == [type |-> "job_offer", of |-> j]
Accepted(j) == [type |-> "job_accepted", of |-> j]
Result(j) == [type |-> "job_result", of |-> j]

Unopened == [by |-> 0, up |-> FALSE, serving |-> "none", name |-> Nobody,
             inbound |-> <<>>, outbound |-> <<>>, wire |-> <<>>]

Fresh(c) == [link |-> c, state |-> "ready", job |-> Nobody, quiet |-> 0]

Init ==
  /\ workers = [w \in Workers |-> Nobody]
  /\ sinks = [w \in Workers |-> Nobody]
  /\ pending = [w \in Workers |-> <<>>]
  /\ links = [c \in Connections |-> Unopened]
  /\ client \in [Workers -> {[state |-> "starting", link |-> Nobody, job |-> Nobody,
                              owes |-> {}, good |-> g] : g \in Credentials}]
  /\ turn = [j \in Jobs |-> [at |-> "new", worker |-> Nobody, sink |-> Nobody]]
  /\ request = FALSE /\ outdated = {} /\ faults = 0

-------------------------------------------------------------------------------
(* WorkerConnectionManager: who is there, and who may be offered what. *)
LivenessOf(w) ==
  IF workers[w] = Nobody \/ workers[w].quiet > Grace THEN "lost"
  ELSE IF workers[w].state = "busy" THEN "busy" ELSE "healthy"

AvailableWorkers == {w \in Workers : LivenessOf(w) = "healthy"}
CanOfferTo(w, j) ==
  /\ LivenessOf(w) # "lost"
  /\ workers[w].state # "busy" /\ workers[w].job = Nobody
  /\ j \notin Unsupported

(* The toolbar's view of the same workers: connected, whatever its liveness. *)
Connected == {w \in Workers : workers[w] # Nobody /\ sinks[w] # Nobody}

(* SingleReadyWorkerSelector: the first available worker nothing blocks. *)
Choice(j) == {w \in AvailableWorkers : CanOfferTo(w, j)}

Select(j) ==
  /\ turn[j].at = "new"
  /\ turn' = IF Choice(j) = {} THEN [turn EXCEPT ![j].at = "unavailable"]
             ELSE [turn EXCEPT ![j].at = "selected",
                               ![j].worker = CHOOSE w \in Choice(j) :
                                               \A v \in Choice(j) : w <= v]
  /\ UNCHANGED <<workers, sinks, pending, links, client, request, outdated, faults>>

(* WorkerGateway.offer: under the lock, the sink or a place in the queue... *)
TakeSink(j) ==
  /\ turn[j].at = "selected"
  /\ LET w == turn[j].worker IN
     IF sinks[w] = Nobody
       THEN /\ pending' = [pending EXCEPT ![w] = Append(@, j)]
            /\ turn' = [turn EXCEPT ![j].at = "offered"]
       ELSE /\ turn' = [turn EXCEPT ![j].at = "sinking", ![j].sink = sinks[w]]
            /\ UNCHANGED pending
  /\ UNCHANGED <<workers, sinks, links, client, request, outdated, faults>>

(* ... and then the loop puts the offer in the queue of that connection. *)
Push(j) ==
  /\ turn[j].at = "sinking"
  /\ links' = [links EXCEPT ![turn[j].sink].outbound = Append(@, Offer(j))]
  /\ turn' = [turn EXCEPT ![j].at = "offered"]
  /\ UNCHANGED <<workers, sinks, pending, client, request, outdated, faults>>

-------------------------------------------------------------------------------
(* The coroutine of one connection. *)
Serving(c) == links[c].serving = "open" /\ links[c].inbound # <<>>
Message(c) == Head(links[c].inbound)

(* A reply joins the queue; a rejection ends the conversation. *)
Replied(c, replies, serving) ==
  [links[c] EXCEPT !.inbound = Tail(@), !.outbound = @ \o replies,
                   !.serving = serving]
Reply(c, message) == links' = [links EXCEPT ![c] = Replied(c, <<message>>, "open")]
Refuse(c, w) == links' = [links EXCEPT ![c] = Replied(c, <<Rejected(w)>>, "closing")]

Offers(jobs) == [i \in DOMAIN jobs |-> Offer(jobs[i])]

(* Mutant: the queue is read, not popped. *)
AttachKeeping(c, w) ==
  /\ sinks' = [sinks EXCEPT ![w] = c]
  /\ UNCHANGED pending

Greeting(w) == <<Registered(w)>> \o Offers(pending[w])

(* WorkerGateway.attach, after the registration has been answered. *)
Attach(c, w) ==
  /\ sinks' = [sinks EXCEPT ![w] = c]
  /\ pending' = [pending EXCEPT ![w] = <<>>]

ReceiveHello(c) ==
  /\ Serving(c) /\ Message(c).type = "worker_hello"
  /\ LET w == Message(c).of IN
     IF ~Message(c).good
       THEN Refuse(c, w) /\ UNCHANGED <<workers, sinks, pending>>
       ELSE /\ workers' = [workers EXCEPT ![w] = Fresh(c)]
            /\ Attach(c, w)
            /\ links' = [links EXCEPT ![c] =
                           [Replied(c, Greeting(w), "open") EXCEPT !.name = w]]
  /\ UNCHANGED <<client, turn, request, outdated, faults>>

ReceiveHeartbeat(c) ==
  /\ Serving(c) /\ Message(c).type = "heartbeat"
  /\ LET w == Message(c).of IN
     IF workers[w] = Nobody
       THEN Refuse(c, w) /\ UNCHANGED workers
       ELSE /\ workers' = [workers EXCEPT ![w].quiet = 0, ![w].state = "ready"]
            /\ Reply(c, Ack(w))
  /\ UNCHANGED <<sinks, pending, client, turn, request, outdated, faults>>

(* _handle_job_accepted and _handle_job_result: no reply. *)
Noted(w, j, type) ==
  IF type = "job_accepted" THEN [workers[w] EXCEPT !.job = j, !.state = "busy"]
  ELSE [workers[w] EXCEPT !.job = Nobody, !.state = "ready"]

ReceiveReport(c) ==
  /\ Serving(c) /\ Message(c).type \in {"job_accepted", "job_result"}
  /\ LET w == links[c].by IN
     workers' = IF workers[w] = Nobody THEN workers
                ELSE [workers EXCEPT ![w] = Noted(w, Message(c).of, Message(c).type)]
  /\ links' = [links EXCEPT ![c].inbound = Tail(@)]
  /\ UNCHANGED <<sinks, pending, client, turn, request, outdated, faults>>

(* The receive loop sees the end of the stream. *)
Disconnected(c) ==
  /\ links[c].serving = "open" /\ ~links[c].up /\ links[c].inbound = <<>>
  /\ links' = [links EXCEPT ![c].serving = "closing"]
  /\ UNCHANGED <<workers, sinks, pending, client, turn, request, outdated, faults>>

(* Mutant: the connection that ends is not compared with the current one. *)
DetachAny(c) ==
  LET w == links[c].name IN
  IF w = Nobody THEN UNCHANGED <<sinks, workers>>
  ELSE /\ sinks' = [sinks EXCEPT ![w] = Nobody]
       /\ workers' = [workers EXCEPT ![w] = Nobody]

(* WorkerGateway.detach: only the current connection takes the worker along. *)
Detach(c) ==
  LET w == links[c].name IN
  IF w = Nobody \/ sinks[w] # c THEN UNCHANGED <<sinks, workers>>
  ELSE /\ sinks' = [sinks EXCEPT ![w] = Nobody]
       /\ workers' = [workers EXCEPT ![w] = Nobody]

(* Drained, or DRAIN_TIMEOUT_SECONDS over: the sender is cancelled. *)
Close(c) ==
  /\ links[c].serving = "closing"
  /\ Detach(c)
  /\ links' = [links EXCEPT ![c].serving = "closed"]
  /\ UNCHANGED <<pending, client, turn, request, outdated, faults>>

(* Mutant: the queue is drained in reaction to what the worker says. *)
MaySendWhenSpokenTo(c) ==
  /\ links[c].serving \in {"open", "closing"} /\ links[c].up
  /\ links[c].outbound # <<>> /\ links[c].inbound # <<>>

(* The sender task waits for its queue only. *)
MaySend(c) ==
  /\ links[c].serving \in {"open", "closing"} /\ links[c].up
  /\ links[c].outbound # <<>>

Send(c) ==
  /\ MaySend(c)
  /\ links' = [links EXCEPT ![c].wire = Append(@, Head(links[c].outbound)),
                            ![c].outbound = Tail(@)]
  /\ UNCHANGED <<workers, sinks, pending, client, turn, request, outdated, faults>>

-------------------------------------------------------------------------------
(* The worker process: main, run_worker_loop and the link client. *)
At(w, state) == client[w].state = state
Go(w, state) == client' = [client EXCEPT ![w].state = state]
Link(w) == links[client[w].link]
Usable(w) == Link(w).up /\ Link(w).serving # "closed"
Heard(w) == Head(Link(w).wire)

(* A message sent over a connection that is gone raises, and is lost. *)
Sent(w, link, messages) ==
  IF Usable(w) THEN [link EXCEPT !.inbound = @ \o messages] ELSE link
Taken(link) == [link EXCEPT !.wire = Tail(@)]
Update(w, link) == links' = [links EXCEPT ![client[w].link] = link]

(* ReloadWatcher: the fingerprint is taken of the code on the disk. *)
Watch(w) == outdated' = outdated \ {w}

(* main: a request left over from a previous process is cleared. *)
Start(w) ==
  /\ At(w, "starting")
  /\ request' = FALSE /\ Watch(w)
  /\ Go(w, "disconnected")
  /\ UNCHANGED <<workers, sinks, pending, links, turn, faults>>

Free == {c \in Connections : links[c].serving = "none"}

Connect(w) ==
  /\ At(w, "disconnected") /\ Free # {}
  /\ LET c == CHOOSE x \in Free : \A y \in Free : x <= y IN
     /\ links' = [links EXCEPT ![c] = [Unopened EXCEPT !.by = w, !.up = TRUE,
                                         !.serving = "open", !.inbound = <<Hello(w, client[w].good)>>]]
     /\ client' = [client EXCEPT ![w].state = "authenticating", ![w].link = c]
  /\ UNCHANGED <<workers, sinks, pending, turn, request, outdated, faults>>

(* Anything but a registration refuses the worker, and its process ends. *)
AwaitRegistration(w) ==
  /\ At(w, "authenticating") /\ Link(w).wire # <<>>
  /\ IF Heard(w).type = "worker_registered"
       THEN LET owed == SetToSeq(client[w].owes) IN
            /\ Update(w, Sent(w, Taken(Link(w)), [i \in DOMAIN owed |-> Result(owed[i])]))
            /\ client' = [client EXCEPT ![w].state = "ready",
                            ![w].owes = IF Usable(w) THEN {} ELSE @]
       ELSE /\ Update(w, [Link(w) EXCEPT !.up = FALSE])
            /\ Go(w, "stopped")
  /\ UNCHANGED <<workers, sinks, pending, turn, request, outdated, faults>>

HandshakeDies(w) ==
  /\ At(w, "authenticating") /\ ~Usable(w) /\ Link(w).wire = <<>>
  /\ Go(w, "stopped")
  /\ UNCHANGED <<workers, sinks, pending, links, turn, request, outdated, faults>>

(* handle_next: an offer is accepted; nothing else changes the client. *)
Handle(w) ==
  /\ At(w, "ready") /\ Link(w).wire # <<>>
  /\ IF Heard(w).type = "job_offer"
       THEN LET j == Heard(w).of IN
            /\ Update(w, Sent(w, Taken(Link(w)), <<Accepted(j)>>))
            /\ client' = [client EXCEPT ![w].state = "busy", ![w].job = j]
       ELSE Update(w, Taken(Link(w))) /\ UNCHANGED client
  /\ UNCHANGED <<workers, sinks, pending, turn, request, outdated, faults>>

(* The job ran on this very thread; a result that cannot be sent is owed. *)
Finish(w) ==
  /\ At(w, "busy")
  /\ Update(w, Sent(w, Link(w), <<Result(client[w].job)>>))
  /\ client' = [client EXCEPT
       ![w].state = IF Usable(w) THEN "ready" ELSE "disconnected",
       ![w].owes = IF Usable(w) THEN @ ELSE @ \cup {client[w].job},
       ![w].job = Nobody]
  /\ UNCHANGED <<workers, sinks, pending, turn, request, outdated, faults>>

NoticeDrop(w) ==
  /\ At(w, "ready") /\ ~Usable(w) /\ Link(w).wire = <<>>
  /\ Go(w, "disconnected")
  /\ UNCHANGED <<workers, sinks, pending, links, turn, request, outdated, faults>>

(* Nothing arrived for a while: a heartbeat (one on the way at a time)... *)
OnTheWay(link) == link.inbound \o link.outbound \o link.wire
Idle(w) ==
  /\ At(w, "ready") /\ Usable(w) /\ Link(w).wire = <<>>
  /\ ToSet(OnTheWay(Link(w))) \cap {Heartbeat(w), Ack(w)} = {}
  /\ Update(w, Sent(w, Link(w), <<Heartbeat(w)>>))
  /\ Go(w, "checking")
  /\ UNCHANGED <<workers, sinks, pending, turn, request, outdated, faults>>

(* ReloadWatcher.code_changed: the fingerprint is not the one it began with. *)
CodeChanged(w) == w \in outdated

(* ... and should_restart: a request is consumed; the link is closed with     *)
(* what was on its way, and the process replaced.                            *)
CheckReload(w) ==
  /\ At(w, "checking")
  /\ request' = FALSE
  /\ IF request \/ CodeChanged(w)
       THEN /\ Update(w, [Link(w) EXCEPT !.up = FALSE, !.wire = <<>>])
            /\ Go(w, "starting")
       ELSE Go(w, "ready") /\ UNCHANGED links
  /\ UNCHANGED <<workers, sinks, pending, turn, outdated, faults>>

-------------------------------------------------------------------------------
(* The user asks for a reload; the source of the worker is edited; the       *)
(* network fails; time passes.                                               *)
AskWorker == request' = TRUE    \* unless the file cannot be written

RequestReload ==
  /\ Connected # {} /\ faults < MaxFaults
  /\ AskWorker /\ faults' = faults + 1
  /\ UNCHANGED <<workers, sinks, pending, links, client, turn, outdated>>

EditSource ==
  /\ faults < MaxFaults /\ faults' = faults + 1
  /\ outdated' = {w \in Workers : ~At(w, "starting")}
  /\ UNCHANGED <<workers, sinks, pending, links, client, turn, request>>

Drop(c) ==
  /\ links[c].up /\ faults < MaxFaults
  /\ \E kept \in {links[c].inbound, <<>>} :
       links' = [links EXCEPT ![c].up = FALSE, ![c].inbound = kept, ![c].wire = <<>>]
  /\ faults' = faults + 1
  /\ UNCHANGED <<workers, sinks, pending, client, turn, request, outdated>>

Tick ==
  /\ \E w \in Workers : workers[w] # Nobody /\ workers[w].quiet <= Grace
  /\ workers' = [w \in Workers |->
       IF workers[w] = Nobody \/ workers[w].quiet > Grace THEN workers[w]
       ELSE [workers[w] EXCEPT !.quiet = @ + 1]]
  /\ UNCHANGED <<sinks, pending, links, client, turn, request, outdated, faults>>

Receive(c) == ReceiveHello(c) \/ ReceiveHeartbeat(c) \/ ReceiveReport(c)
Serve(c) == Receive(c) \/ Disconnected(c) \/ Close(c)
Dispatch(j) == Select(j) \/ TakeSink(j) \/ Push(j)
Work(w) ==
  \/ Start(w) \/ Connect(w) \/ AwaitRegistration(w) \/ HandshakeDies(w)
  \/ Handle(w) \/ Finish(w) \/ NoticeDrop(w) \/ CheckReload(w)

Next ==
  \/ \E c \in Connections : Serve(c) \/ Send(c) \/ Drop(c)
  \/ \E w \in Workers : Work(w) \/ Idle(w)
  \/ \E j \in Jobs : Dispatch(j)
  \/ RequestReload \/ EditSource \/ Tick

Spec == Init /\ [][Next]_vars

(* The loop, its sender tasks, the threads of turns and the worker's thread  *)
(* keep running.  Nothing makes a worker speak: its heartbeats are not fair. *)
Fairness ==
  /\ \A c \in Connections : WF_vars(Serve(c)) /\ WF_vars(Send(c))
  /\ \A w \in Workers : WF_vars(Work(w))
  /\ \A j \in Jobs : WF_vars(Dispatch(j))
FairSpec == Spec /\ Fairness

-------------------------------------------------------------------------------
(* A worker that has been told it is registered, over a connection that      *)
(* still lives, can be chosen and reached by that connection, however late   *)
(* the end of its older connections is noticed ("after a reconnect the same  *)
(* worker_id has a different sink, and only the current one may be removed").*)
RegisteredIsReachable ==
  \A w \in Workers :
    /\ workers[w] = Nobody <=> sinks[w] = Nobody
    /\ client[w].state \in {"ready", "checking", "busy"} /\ Usable(w)
         /\ Link(w).serving = "open"
         => workers[w] # Nobody /\ {workers[w].link, sinks[w]} = {client[w].link}

Copies(j) ==
  Cardinality({w \in Workers : j \in ToSet(pending[w])})
  + Cardinality({c \in Connections : Offer(j) \in ToSet(OnTheWay(links[c]))})
  + Cardinality({w \in Workers : client[w].job = j \/ j \in client[w].owes})

(* An offer exists once, however connections come and go: it waits, travels, *)
(* or is worked on; and no offer waits for a worker that is connected.       *)
OffersAreKeptOnce ==
  /\ \A j \in Jobs : Copies(j) <= 1
  /\ \A w \in Workers : sinks[w] # Nobody => pending[w] = <<>>

(* The anti-deadlock invariant of gateway.py: an offer given to a live       *)
(* connection reaches the worker, or the connection ends, though the worker  *)
(* may never say another word.                                               *)
OffersReachSilentWorkers ==
  \A j \in Jobs :
    (\E c \in Connections : links[c].up /\ Offer(j) \in ToSet(links[c].outbound))
      ~> (\A c \in Connections : links[c].up => Offer(j) \notin ToSet(OnTheWay(links[c])))

===============================================================================
