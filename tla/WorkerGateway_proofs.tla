-------------------------- MODULE WorkerGateway_proofs --------------------------
(***************************************************************************)
(* Theorems about WorkerGateway, for any number of workers, connections    *)
(* and jobs and any bounds.                                                *)
(***************************************************************************)
EXTENDS WorkerGateway, FiniteSetTheorems, TLAPS

-------------------------------------------------------------------------------
Incoming ==
  [type : {"worker_hello"}, of : Workers, good : BOOLEAN]
  \cup [type : {"heartbeat"}, of : Workers]
  \cup [type : {"job_accepted", "job_result"}, of : Jobs]

Outgoing ==
  [type : {"worker_registered", "worker_rejected", "heartbeat_ack"}, of : Workers]
  \cup [type : {"job_offer"}, of : Jobs]

Links == [by : 0 .. NumWorkers, up : BOOLEAN,
          serving : {"none", "open", "closing", "closed"}, name : Workers \cup {Nobody},
          inbound : Seq(Incoming), outbound : Seq(Outgoing), wire : Seq(Outgoing)]

Clients == [state : {"starting", "disconnected", "authenticating", "ready", "checking",
                     "busy", "stopped"},
            link : Connections \cup {Nobody}, job : Jobs \cup {Nobody},
            owes : SUBSET Jobs, good : BOOLEAN]

Turns == [at : {"new", "unavailable", "selected", "sinking", "offered"},
          worker : Workers \cup {Nobody}, sink : Connections \cup {Nobody}]

TypeInv ==
  /\ workers \in [Workers -> Records \cup {Nobody}]
  /\ sinks \in [Workers -> Connections \cup {Nobody}]
  /\ pending \in [Workers -> Seq(Jobs)]
  /\ links \in [Connections -> Links]
  /\ client \in [Workers -> Clients]
  /\ \A w \in Workers : /\ IsFiniteSet(client[w].owes)
                        /\ client[w].state = "busy" => client[w].job \in Jobs
  /\ turn \in [Jobs -> Turns]
  /\ \A j \in Jobs : turn[j].at \in {"selected", "sinking"} => turn[j].worker \in Workers
  /\ \A j \in Jobs : turn[j].at = "sinking" => turn[j].sink \in Connections

(* A worker is kept exactly as long as it has a sink, and the sink is the    *)
(* connection it registered over; nothing waits for it then.                 *)
AttachInv ==
  \A w \in Workers :
    /\ workers[w] = Nobody <=> sinks[w] = Nobody
    /\ workers[w] # Nobody => workers[w].link = sinks[w]
    /\ sinks[w] # Nobody => links[sinks[w]].name = w /\ pending[w] = <<>>

(* A connection has the name of the worker that opened it, once its hello    *)
(* was accepted; only then is its worker told so or its sink made use of.    *)
NameInv ==
  /\ \A c \in Connections :
       /\ links[c].name \in {Nobody, links[c].by}
       /\ links[c].serving = "none" => links[c] = Unopened
       /\ \A n \in 1 .. Len(links[c].outbound) :
            links[c].outbound[n].type = "worker_registered" => links[c].name # Nobody
       /\ \A n \in 1 .. Len(links[c].wire) :
            links[c].wire[n].type = "worker_registered" => links[c].name # Nobody
  /\ \A j \in Jobs : turn[j].at = "sinking" => links[turn[j].sink].name # Nobody

(* A hello is the first thing said over a connection; as long as it is not   *)
(* read the worker waits for the answer on that connection, or gave up.      *)
HelloInv ==
  \A c \in Connections : \A n \in 1 .. Len(links[c].inbound) :
    links[c].inbound[n].type = "worker_hello" =>
      /\ n = 1 /\ links[c].name = Nobody
      /\ links[c].by \in Workers /\ links[c].inbound[n].of = links[c].by
      /\ client[links[c].by].link = c
      /\ client[links[c].by].state \in {"authenticating", "stopped"}

Linked == {"authenticating", "ready", "checking", "busy", "stopped"}

(* The connection a worker uses is one it opened, and its current one on the *)
(* other side from the moment its hello is accepted until that side ends it. *)
ClientInv ==
  \A w \in Workers :
    /\ client[w].state \in Linked => client[w].link \in Connections /\ Link(w).by = w
    /\ client[w].state \in {"ready", "checking", "busy"} => Link(w).name = w
    /\ client[w].state \in Linked /\ Link(w).name = w /\ Link(w).serving = "open" =>
         sinks[w] = client[w].link

-------------------------------------------------------------------------------
(* Where the offer of a job may be: in a queue for a worker that is away, in *)
(* the queue of a connection, on the wire, or in a worker's hands.           *)
Places == {"pending", "outbound", "wire", "hand"}
Ends == Workers \cup Connections

Holds(j, place, i, n) ==
  \/ place = "pending" /\ i \in Workers /\ n \in 1 .. Len(pending[i]) /\ pending[i][n] = j
  \/ /\ place = "outbound" /\ i \in Connections
     /\ n \in 1 .. Len(links[i].outbound) /\ links[i].outbound[n] = Offer(j)
  \/ /\ place = "wire" /\ i \in Connections
     /\ n \in 1 .. Len(links[i].wire) /\ links[i].wire[n] = Offer(j)
  \/ place = "hand" /\ i \in Workers /\ n = 1 /\ (client[i].job = j \/ j \in client[i].owes)

(* It is in one place at most, and nowhere before it is made. *)
KeptOnce(j) ==
  /\ \A p, q \in Places, i, h \in Ends, n, m \in Nat :
       Holds(j, p, i, n) /\ Holds(j, q, h, m) => p = q /\ i = h /\ n = m
  /\ turn[j].at # "offered" => \A p \in Places, i \in Ends, n \in Nat : ~Holds(j, p, i, n)

OfferInv == \A j \in Jobs : KeptOnce(j)

IndInv == TypeInv /\ AttachInv /\ NameInv /\ HelloInv /\ ClientInv /\ OfferInv

-------------------------------------------------------------------------------
(* The least number that a selection or a new connection takes is there. *)
LEMMA LeastExists ==
  ASSUME NEW S \in SUBSET Nat, S # {}
  PROVE  /\ (CHOOSE n \in S : \A m \in S : n <= m) \in S
<1> DEFINE Less == {pair \in Nat \X Nat : pair[1] < pair[2]}
<1>1. IsWellFoundedOn(Less, Nat)
  BY NatLessThanWellFounded DEF OpToRel
<1>2. \E n \in S : \A m \in S : <<m, n>> \notin Less
  <2> HIDE DEF Less
  <2> QED  BY <1>1, WFMin
<1>3. PICK n \in S : \A m \in S : <<m, n>> \notin Less
  BY <1>2
<1>4. \A m \in S : n <= m
  <2> SUFFICES ASSUME NEW m \in S PROVE n <= m
    OBVIOUS
  <2>1. m \in Nat /\ n \in Nat /\ ~(m < n)
    BY <1>3
  <2> QED  BY <2>1
<1> QED  BY <1>4

(* The order in which owed results are sent is a sequence of them. *)
LEMMA SetToSeqElements ==
  ASSUME NEW S, IsFiniteSet(S)
  PROVE  SetToSeq(S) \in Seq(S)
<1> DEFINE C == 1 .. Cardinality(S)
<1>1. Cardinality(S) \in Nat /\ ExistsBijection(C, S)
  BY FS_CardinalityType
<1>2. \E f \in [C -> S] : IsInjective(f)
  BY <1>1 DEF ExistsBijection, Bijection, Injection
<1>3. SetToSeq(S) \in [C -> S]
  BY <1>2 DEF SetToSeq
<1> QED  BY <1>1, <1>3

LEMMA MessageTypes ==
  /\ \A w \in Workers : /\ \A good \in BOOLEAN : Hello(w, good) \in Incoming
                        /\ Heartbeat(w) \in Incoming
                        /\ Registered(w) \in Outgoing /\ Rejected(w) \in Outgoing
                        /\ Ack(w) \in Outgoing
  /\ \A j \in Jobs : Accepted(j) \in Incoming /\ Result(j) \in Incoming /\ Offer(j) \in Outgoing
BY DEF Hello, Heartbeat, Registered, Rejected, Ack, Accepted, Result, Offer, Incoming, Outgoing

LEMMA InitInv == Init => IndInv
<1> SUFFICES ASSUME Init PROVE IndInv
  OBVIOUS
<1>1. TypeInv
  <2>1. workers \in [Workers -> Records \cup {Nobody}]
    BY DEF Init
  <2>2. sinks \in [Workers -> Connections \cup {Nobody}] /\ pending \in [Workers -> Seq(Jobs)]
    BY DEF Init
  <2>3. links \in [Connections -> Links]
    <3>1. Unopened \in Links
      BY GatewayAssumption DEF Unopened, Links
    <3> QED  BY <3>1 DEF Init
  <2>4. /\ client \in [Workers -> Clients]
        /\ \A w \in Workers : client[w].owes = {} /\ client[w].state = "starting"
    BY GatewayAssumption DEF Init, Clients
  <2>5. \A w \in Workers : /\ IsFiniteSet(client[w].owes)
                           /\ client[w].state = "busy" => client[w].job \in Jobs
    BY <2>4, FS_EmptySet
  <2>6. turn \in [Jobs -> Turns] /\ \A j \in Jobs : turn[j].at = "new"
    BY DEF Init, Turns
  <2> QED  BY <2>1, <2>2, <2>3, <2>4, <2>5, <2>6 DEF TypeInv
<1>2. \A c \in Connections : links[c] = Unopened /\ Len(links[c].inbound) = 0
        /\ Len(links[c].outbound) = 0 /\ Len(links[c].wire) = 0
  BY DEF Init, Unopened
<1>3. /\ \A w \in Workers : /\ workers[w] = Nobody /\ sinks[w] = Nobody /\ Len(pending[w]) = 0
                            /\ client[w].state = "starting" /\ client[w].job = Nobody
                            /\ client[w].owes = {}
      /\ \A j \in Jobs : turn[j].at = "new"
  BY DEF Init
<1>4. AttachInv /\ HelloInv /\ ClientInv
  BY <1>2, <1>3 DEF AttachInv, HelloInv, ClientInv, Linked
<1>6. NameInv
  <2>1. Unopened.name = Nobody
    BY DEF Unopened
  <2> QED  BY <1>2, <1>3, <2>1 DEF NameInv
<1>5. OfferInv
  <2>1. ASSUME NEW j \in Jobs, NEW p \in Places, NEW i \in Ends, NEW n \in Nat
        PROVE  ~Holds(j, p, i, n)
    BY <1>2, <1>3, GatewayAssumption DEF Holds
  <2> QED  BY <2>1 DEF OfferInv, KeptOnce
<1> QED  BY <1>1, <1>4, <1>5, <1>6 DEF IndInv

-------------------------------------------------------------------------------
(* What the worker does to the connection it uses: it takes what it heard,   *)
(* or everything is lost; it says something, which is never a hello.         *)
Heeded(old, new) ==
  /\ new.by = old.by /\ new.name = old.name /\ new.serving = old.serving
  /\ new.outbound = old.outbound
  /\ \/ new.wire = old.wire
     \/ old.wire # <<>> /\ new.wire = Tail(old.wire)
     \/ new.wire = <<>>
  /\ \A n \in 1 .. Len(new.inbound) :
       \/ new.inbound[n].type # "worker_hello"
       \/ n \in 1 .. Len(old.inbound) /\ new.inbound[n] = old.inbound[n]

LEMMA SpeakTypes ==
  ASSUME NEW old \in Links, NEW messages \in Seq(Incoming), NEW taken \in BOOLEAN,
         taken => old.wire # <<>>,
         \A n \in 1 .. Len(messages) : messages[n].type # "worker_hello",
         NEW new,
         \/ new = [old EXCEPT !.wire = IF taken THEN Tail(@) ELSE @]
         \/ new = [old EXCEPT !.wire = IF taken THEN Tail(@) ELSE @,
                              !.inbound = @ \o messages]
  PROVE  new \in Links /\ Heeded(old, new)
<1>1. /\ old.inbound \in Seq(Incoming) /\ old.wire \in Seq(Outgoing)
      /\ old.by \in 0 .. NumWorkers /\ old.up \in BOOLEAN /\ old.name \in Workers \cup {Nobody}
      /\ old.serving \in {"none", "open", "closing", "closed"}
      /\ old.outbound \in Seq(Outgoing)
  BY DEF Links
<1>2. taken => Tail(old.wire) \in Seq(Outgoing)
  BY <1>1
<1>3. old.inbound \o messages \in Seq(Incoming)
  BY <1>1
<1>4. \A n \in 1 .. Len(old.inbound \o messages) :
        \/ (old.inbound \o messages)[n].type # "worker_hello"
        \/ /\ n \in 1 .. Len(old.inbound)
           /\ (old.inbound \o messages)[n] = old.inbound[n]
  <2> SUFFICES ASSUME NEW n \in 1 .. Len(old.inbound \o messages), n \notin 1 .. Len(old.inbound)
               PROVE  (old.inbound \o messages)[n].type # "worker_hello"
    BY <1>1
  <2>1. n - Len(old.inbound) \in 1 .. Len(messages)
    BY <1>1
  <2>2. (old.inbound \o messages)[n] = messages[n - Len(old.inbound)]
    BY <1>1, <2>1
  <2> QED  BY <2>1, <2>2
<1>5. new \in Links
  BY <1>1, <1>2, <1>3 DEF Links
<1>6. Heeded(old, new)
  BY <1>1, <1>2, <1>4 DEF Heeded, Links
<1> QED  BY <1>5, <1>6

LEMMA WorkerSpeaks ==
  ASSUME TypeInv, ClientInv, NEW w \in Workers,
         AwaitRegistration(w) \/ Handle(w) \/ Finish(w) \/ Idle(w) \/ CheckReload(w)
  PROVE  /\ client[w].link \in Connections /\ Link(w).by = w
         /\ \E new \in Links : /\ links' = [links EXCEPT ![client[w].link] = new]
                               /\ Heeded(Link(w), new)
<1> DEFINE old == Link(w)
<1>1. client[w].state \in Linked
  BY DEF AwaitRegistration, Handle, Finish, Idle, CheckReload, At, Linked
<1>2. client[w].link \in Connections /\ old \in Links /\ old.by = w
  BY <1>1 DEF ClientInv, TypeInv, Link
<1>3. client[w] \in Clients
  BY DEF TypeInv
<1>4. /\ old.inbound \in Seq(Incoming) /\ old.wire \in Seq(Outgoing)
      /\ old.by \in 0 .. NumWorkers /\ old.up \in BOOLEAN /\ old.name \in Workers \cup {Nobody}
      /\ old.serving \in {"none", "open", "closing", "closed"}
      /\ old.outbound \in Seq(Outgoing)
  BY <1>2 DEF Links
<1>5. ASSUME NEW messages \in Seq(Incoming), NEW link,
             \A n \in 1 .. Len(messages) : messages[n].type # "worker_hello",
             link = old \/ (old.wire # <<>> /\ link = Taken(old)),
             links' = [links EXCEPT ![client[w].link] = Sent(w, link, messages)]
      PROVE  \E new \in Links : /\ links' = [links EXCEPT ![client[w].link] = new]
                                /\ Heeded(old, new)
  <2> DEFINE new == Sent(w, link, messages)
  <2>1. \E taken \in BOOLEAN :
          /\ taken => old.wire # <<>>
          /\ \/ new = [old EXCEPT !.wire = IF taken THEN Tail(@) ELSE @]
             \/ new = [old EXCEPT !.wire = IF taken THEN Tail(@) ELSE @,
                                  !.inbound = @ \o messages]
    <3>1. CASE link = old
      <4>1. /\ old = [old EXCEPT !.wire = IF FALSE THEN Tail(@) ELSE @]
            /\ [old EXCEPT !.inbound = @ \o messages]
                 = [old EXCEPT !.wire = IF FALSE THEN Tail(@) ELSE @, !.inbound = @ \o messages]
        BY <1>2 DEF Links
      <4> QED  BY <3>1, <4>1 DEF Sent
    <3>2. CASE old.wire # <<>> /\ link = Taken(old)
      <4>1. /\ link = [old EXCEPT !.wire = IF TRUE THEN Tail(@) ELSE @]
            /\ [link EXCEPT !.inbound = @ \o messages]
                 = [old EXCEPT !.wire = IF TRUE THEN Tail(@) ELSE @, !.inbound = @ \o messages]
        BY <1>2, <3>2 DEF Links, Taken
      <4> QED  BY <3>2, <4>1 DEF Sent
    <3> QED  BY <1>5, <3>1, <3>2
  <2>2. new \in Links /\ Heeded(old, new)
    <3> HIDE DEF new, old
    <3> QED  BY <1>2, <1>5, <2>1, SpeakTypes
  <2> QED  BY <1>5, <2>2
<1>6. ASSUME NEW new, new \in {[old EXCEPT !.up = FALSE], [old EXCEPT !.up = FALSE, !.wire = <<>>], old}
      PROVE  new \in Links /\ Heeded(old, new)
  <2>1. <<>> \in Seq(Outgoing) /\ FALSE \in BOOLEAN
    OBVIOUS
  <2>2. new \in Links
    BY <1>2, <1>6, <2>1 DEF Links
  <2>3. /\ new.by = old.by /\ new.name = old.name /\ new.serving = old.serving
        /\ new.outbound = old.outbound /\ new.inbound = old.inbound
        /\ new.wire = old.wire \/ new.wire = <<>>
    BY <1>2, <1>6 DEF Links
  <2> QED  BY <2>2, <2>3 DEF Heeded
<1>7. CASE AwaitRegistration(w)
  <2>1. CASE Heard(w).type = "worker_registered"
    <3> DEFINE owed == SetToSeq(client[w].owes)
               messages == [i \in DOMAIN owed |-> Result(owed[i])]
    <3>1. owed \in Seq(Jobs)
      BY <1>3, SetToSeqElements DEF TypeInv, Clients
    <3>2. messages \in Seq(Incoming) /\ \A n \in 1 .. Len(messages) : messages[n].type # "worker_hello"
      <4> HIDE DEF owed
      <4> QED  BY <3>1, MessageTypes DEF Result
    <3>3. links' = [links EXCEPT ![client[w].link] = Sent(w, Taken(old), messages)]
      BY <1>7, <2>1 DEF AwaitRegistration, Update
    <3>4. old.wire # <<>>
      BY <1>7 DEF AwaitRegistration
    <3> HIDE DEF messages
    <3> QED  BY <1>2, <1>5, <3>2, <3>3, <3>4
  <2>2. CASE Heard(w).type # "worker_registered"
    BY <1>2, <1>6, <1>7, <2>2 DEF AwaitRegistration, Update
  <2> QED  BY <2>1, <2>2
<1>8. CASE Handle(w)
  <2>1. old.wire # <<>>
    BY <1>8 DEF Handle
  <2>2. CASE Heard(w).type = "job_offer"
    <3>1. Heard(w) \in Outgoing /\ Heard(w).of \in Jobs
      <4>1. Heard(w) \in Outgoing
        BY <1>4, <2>1 DEF Heard
      <4> QED  BY <2>2, <4>1 DEF Outgoing
    <3>2. <<Accepted(Heard(w).of)>> \in Seq(Incoming)
          /\ \A n \in 1 .. Len(<<Accepted(Heard(w).of)>>) :
               <<Accepted(Heard(w).of)>>[n].type # "worker_hello"
      BY <3>1, MessageTypes DEF Accepted
    <3>3. links' = [links EXCEPT ![client[w].link] = Sent(w, Taken(old), <<Accepted(Heard(w).of)>>)]
      BY <1>8, <2>2 DEF Handle, Update
    <3> QED  BY <1>2, <1>5, <2>1, <3>2, <3>3
  <2>3. CASE Heard(w).type # "job_offer"
    <3>1. links' = [links EXCEPT ![client[w].link] = Taken(old)]
      BY <1>8, <2>3 DEF Handle, Update
    <3>2. Taken(old) = [old EXCEPT !.wire = IF TRUE THEN Tail(@) ELSE @]
      BY DEF Taken
    <3>3. Taken(old) \in Links /\ Heeded(old, Taken(old))
      <4> HIDE DEF old
      <4>1. <<>> \in Seq(Incoming) /\ \A n \in 1 .. Len(<<>>) : <<>>[n].type # "worker_hello"
        OBVIOUS
      <4> QED  BY <1>2, <2>1, <3>2, <4>1, SpeakTypes
    <3> QED  BY <1>2, <3>1, <3>3
  <2> QED  BY <2>2, <2>3
<1>9. CASE Finish(w)
  <2>1. client[w].job \in Jobs
    BY <1>9 DEF Finish, At, TypeInv
  <2>2. <<Result(client[w].job)>> \in Seq(Incoming)
        /\ \A n \in 1 .. Len(<<Result(client[w].job)>>) :
             <<Result(client[w].job)>>[n].type # "worker_hello"
    BY <2>1, MessageTypes DEF Result
  <2>3. links' = [links EXCEPT ![client[w].link] = Sent(w, old, <<Result(client[w].job)>>)]
    BY <1>9 DEF Finish, Update
  <2> QED  BY <1>2, <1>5, <2>2, <2>3
<1>10. CASE Idle(w)
  <2>1. <<Heartbeat(w)>> \in Seq(Incoming)
        /\ \A n \in 1 .. Len(<<Heartbeat(w)>>) : <<Heartbeat(w)>>[n].type # "worker_hello"
    BY MessageTypes DEF Heartbeat
  <2>2. links' = [links EXCEPT ![client[w].link] = Sent(w, old, <<Heartbeat(w)>>)]
    BY <1>10 DEF Idle, Update
  <2> QED  BY <1>2, <1>5, <2>1, <2>2
<1>11. CASE CheckReload(w)
  <2>1. \/ links' = [links EXCEPT ![client[w].link] = [old EXCEPT !.up = FALSE, !.wire = <<>>]]
        \/ links' = [links EXCEPT ![client[w].link] = old]
    BY <1>2, <1>11 DEF CheckReload, Update, TypeInv, Link
  <2> QED  BY <1>2, <1>6, <2>1
<1> QED  BY <1>2, <1>7, <1>8, <1>9, <1>10, <1>11

(* The other end of a connection: what it reads, queues and sends. *)
LEMMA MessageRead ==
  ASSUME TypeInv, NEW c \in Connections, Serving(c)
  PROVE  /\ Message(c) \in Incoming /\ Message(c) = links[c].inbound[1]
         /\ links[c].inbound \in Seq(Incoming) /\ links[c].inbound # <<>>
<1>1. links[c].inbound \in Seq(Incoming)
  BY DEF TypeInv, Links
<1>2. links[c].inbound # <<>>
  BY DEF Serving
<1> QED  BY <1>1, <1>2 DEF Message

LEMMA ServerSpeaks ==
  ASSUME TypeInv, NEW c \in Connections, Serving(c), NEW replies \in Seq(Outgoing),
         NEW serving \in {"open", "closing"}
  PROVE  /\ Replied(c, replies, serving) \in Links
         /\ Replied(c, replies, serving) =
              [links[c] EXCEPT !.inbound = Tail(links[c].inbound),
                               !.outbound = links[c].outbound \o replies, !.serving = serving]
<1>1. links[c] \in Links
  BY DEF TypeInv
<1>2. links[c].inbound \in Seq(Incoming) /\ links[c].outbound \in Seq(Outgoing)
  BY <1>1 DEF Links
<1>3. links[c].inbound # <<>>
  BY DEF Serving
<1>5. Tail(links[c].inbound) \in Seq(Incoming) /\ links[c].outbound \o replies \in Seq(Outgoing)
  BY <1>2, <1>3
<1>6. Replied(c, replies, serving) =
        [links[c] EXCEPT !.inbound = Tail(links[c].inbound),
                         !.outbound = links[c].outbound \o replies, !.serving = serving]
  BY DEF Replied
<1>7. Replied(c, replies, serving) \in Links
  BY <1>1, <1>5, <1>6 DEF Links
<1> QED  BY <1>6, <1>7

LEMMA GreetingTypes ==
  ASSUME TypeInv, NEW w \in Workers
  PROVE  /\ Greeting(w) \in Seq(Outgoing) /\ Len(Greeting(w)) = Len(pending[w]) + 1
         /\ Greeting(w)[1] = Registered(w)
         /\ \A n \in 1 .. Len(pending[w]) : Greeting(w)[n + 1] = Offer(pending[w][n])
<1>1. pending[w] \in Seq(Jobs)
  BY DEF TypeInv
<1>2. DOMAIN pending[w] = 1 .. Len(pending[w]) /\ Len(pending[w]) \in Nat
  BY <1>1
<1>3. Offers(pending[w]) \in Seq(Outgoing) /\ Len(Offers(pending[w])) = Len(pending[w])
      /\ \A n \in 1 .. Len(pending[w]) : Offers(pending[w])[n] = Offer(pending[w][n])
  BY <1>1, <1>2, MessageTypes DEF Offers
<1>4. Registered(w) \in Outgoing
  BY MessageTypes
<1> QED  BY <1>2, <1>3, <1>4 DEF Greeting

(* The steps that leave all connections alone. *)
LEMMA LinkCases ==
  ASSUME [Next]_vars
  PROVE  \/ UNCHANGED links
         \/ \E c \in Connections : \/ ReceiveHello(c) \/ ReceiveHeartbeat(c) \/ ReceiveReport(c)
                                   \/ Disconnected(c) \/ Close(c) \/ Send(c) \/ Drop(c)
         \/ \E w \in Workers : \/ Connect(w) \/ AwaitRegistration(w) \/ Handle(w)
                               \/ Finish(w) \/ Idle(w) \/ CheckReload(w)
         \/ \E j \in Jobs : Push(j)
<1>1. CASE UNCHANGED vars
  BY <1>1 DEF vars
<1>2. CASE \E c \in Connections : Serve(c) \/ Send(c) \/ Drop(c)
  BY <1>2 DEF Serve, Receive
<1>3. CASE \E w \in Workers : Work(w) \/ Idle(w)
  BY <1>3 DEF Work, Start, HandshakeDies, NoticeDrop
<1>4. CASE \E j \in Jobs : Dispatch(j)
  BY <1>4 DEF Dispatch, Select, TakeSink
<1>5. CASE RequestReload \/ EditSource \/ Tick
  BY <1>5 DEF RequestReload, EditSource, Tick
<1> QED  BY <1>1, <1>2, <1>3, <1>4, <1>5 DEF Next

(* A new connection. *)
Opens(w, c, new) ==
  /\ links[c].serving = "none" /\ client[w].state = "disconnected"
  /\ client' = [client EXCEPT ![w].state = "authenticating", ![w].link = c]
  /\ links' = [links EXCEPT ![c] = new]
  /\ new.by = w /\ new.serving = "open" /\ new.name = Nobody
  /\ Len(new.inbound) = 1 /\ new.inbound[1] = Hello(w, client[w].good)
  /\ new.outbound = <<>> /\ new.wire = <<>>

LEMMA Opened ==
  ASSUME TypeInv, NEW w \in Workers, Connect(w)
  PROVE  \E c \in Connections : \E new \in Links : Opens(w, c, new)
<1> DEFINE c == CHOOSE x \in Free : \A y \in Free : x <= y
           new == [Unopened EXCEPT !.by = w, !.up = TRUE, !.serving = "open",
                                   !.inbound = <<Hello(w, client[w].good)>>]
<1>1. c \in Free
  <2>1. Free \in SUBSET Nat /\ Free # {}
    BY GatewayAssumption DEF Connect, Free, Connections
  <2> QED  BY <2>1, LeastExists
<1>2. Hello(w, client[w].good) \in Incoming
  BY MessageTypes DEF TypeInv, Clients
<1>3. Unopened \in Links /\ Unopened.outbound = <<>> /\ Unopened.wire = <<>> /\ Unopened.name = Nobody
  BY GatewayAssumption DEF Unopened, Links
<1>4. new \in Links
  <2>1. <<Hello(w, client[w].good)>> \in Seq(Incoming) /\ w \in 0 .. NumWorkers
    BY <1>2, GatewayAssumption DEF Workers
  <2>2. TRUE \in BOOLEAN
    OBVIOUS
  <2> HIDE DEF Unopened
  <2> QED  BY <1>3, <2>1, <2>2 DEF Links
<1>5. /\ links' = [links EXCEPT ![c] = new]
      /\ client' = [client EXCEPT ![w].state = "authenticating", ![w].link = c]
  BY DEF Connect
<1>6. /\ new.by = w /\ new.serving = "open" /\ new.name = Nobody
      /\ new.inbound = <<Hello(w, client[w].good)>>
      /\ new.outbound = <<>> /\ new.wire = <<>>
  BY <1>3 DEF Links
<1>8. Len(new.inbound) = 1 /\ new.inbound[1] = Hello(w, client[w].good)
  <2> HIDE DEF new
  <2> QED  BY <1>6
<1>7. c \in Connections /\ links[c].serving = "none" /\ client[w].state = "disconnected"
  BY <1>1 DEF Free, Connect, At
<1> HIDE DEF c, new
<1> QED  BY <1>4, <1>5, <1>6, <1>7, <1>8 DEF Opens

LEMMA LinksStep ==
  ASSUME TypeInv, ClientInv, [Next]_vars
  PROVE  links' \in [Connections -> Links]
<1>0. links \in [Connections -> Links]
  BY DEF TypeInv
<1>1. ASSUME NEW c \in Connections, ReceiveHello(c)
      PROVE  links' \in [Connections -> Links]
  <2> DEFINE w == Message(c).of
  <2>0. Serving(c)
    BY <1>1 DEF ReceiveHello
  <2>1. w \in Workers
    <3>1. Message(c) \in Incoming
      BY <2>0, MessageRead
    <3> QED  BY <1>1, <3>1 DEF ReceiveHello, Incoming
  <2>2. <<Rejected(w)>> \in Seq(Outgoing) /\ Greeting(w) \in Seq(Outgoing)
    BY <2>1, MessageTypes, GreetingTypes
  <2>3. Replied(c, <<Rejected(w)>>, "closing") \in Links /\ Replied(c, Greeting(w), "open") \in Links
    BY <2>0, <2>2, ServerSpeaks
  <2>4. [Replied(c, Greeting(w), "open") EXCEPT !.name = w] \in Links
    BY <2>1, <2>3 DEF Links
  <2> HIDE DEF w
  <2>5. \/ links' = [links EXCEPT ![c] = Replied(c, <<Rejected(w)>>, "closing")]
        \/ links' = [links EXCEPT ![c] = [Replied(c, Greeting(w), "open") EXCEPT !.name = w]]
    BY <1>1 DEF ReceiveHello, Refuse, w
  <2> QED  BY <1>0, <2>3, <2>4, <2>5
<1>2. ASSUME NEW c \in Connections, ReceiveHeartbeat(c)
      PROVE  links' \in [Connections -> Links]
  <2> DEFINE w == Message(c).of
  <2>0. Serving(c)
    BY <1>2 DEF ReceiveHeartbeat
  <2>1. w \in Workers
    <3>1. Message(c) \in Incoming
      BY <2>0, MessageRead
    <3> QED  BY <1>2, <3>1 DEF ReceiveHeartbeat, Incoming
  <2>2. <<Rejected(w)>> \in Seq(Outgoing) /\ <<Ack(w)>> \in Seq(Outgoing)
    BY <2>1, MessageTypes
  <2>3. Replied(c, <<Rejected(w)>>, "closing") \in Links /\ Replied(c, <<Ack(w)>>, "open") \in Links
    BY <2>0, <2>2, ServerSpeaks
  <2>4. \/ links' = [links EXCEPT ![c] = Replied(c, <<Rejected(w)>>, "closing")]
        \/ links' = [links EXCEPT ![c] = Replied(c, <<Ack(w)>>, "open")]
    BY <1>2 DEF ReceiveHeartbeat, Refuse, Reply
  <2> QED  BY <1>0, <2>3, <2>4
<1>3. ASSUME NEW c \in Connections,
             ReceiveReport(c) \/ Disconnected(c) \/ Close(c) \/ Send(c) \/ Drop(c)
      PROVE  links' \in [Connections -> Links]
  <2>1. /\ links[c].inbound \in Seq(Incoming) /\ links[c].wire \in Seq(Outgoing)
        /\ links[c].outbound \in Seq(Outgoing)
    BY <1>0 DEF Links
  <2>2. CASE ReceiveReport(c)
    <3>1. Tail(links[c].inbound) \in Seq(Incoming)
      BY <2>1, <2>2 DEF ReceiveReport, Serving
    <3> QED  BY <1>0, <2>2, <3>1 DEF ReceiveReport, Links
  <2>3. CASE Disconnected(c) \/ Close(c)
    <3>1. PICK state \in {"closing", "closed"} : links' = [links EXCEPT ![c].serving = state]
      BY <2>3 DEF Disconnected, Close
    <3>2. [links[c] EXCEPT !.serving = state] \in Links
      BY <1>0 DEF Links
    <3> QED  BY <1>0, <3>1, <3>2
  <2>4. CASE Send(c)
    <3>1. Tail(links[c].outbound) \in Seq(Outgoing) /\ Head(links[c].outbound) \in Outgoing
      BY <2>1, <2>4 DEF Send, MaySend
    <3>2. Append(links[c].wire, Head(links[c].outbound)) \in Seq(Outgoing)
      BY <2>1, <3>1
    <3> QED  BY <1>0, <2>4, <3>1, <3>2 DEF Send, Links
  <2>5. CASE Drop(c)
    <3>1. <<>> \in Seq(Incoming) /\ <<>> \in Seq(Outgoing)
      OBVIOUS
    <3>2. PICK kept \in {links[c].inbound, <<>>} :
            links' = [links EXCEPT ![c].up = FALSE, ![c].inbound = kept, ![c].wire = <<>>]
      BY <2>5 DEF Drop
    <3>3. kept \in Seq(Incoming)
      BY <2>1, <3>1
    <3>4. FALSE \in BOOLEAN
      OBVIOUS
    <3>5. [links[c] EXCEPT !.up = FALSE, !.inbound = kept, !.wire = <<>>] \in Links
      BY <1>0, <3>1, <3>3, <3>4 DEF Links
    <3>6. links' = [links EXCEPT ![c] = [links[c] EXCEPT !.up = FALSE, !.inbound = kept, !.wire = <<>>]]
      BY <1>0, <3>2
    <3> QED  BY <1>0, <3>5, <3>6
  <2> QED  BY <1>3, <2>2, <2>3, <2>4, <2>5
<1>4. ASSUME NEW w \in Workers, Connect(w)
      PROVE  links' \in [Connections -> Links]
  <2>1. PICK c \in Connections : \E new \in Links : Opens(w, c, new)
    BY <1>4, Opened
  <2> QED  BY <1>0, <2>1 DEF Opens
<1>5. ASSUME NEW w \in Workers,
             AwaitRegistration(w) \/ Handle(w) \/ Finish(w) \/ Idle(w) \/ CheckReload(w)
      PROVE  links' \in [Connections -> Links]
  BY <1>0, <1>5, WorkerSpeaks
<1>6. ASSUME NEW j \in Jobs, Push(j)
      PROVE  links' \in [Connections -> Links]
  <2>1. turn[j].sink \in Connections
    BY <1>6 DEF Push, TypeInv
  <2>2. Append(links[turn[j].sink].outbound, Offer(j)) \in Seq(Outgoing)
    BY <1>0, <2>1, MessageTypes DEF Links
  <2> QED  BY <1>0, <1>6, <2>1, <2>2 DEF Push, Links
<1> QED  BY <1>0, <1>1, <1>2, <1>3, <1>4, <1>5, <1>6, LinkCases

LEMMA WorkersStep ==
  ASSUME TypeInv, [Next]_vars
  PROVE  workers' \in [Workers -> Records \cup {Nobody}]
<1>0. workers \in [Workers -> Records \cup {Nobody}]
  BY DEF TypeInv
<1>1. ASSUME NEW c \in Connections, ReceiveHello(c)
      PROVE  workers' \in [Workers -> Records \cup {Nobody}]
  <2>1. Fresh(c) \in Records
    BY DEF Fresh, Records
  <2> QED  BY <1>0, <1>1, <2>1 DEF ReceiveHello
<1>2. ASSUME NEW c \in Connections, ReceiveHeartbeat(c)
      PROVE  workers' \in [Workers -> Records \cup {Nobody}]
  <2>1. CASE workers' = workers
    BY <1>0, <2>1
  <2>2. CASE workers' # workers
    <3> DEFINE w == Message(c).of
    <3>1. /\ workers[w] # Nobody
          /\ workers' = [workers EXCEPT ![w].quiet = 0, ![w].state = "ready"]
      BY <1>2, <2>2 DEF ReceiveHeartbeat
    <3>2. ASSUME w \in Workers
          PROVE  [workers[w] EXCEPT !.quiet = 0, !.state = "ready"] \in Records
      BY <1>0, <3>1, <3>2 DEF Records
    <3> QED  BY <1>0, <3>1, <3>2
  <2> QED  BY <2>1, <2>2
<1>3. ASSUME NEW c \in Connections, ReceiveReport(c)
      PROVE  workers' \in [Workers -> Records \cup {Nobody}]
  <2> DEFINE w == links[c].by
  <2>1. Message(c).of \in Jobs
    <3>1. Message(c) \in Incoming
      BY <1>3, MessageRead DEF ReceiveReport
    <3> QED  BY <1>3, <3>1 DEF ReceiveReport, Incoming
  <2>2. ASSUME w \in Workers, workers[w] # Nobody
        PROVE  Noted(w, Message(c).of, Message(c).type) \in Records
    <3> DEFINE j == Message(c).of
    <3>1. workers[w] \in Records
      BY <1>0, <2>2
    <3>2. /\ [workers[w] EXCEPT !.job = j, !.state = "busy"] \in Records
          /\ [workers[w] EXCEPT !.job = Nobody, !.state = "ready"] \in Records
      <4> HIDE DEF j
      <4>1. j \in Jobs
        BY <2>1 DEF j
      <4> QED  BY <3>1, <4>1 DEF Records
    <3> QED  BY <3>2 DEF Noted
  <2> QED  BY <1>0, <1>3, <2>2 DEF ReceiveReport
<1>4. CASE \E c \in Connections : Close(c)
  BY <1>0, <1>4 DEF Close, Detach
<1>5. CASE Tick
  <2>1. \A w \in Workers : workers[w] # Nobody =>
          [workers[w] EXCEPT !.quiet = @ + 1] \in Records
    BY <1>0 DEF Records
  <2> QED  BY <1>0, <1>5, <2>1 DEF Tick
<1>6. CASE UNCHANGED workers
  BY <1>0, <1>6
<1>7. \/ UNCHANGED workers
      \/ Tick \/ \E c \in Connections : ReceiveHello(c) \/ ReceiveHeartbeat(c) \/ ReceiveReport(c)
                                        \/ Close(c)
  BY DEF Next, Serve, Receive, Disconnected, Send, Drop, Work, Start, Connect, AwaitRegistration,
     HandshakeDies, Handle, Finish, NoticeDrop, CheckReload, Idle, Dispatch, Select, TakeSink,
     Push, RequestReload, EditSource, vars
<1> QED  BY <1>1, <1>2, <1>3, <1>4, <1>5, <1>6, <1>7

LEMMA SinksStep ==
  ASSUME TypeInv, [Next]_vars
  PROVE  /\ sinks' \in [Workers -> Connections \cup {Nobody}]
         /\ pending' \in [Workers -> Seq(Jobs)]
<1>0. sinks \in [Workers -> Connections \cup {Nobody}] /\ pending \in [Workers -> Seq(Jobs)]
  BY DEF TypeInv
<1>1. CASE \E c \in Connections : ReceiveHello(c)
  <2>1. <<>> \in Seq(Jobs)
    OBVIOUS
  <2> QED  BY <1>0, <1>1, <2>1 DEF ReceiveHello, Attach
<1>2. CASE \E c \in Connections : Close(c)
  BY <1>0, <1>2 DEF Close, Detach
<1>3. ASSUME NEW j \in Jobs, TakeSink(j)
      PROVE  sinks' = sinks /\ pending' \in [Workers -> Seq(Jobs)]
  <2> DEFINE w == turn[j].worker
  <2>1. w \in Workers => Append(pending[w], j) \in Seq(Jobs)
    BY <1>0
  <2>2. \/ pending' = pending
        \/ pending' = [pending EXCEPT ![w] = Append(pending[w], j)]
    BY <1>3 DEF TakeSink
  <2>3. sinks' = sinks
    BY <1>3 DEF TakeSink
  <2>4. w \in Workers
    BY <1>3 DEF TakeSink, TypeInv
  <2> HIDE DEF w
  <2> QED  BY <1>0, <2>1, <2>2, <2>3, <2>4
<1>4. CASE UNCHANGED <<sinks, pending>>
  BY <1>0, <1>4
<1>5. \/ UNCHANGED <<sinks, pending>> \/ \E j \in Jobs : TakeSink(j)
      \/ \E c \in Connections : ReceiveHello(c) \/ Close(c)
  BY DEF Next, Serve, Receive, ReceiveHeartbeat, ReceiveReport, Disconnected, Send, Drop, Work,
     Start, Connect, AwaitRegistration, HandshakeDies, Handle, Finish, NoticeDrop, CheckReload,
     Idle, Dispatch, Select, Push, RequestReload, EditSource, Tick, vars
<1> QED  BY <1>0, <1>1, <1>2, <1>3, <1>4, <1>5

LEMMA TurnStep ==
  ASSUME TypeInv, [Next]_vars
  PROVE  /\ turn' \in [Jobs -> Turns]
         /\ \A j \in Jobs : turn'[j].at \in {"selected", "sinking"} => turn'[j].worker \in Workers
         /\ \A j \in Jobs : turn'[j].at = "sinking" => turn'[j].sink \in Connections
<1> USE DEF TypeInv
<1>1. ASSUME NEW j \in Jobs, Select(j), Choice(j) # {}
      PROVE  \E w \in Workers :
               turn' = [turn EXCEPT ![j] = [turn[j] EXCEPT !.at = "selected", !.worker = w]]
  <2>1. Choice(j) \in SUBSET Workers /\ Choice(j) \in SUBSET Nat
    BY GatewayAssumption DEF Choice, AvailableWorkers, Workers
  <2> DEFINE w == CHOOSE x \in Choice(j) : \A v \in Choice(j) : x <= v
  <2>2. w \in Workers
    BY <1>1, <2>1, LeastExists
  <2>3. turn' = [turn EXCEPT ![j].at = "selected", ![j].worker = w]
    BY <1>1 DEF Select
  <2>4. turn' = [turn EXCEPT ![j] = [turn[j] EXCEPT !.at = "selected", !.worker = w]]
    <3> HIDE DEF w
    <3> QED  BY <2>3
  <2> HIDE DEF w
  <2> QED  BY <2>2, <2>4
<1>2. ASSUME NEW j \in Jobs, Select(j), Choice(j) = {}
      PROVE  turn' = [turn EXCEPT ![j] = [turn[j] EXCEPT !.at = "unavailable"]]
  BY <1>2 DEF Select
<1>3. ASSUME NEW j \in Jobs, TakeSink(j)
      PROVE  \/ turn' = [turn EXCEPT ![j] = [turn[j] EXCEPT !.at = "offered"]]
             \/ \E c \in Connections : /\ turn[j].at = "selected"
                  /\ turn' = [turn EXCEPT ![j] = [turn[j] EXCEPT !.at = "sinking", !.sink = c]]
  <2>1. turn[j].worker \in Workers
    BY <1>3 DEF TakeSink
  <2> QED  BY <1>3, <2>1 DEF TakeSink
<1>4. ASSUME NEW j \in Jobs, Push(j)
      PROVE  turn' = [turn EXCEPT ![j] = [turn[j] EXCEPT !.at = "offered"]]
  BY <1>4 DEF Push
<1>5. ASSUME NEW j \in Jobs, NEW new \in Turns,
             new.at \in {"selected", "sinking"} => new.worker \in Workers,
             new.at = "sinking" => new.sink \in Connections,
             turn' = [turn EXCEPT ![j] = new]
      PROVE  /\ turn' \in [Jobs -> Turns]
             /\ \A i \in Jobs : turn'[i].at \in {"selected", "sinking"} => turn'[i].worker \in Workers
             /\ \A i \in Jobs : turn'[i].at = "sinking" => turn'[i].sink \in Connections
  BY <1>5
<1>6. ASSUME NEW j \in Jobs, Select(j) \/ TakeSink(j) \/ Push(j)
      PROVE  \E new \in Turns :
               /\ new.at \in {"selected", "sinking"} => new.worker \in Workers
               /\ new.at = "sinking" => new.sink \in Connections
               /\ turn' = [turn EXCEPT ![j] = new]
  <2>1. turn[j] \in Turns
    OBVIOUS
  <2>2. \A w \in Workers : [turn[j] EXCEPT !.at = "selected", !.worker = w] \in Turns
    BY <2>1 DEF Turns
  <2>3. /\ [turn[j] EXCEPT !.at = "unavailable"] \in Turns
        /\ [turn[j] EXCEPT !.at = "offered"] \in Turns
    BY <2>1 DEF Turns
  <2>4. \A c \in Connections : [turn[j] EXCEPT !.at = "sinking", !.sink = c] \in Turns
    BY <2>1 DEF Turns
  <2>5. CASE Select(j)
    <3>1. CASE Choice(j) # {}
      <4>1. PICK w \in Workers :
               turn' = [turn EXCEPT ![j] = [turn[j] EXCEPT !.at = "selected", !.worker = w]]
        BY <1>1, <2>5, <3>1
      <4>2. [turn[j] EXCEPT !.at = "selected", !.worker = w].worker = w
            /\ [turn[j] EXCEPT !.at = "selected", !.worker = w].at = "selected"
        BY <2>1 DEF Turns
      <4> QED  BY <2>2, <4>1, <4>2
    <3>2. CASE Choice(j) = {}
      <4>1. [turn[j] EXCEPT !.at = "unavailable"].at = "unavailable"
        BY <2>1 DEF Turns
      <4> QED  BY <1>2, <2>3, <2>5, <3>2, <4>1
    <3> QED  BY <3>1, <3>2
  <2>6. CASE TakeSink(j)
    <3>1. CASE turn' = [turn EXCEPT ![j] = [turn[j] EXCEPT !.at = "offered"]]
      <4>1. [turn[j] EXCEPT !.at = "offered"].at = "offered"
        BY <2>1 DEF Turns
      <4> QED  BY <2>3, <3>1, <4>1
    <3>2. ASSUME NEW c \in Connections, turn[j].at = "selected",
                 turn' = [turn EXCEPT ![j] = [turn[j] EXCEPT !.at = "sinking", !.sink = c]]
          PROVE  \E new \in Turns :
                   /\ new.at \in {"selected", "sinking"} => new.worker \in Workers
                   /\ new.at = "sinking" => new.sink \in Connections
                   /\ turn' = [turn EXCEPT ![j] = new]
      <4> DEFINE new == [turn[j] EXCEPT !.at = "sinking", !.sink = c]
      <4>1. new.worker = turn[j].worker /\ new.sink = c
        BY <2>1 DEF Turns
      <4>2. turn[j].worker \in Workers
        BY <3>2
      <4>3. new \in Turns /\ turn' = [turn EXCEPT ![j] = new]
        BY <2>4, <3>2
      <4> HIDE DEF new
      <4> QED  BY <4>1, <4>2, <4>3
    <3> QED  BY <1>3, <2>6, <3>1, <3>2
  <2>7. CASE Push(j)
    BY <1>4, <2>1, <2>3, <2>7 DEF Turns
  <2> QED  BY <1>6, <2>5, <2>6, <2>7
<1>7. CASE UNCHANGED turn
  BY <1>7
<1>8. UNCHANGED turn \/ \E j \in Jobs : Select(j) \/ TakeSink(j) \/ Push(j)
  BY DEF Next, Serve, Receive, ReceiveHello, ReceiveHeartbeat, ReceiveReport, Disconnected,
     Close, Send, Drop, Work, Start, Connect, AwaitRegistration, HandshakeDies, Handle, Finish,
     NoticeDrop, CheckReload, Idle, Dispatch, RequestReload, EditSource, Tick, vars
<1> QED  BY <1>5, <1>6, <1>7, <1>8


(* What the worker's process makes of itself in one step. *)
Turned(w, old, new) ==
  /\ new.good = old.good /\ new.link = old.link
  /\ new.state \in Linked => old.state \in Linked
  /\ old.state \in {"authenticating", "stopped"} /\ new.state # "stopped" =>
       /\ Link(w).wire # <<>> /\ Heard(w).type = "worker_registered"
  /\ new.state \in {"ready", "checking", "busy"} =>
       \/ old.state \in {"ready", "checking", "busy"}
       \/ Link(w).wire # <<>> /\ Heard(w).type = "worker_registered"
  /\ \/ /\ new.job \in {old.job, Nobody} /\ new.owes \subseteq old.owes \cup ({old.job} \cap Jobs)
        /\ new.state # "busy"
     \/ /\ new.owes = old.owes /\ new.state = "busy"
        /\ Link(w).wire # <<>> /\ Heard(w) = Offer(new.job) /\ new.job \in Jobs

LEMMA WorkerTurns ==
  ASSUME TypeInv, ClientInv, NEW w \in Workers, Work(w) \/ Idle(w), ~Connect(w)
  PROVE  \/ UNCHANGED client
         \/ \E new \in Clients : /\ client' = [client EXCEPT ![w] = new]
                                 /\ Turned(w, client[w], new) /\ IsFiniteSet(new.owes)
<1> DEFINE old == client[w]
<1>1. old \in Clients /\ IsFiniteSet(old.owes) /\ (old.state = "busy" => old.job \in Jobs)
  BY DEF TypeInv
<1>2. ASSUME NEW state \in {"starting", "disconnected", "ready", "checking", "stopped"},
             client' = [client EXCEPT ![w].state = state],
             state = "checking" => old.state = "ready", state = "ready" => old.state = "checking",
             state = "stopped" => old.state = "authenticating",
             state \in {"starting", "disconnected"} => old.state \in {"starting", "ready", "checking"}
      PROVE  \E new \in Clients : /\ client' = [client EXCEPT ![w] = new]
                                  /\ Turned(w, old, new) /\ IsFiniteSet(new.owes)
  <2> DEFINE new == [old EXCEPT !.state = state]
  <2>1. new \in Clients
    BY <1>1 DEF Clients
  <2>2. new.good = old.good /\ new.link = old.link /\ new.job = old.job /\ new.owes = old.owes
        /\ new.state = state
    BY <1>1 DEF Clients
  <2>3. client' = [client EXCEPT ![w] = new]
    BY <1>2
  <2> HIDE DEF new, old
  <2>4. Turned(w, old, new)
    BY <1>2, <2>2 DEF Turned, Linked
  <2> QED  BY <1>1, <2>1, <2>2, <2>3, <2>4
<1>3. CASE Start(w) \/ HandshakeDies(w) \/ NoticeDrop(w) \/ Idle(w) \/ CheckReload(w)
  BY <1>2, <1>3 DEF Start, HandshakeDies, NoticeDrop, Idle, CheckReload, Go, At
<1>4. CASE AwaitRegistration(w)
  <2>1. CASE Heard(w).type = "worker_registered"
    <3>1. PICK owes \in {{}, old.owes} :
            client' = [client EXCEPT ![w].state = "ready", ![w].owes = owes]
      BY <1>4, <2>1 DEF AwaitRegistration
    <3> DEFINE new == [old EXCEPT !.state = "ready", !.owes = owes]
    <3>2. new \in Clients
      BY <1>1 DEF Clients
    <3>3. new.good = old.good /\ new.link = old.link /\ new.job = old.job /\ new.owes = owes
          /\ new.state = "ready"
      BY <1>1 DEF Clients
    <3>4. client' = [client EXCEPT ![w] = new]
      BY <3>1
    <3>5. old.state = "authenticating" /\ Link(w).wire # <<>>
      BY <1>4 DEF AwaitRegistration, At
    <3>6. IsFiniteSet(owes)
      BY <1>1, FS_EmptySet
    <3> HIDE DEF new, old
    <3>7. Turned(w, old, new)
      BY <2>1, <3>3, <3>5 DEF Turned, Linked
    <3> QED  BY <3>2, <3>3, <3>4, <3>6, <3>7 DEF old
  <2>2. CASE Heard(w).type # "worker_registered"
    BY <1>2, <1>4, <2>2 DEF AwaitRegistration, Go, At
  <2> QED  BY <2>1, <2>2
<1>5. CASE Handle(w)
  <2>1. CASE Heard(w).type = "job_offer"
    <3> DEFINE j == Heard(w).of
               new == [old EXCEPT !.state = "busy", !.job = j]
    <3>1. client' = [client EXCEPT ![w] = new]
      BY <1>5, <2>1 DEF Handle
    <3>2. old.state = "ready" /\ Link(w).wire # <<>>
      BY <1>5 DEF Handle, At
    <3>3. Heard(w) \in Outgoing
      <4>1. Link(w) \in Links
        BY <3>2 DEF ClientInv, Linked, TypeInv, Link
      <4>2. Link(w).wire \in Seq(Outgoing)
        BY <4>1 DEF Links
      <4> QED  BY <3>2, <4>2 DEF Heard
    <3>4. j \in Jobs /\ Heard(w) = Offer(j)
      BY <2>1, <3>3 DEF Outgoing, Offer
    <3> HIDE DEF j
    <3>5. new \in Clients
      BY <1>1, <3>4 DEF Clients
    <3>6. new.good = old.good /\ new.link = old.link /\ new.job = j /\ new.owes = old.owes
          /\ new.state = "busy"
      BY <1>1 DEF Clients
    <3> HIDE DEF new, old
    <3>7. Turned(w, old, new)
      BY <3>2, <3>4, <3>6 DEF Turned, Linked
    <3> QED  BY <1>1, <3>1, <3>5, <3>6, <3>7 DEF old
  <2>2. CASE Heard(w).type # "job_offer"
    BY <1>5, <2>2 DEF Handle
  <2> QED  BY <2>1, <2>2
<1>6. CASE Finish(w)
  <2>1. PICK owes \in {old.owes, old.owes \cup {old.job}}, state \in {"ready", "disconnected"} :
          client' = [client EXCEPT ![w].state = state, ![w].owes = owes, ![w].job = Nobody]
    BY <1>6 DEF Finish
  <2> DEFINE new == [old EXCEPT !.state = state, !.owes = owes, !.job = Nobody]
  <2>2. old.state = "busy" /\ old.job \in Jobs
    BY <1>1, <1>6 DEF Finish, At
  <2>3. new \in Clients
    BY <1>1, <2>2 DEF Clients
  <2>4. new.good = old.good /\ new.link = old.link /\ new.job = Nobody /\ new.owes = owes
        /\ new.state = state
    BY <1>1 DEF Clients
  <2>5. client' = [client EXCEPT ![w] = new]
    BY <2>1
  <2>6. IsFiniteSet(owes)
    BY <1>1, FS_AddElement
  <2> HIDE DEF new, old
  <2>7. Turned(w, old, new)
    BY <2>2, <2>4 DEF Turned, Linked
  <2> QED  BY <2>3, <2>4, <2>5, <2>6, <2>7 DEF old
<1> QED  BY <1>3, <1>4, <1>5, <1>6 DEF Work

(* The processes change only by what they do themselves. *)
LEMMA ClientCases ==
  ASSUME TypeInv, ClientInv, [Next]_vars
  PROVE  \/ UNCHANGED client
         \/ \E w \in Workers : \E c \in Connections : \E new \in Links : Opens(w, c, new)
         \/ \E w \in Workers : \E new \in Clients :
              /\ (Work(w) \/ Idle(w)) /\ client' = [client EXCEPT ![w] = new]
              /\ Turned(w, client[w], new) /\ IsFiniteSet(new.owes)
<1>1. ASSUME NEW w \in Workers, Work(w) \/ Idle(w)
      PROVE  \/ UNCHANGED client
             \/ \E c \in Connections : \E new \in Links : Opens(w, c, new)
             \/ \E new \in Clients :
                  /\ (Work(w) \/ Idle(w)) /\ client' = [client EXCEPT ![w] = new]
                  /\ Turned(w, client[w], new) /\ IsFiniteSet(new.owes)
  BY <1>1, Opened, WorkerTurns
<1>2. UNCHANGED client \/ \E w \in Workers : Work(w) \/ Idle(w)
  BY DEF Next, Serve, Receive, ReceiveHello, ReceiveHeartbeat, ReceiveReport, Disconnected,
     Close, Send, Drop, Dispatch, Select, TakeSink, Push, RequestReload, EditSource, Tick, vars
<1> QED  BY <1>1, <1>2

LEMMA ClientTypeStep ==
  ASSUME TypeInv, ClientInv, [Next]_vars
  PROVE  /\ client' \in [Workers -> Clients]
         /\ \A w \in Workers : /\ IsFiniteSet(client'[w].owes)
                               /\ client'[w].state = "busy" => client'[w].job \in Jobs
<1>0. /\ client \in [Workers -> Clients]
      /\ \A w \in Workers : /\ IsFiniteSet(client[w].owes)
                            /\ client[w].state = "busy" => client[w].job \in Jobs
  BY DEF TypeInv
<1>1. CASE UNCHANGED client
  BY <1>0, <1>1
<1>2. ASSUME NEW w \in Workers, NEW c \in Connections, NEW new \in Links, Opens(w, c, new)
      PROVE  /\ client' \in [Workers -> Clients]
             /\ \A v \in Workers : /\ IsFiniteSet(client'[v].owes)
                                   /\ client'[v].state = "busy" => client'[v].job \in Jobs
  <2> DEFINE next == [client[w] EXCEPT !.state = "authenticating", !.link = c]
  <2>1. next \in Clients /\ next.owes = client[w].owes /\ next.state = "authenticating"
    BY <1>0 DEF Clients
  <2>2. client' = [client EXCEPT ![w] = next]
    BY <1>2 DEF Opens
  <2> HIDE DEF next
  <2> QED  BY <1>0, <2>1, <2>2
<1>3. ASSUME NEW w \in Workers, NEW new \in Clients, client' = [client EXCEPT ![w] = new],
             Turned(w, client[w], new), IsFiniteSet(new.owes)
      PROVE  /\ client' \in [Workers -> Clients]
             /\ \A v \in Workers : /\ IsFiniteSet(client'[v].owes)
                                   /\ client'[v].state = "busy" => client'[v].job \in Jobs
  BY <1>0, <1>3 DEF Turned
<1> QED  BY <1>1, <1>2, <1>3, ClientCases

LEMMA TypeStep ==
  ASSUME TypeInv, ClientInv, [Next]_vars
  PROVE  TypeInv'
<1>1. links' \in [Connections -> Links]
  BY LinksStep
<1>2. workers' \in [Workers -> Records \cup {Nobody}]
  BY WorkersStep
<1> QED  BY <1>1, <1>2, SinksStep, TurnStep, ClientTypeStep DEF TypeInv


-------------------------------------------------------------------------------
(* What every step but an accepted hello and a new connection leaves of a    *)
(* connection: whose it is, and every hello and registration that was in it. *)
Kept(old, new) ==
  /\ new.by = old.by /\ new.name = old.name
  /\ new.serving \in {old.serving, "closing", "closed"}
  /\ new.serving = "none" \/ old.serving = "none" => new = old
  /\ \A n \in 1 .. Len(new.inbound) : new.inbound[n].type = "worker_hello" =>
       \E m \in 1 .. Len(old.inbound) : m \in {n, n + 1} /\ new.inbound[n] = old.inbound[m]
  /\ \A n \in 1 .. Len(new.outbound) : new.outbound[n].type = "worker_registered" =>
       \E m \in 1 .. Len(old.outbound) : new.outbound[n] = old.outbound[m]
  /\ \A n \in 1 .. Len(new.wire) : new.wire[n].type = "worker_registered" =>
       \/ \E m \in 1 .. Len(old.wire) : new.wire[n] = old.wire[m]
       \/ \E m \in 1 .. Len(old.outbound) : new.wire[n] = old.outbound[m]

(* An accepted hello. *)
Greets(c, w) ==
  /\ Serving(c) /\ Message(c).type = "worker_hello" /\ w = Message(c).of
  /\ workers' = [workers EXCEPT ![w] = Fresh(c)]
  /\ sinks' = [sinks EXCEPT ![w] = c]
  /\ pending' = [pending EXCEPT ![w] = <<>>]
  /\ links' = [links EXCEPT ![c] = [links[c] EXCEPT !.inbound = Tail(links[c].inbound),
                                      !.outbound = links[c].outbound \o Greeting(w),
                                      !.serving = "open", !.name = w]]
  /\ UNCHANGED <<client, turn>>

LEMMA HelloRead ==
  ASSUME TypeInv, NEW c \in Connections, ReceiveHello(c)
  PROVE  /\ Message(c).of \in Workers
         /\ \/ Greets(c, Message(c).of)
            \/ /\ links' = [links EXCEPT ![c] = Replied(c, <<Rejected(Message(c).of)>>, "closing")]
               /\ UNCHANGED <<workers, sinks, pending, client, turn>>
<1>1. Serving(c) /\ Message(c).type = "worker_hello"
  BY DEF ReceiveHello
<1>2. Message(c).of \in Workers
  <2>1. Message(c) \in Incoming
    BY <1>1, MessageRead
  <2> QED  BY <1>1, <2>1 DEF Incoming
<1> DEFINE w == Message(c).of
<1>3. CASE ~Message(c).good
  BY <1>2, <1>3 DEF ReceiveHello, Refuse
<1>4. CASE Message(c).good
  <2>1. /\ workers' = [workers EXCEPT ![w] = Fresh(c)]
        /\ Attach(c, w) /\ UNCHANGED <<client, turn>>
        /\ links' = [links EXCEPT ![c] = [Replied(c, Greeting(w), "open") EXCEPT !.name = w]]
    BY <1>4 DEF ReceiveHello
  <2>2. Greeting(w) \in Seq(Outgoing)
    BY <1>2, GreetingTypes
  <2>3. Replied(c, Greeting(w), "open") =
          [links[c] EXCEPT !.inbound = Tail(links[c].inbound),
                           !.outbound = links[c].outbound \o Greeting(w), !.serving = "open"]
    BY <1>1, <2>2, ServerSpeaks
  <2>4. [Replied(c, Greeting(w), "open") EXCEPT !.name = w]
          = [links[c] EXCEPT !.inbound = Tail(links[c].inbound),
                             !.outbound = links[c].outbound \o Greeting(w),
                             !.serving = "open", !.name = w]
    BY <2>3
  <2> HIDE DEF w
  <2> QED  BY <1>1, <1>2, <2>1, <2>4 DEF Greets, Attach, w
<1> QED  BY <1>3, <1>4

(* A reply that neither registers a worker nor offers anything. *)
LEMMA ReplyKept ==
  ASSUME TypeInv, NEW c \in Connections, Serving(c), NEW reply \in Outgoing,
         reply.type # "worker_registered", NEW serving \in {"open", "closing"}
  PROVE  Kept(links[c], Replied(c, <<reply>>, serving))
<1> DEFINE old == links[c]
           new == Replied(c, <<reply>>, serving)
<1>1. old.inbound \in Seq(Incoming) /\ old.outbound \in Seq(Outgoing) /\ old.inbound # <<>>
      /\ old.serving = "open"
  BY DEF TypeInv, Links, Serving
<1>2. new = [old EXCEPT !.inbound = Tail(old.inbound),
                        !.outbound = Append(old.outbound, reply), !.serving = serving]
  <2>1. <<reply>> \in Seq(Outgoing) /\ old.outbound \o <<reply>> = Append(old.outbound, reply)
    BY <1>1
  <2>2. new = [links[c] EXCEPT !.inbound = Tail(links[c].inbound),
                               !.outbound = links[c].outbound \o <<reply>>, !.serving = serving]
    BY DEF Replied
  <2> HIDE DEF new
  <2> QED  BY <2>1, <2>2
<1>3. old \in Links
  BY DEF TypeInv
<1>4. /\ new.by = old.by /\ new.name = old.name /\ new.wire = old.wire
      /\ new.inbound = Tail(old.inbound) /\ new.outbound = Append(old.outbound, reply)
      /\ new.serving = serving
  <2> HIDE DEF new
  <2> QED  BY <1>2, <1>3 DEF Links
<1> HIDE DEF old, new
<1>5. \A n \in 1 .. Len(new.inbound) :
        n + 1 \in 1 .. Len(old.inbound) /\ new.inbound[n] = old.inbound[n + 1]
  BY <1>1, <1>4
<1>6. \A n \in 1 .. Len(new.outbound) : new.outbound[n].type = "worker_registered" =>
        n \in 1 .. Len(old.outbound) /\ new.outbound[n] = old.outbound[n]
  BY <1>1, <1>4
<1> QED  BY <1>1, <1>4, <1>5, <1>6 DEF Kept, old, new

LEMMA KeptStep ==
  ASSUME TypeInv, NameInv, ClientInv, [Next]_vars,
         \A c \in Connections, w \in Workers : ~Greets(c, w),
         \A c \in Connections, w \in Workers, new \in Links : ~Opens(w, c, new)
  PROVE  \A c \in Connections : Kept(links[c], links'[c])
<1>0. links \in [Connections -> Links]
  BY DEF TypeInv
<1>1. \A old : Kept(old, old)
  BY DEF Kept
<1>2. ASSUME NEW c \in Connections, NEW new, Kept(links[c], new), links' = [links EXCEPT ![c] = new]
      PROVE  \A d \in Connections : Kept(links[d], links'[d])
  BY <1>0, <1>1, <1>2
<1>3. ASSUME NEW c \in Connections, ReceiveHello(c) \/ ReceiveHeartbeat(c)
      PROVE  \A d \in Connections : Kept(links[d], links'[d])
  <2> DEFINE w == Message(c).of
  <2>1. Serving(c)
    BY <1>3 DEF ReceiveHello, ReceiveHeartbeat
  <2>2. w \in Workers
    <3>1. Message(c) \in Incoming
      BY <2>1, MessageRead
    <3> QED  BY <1>3, <3>1 DEF ReceiveHello, ReceiveHeartbeat, Incoming
  <2>3. \/ links' = [links EXCEPT ![c] = Replied(c, <<Rejected(w)>>, "closing")]
        \/ links' = [links EXCEPT ![c] = Replied(c, <<Ack(w)>>, "open")]
    BY <1>3, <2>2, HelloRead DEF ReceiveHeartbeat, Refuse, Reply
  <2>4. /\ Rejected(w) \in Outgoing /\ Rejected(w).type # "worker_registered"
        /\ Ack(w) \in Outgoing /\ Ack(w).type # "worker_registered"
    BY <2>2, MessageTypes DEF Rejected, Ack
  <2>5. /\ Kept(links[c], Replied(c, <<Rejected(w)>>, "closing"))
        /\ Kept(links[c], Replied(c, <<Ack(w)>>, "open"))
    BY <2>1, <2>4, ReplyKept
  <2> QED  BY <1>2, <2>3, <2>5
<1>4. ASSUME NEW c \in Connections,
             ReceiveReport(c) \/ Disconnected(c) \/ Close(c) \/ Send(c) \/ Drop(c)
      PROVE  \A d \in Connections : Kept(links[d], links'[d])
  <2> DEFINE old == links[c]
  <2>1. /\ old \in Links /\ old.inbound \in Seq(Incoming) /\ old.wire \in Seq(Outgoing)
        /\ old.outbound \in Seq(Outgoing)
    BY <1>0 DEF Links
  <2>2. CASE ReceiveReport(c)
    <3>1. old.inbound # <<>> /\ old.serving = "open"
      BY <2>2 DEF ReceiveReport, Serving
    <3> DEFINE new == [old EXCEPT !.inbound = Tail(old.inbound)]
    <3>2. \A n \in 1 .. Len(Tail(old.inbound)) :
            n + 1 \in 1 .. Len(old.inbound) /\ Tail(old.inbound)[n] = old.inbound[n + 1]
      BY <2>1, <3>1
    <3>3. /\ new.by = old.by /\ new.name = old.name /\ new.wire = old.wire
          /\ new.inbound = Tail(old.inbound) /\ new.outbound = old.outbound
          /\ new.serving = old.serving
      BY <2>1 DEF Links
    <3>4. links' = [links EXCEPT ![c] = new]
      BY <2>2 DEF ReceiveReport
    <3> HIDE DEF new, old
    <3>5. Kept(old, new)
      BY <3>1, <3>2, <3>3 DEF Kept
    <3> QED  BY <1>2, <3>4, <3>5 DEF old
  <2>3. CASE Disconnected(c) \/ Close(c)
    <3>1. PICK state \in {"closing", "closed"} : links' = [links EXCEPT ![c].serving = state]
      BY <2>3 DEF Disconnected, Close
    <3>2. old.serving # "none"
      BY <2>3 DEF Disconnected, Close
    <3> DEFINE new == [old EXCEPT !.serving = state]
    <3>3. /\ new.by = old.by /\ new.name = old.name /\ new.wire = old.wire
          /\ new.inbound = old.inbound /\ new.outbound = old.outbound
          /\ new.serving = state
      BY <2>1 DEF Links
    <3>4. links' = [links EXCEPT ![c] = new]
      BY <3>1
    <3> HIDE DEF new, old
    <3>5. Kept(old, new)
      BY <3>2, <3>3 DEF Kept
    <3> QED  BY <1>2, <3>4, <3>5 DEF old
  <2>4. CASE Send(c)
    <3>1. old.serving # "none" /\ old.outbound # <<>>
      BY <2>4 DEF Send, MaySend
    <3> DEFINE wire == Append(old.wire, Head(old.outbound))
               new == [old EXCEPT !.wire = wire, !.outbound = Tail(old.outbound)]
    <3>2. /\ new.by = old.by /\ new.name = old.name /\ new.wire = wire
          /\ new.inbound = old.inbound /\ new.outbound = Tail(old.outbound)
          /\ new.serving = old.serving
      BY <2>1 DEF Links
    <3>3. \A n \in 1 .. Len(Tail(old.outbound)) :
            n + 1 \in 1 .. Len(old.outbound) /\ Tail(old.outbound)[n] = old.outbound[n + 1]
      BY <2>1, <3>1
    <3>4. /\ Len(wire) = Len(old.wire) + 1 /\ wire[Len(old.wire) + 1] = old.outbound[1]
          /\ \A n \in 1 .. Len(old.wire) : wire[n] = old.wire[n]
          /\ 1 \in 1 .. Len(old.outbound) /\ Len(old.wire) \in Nat
      BY <2>1, <3>1
    <3>5. links' = [links EXCEPT ![c] = new]
      BY <2>4 DEF Send
    <3> HIDE DEF new, old, wire
    <3>6. \A n \in 1 .. Len(wire) : \/ \E m \in 1 .. Len(old.wire) : wire[n] = old.wire[m]
                                    \/ \E m \in 1 .. Len(old.outbound) : wire[n] = old.outbound[m]
      <4> SUFFICES ASSUME NEW n \in 1 .. Len(wire), n \notin 1 .. Len(old.wire)
                   PROVE  wire[n] = old.outbound[1]
        BY <3>4
      <4>1. n = Len(old.wire) + 1
        BY <3>4
      <4> QED  BY <3>4, <4>1
    <3>7. Kept(old, new)
      BY <3>1, <3>2, <3>3, <3>6 DEF Kept
    <3> QED  BY <1>2, <3>5, <3>7 DEF old
  <2>5. CASE Drop(c)
    <3>1. PICK kept \in {links[c].inbound, <<>>} :
            links' = [links EXCEPT ![c].up = FALSE, ![c].inbound = kept, ![c].wire = <<>>]
      BY <2>5 DEF Drop
    <3>2. old.serving # "none"
      <4>1. ~Unopened.up
        BY DEF Unopened
      <4> QED  BY <2>5, <4>1 DEF Drop, NameInv
    <3> DEFINE new == [old EXCEPT !.up = FALSE, !.inbound = kept, !.wire = <<>>]
    <3>3. /\ new.by = old.by /\ new.name = old.name /\ new.wire = <<>>
          /\ new.inbound = kept /\ new.outbound = old.outbound
          /\ new.serving = old.serving
      BY <2>1 DEF Links
    <3>4. links' = [links EXCEPT ![c] = new]
      BY <3>1
    <3>5. kept = old.inbound \/ kept = <<>>
      BY <3>1
    <3> HIDE DEF new, old
    <3>6. Kept(old, new)
      BY <3>2, <3>3, <3>5 DEF Kept
    <3> QED  BY <1>2, <3>4, <3>6 DEF old
  <2> QED  BY <1>4, <2>2, <2>3, <2>4, <2>5
<1>5. ASSUME NEW w \in Workers,
             AwaitRegistration(w) \/ Handle(w) \/ Finish(w) \/ Idle(w) \/ CheckReload(w)
      PROVE  \A d \in Connections : Kept(links[d], links'[d])
  <2>1. client[w].link \in Connections /\ Link(w).by = w
    BY <1>5, WorkerSpeaks
  <2>2. PICK new \in Links : links' = [links EXCEPT ![client[w].link] = new] /\ Heeded(Link(w), new)
    BY <1>5, WorkerSpeaks
  <2> DEFINE old == Link(w)
  <2>3. old.serving # "none"
    <3>1. Unopened.by = 0 /\ w # 0
      BY GatewayAssumption DEF Unopened, Workers
    <3> QED  BY <2>1, <3>1 DEF NameInv, Link
  <2>4. old.wire \in Seq(Outgoing)
    BY <1>0, <2>1 DEF Link, Links
  <2>5. old.wire # <<>> => \A n \in 1 .. Len(Tail(old.wire)) :
            n + 1 \in 1 .. Len(old.wire) /\ Tail(old.wire)[n] = old.wire[n + 1]
    BY <2>4
  <2> HIDE DEF old
  <2>7. /\ new.by = old.by /\ new.name = old.name /\ new.serving = old.serving
        /\ new.outbound = old.outbound
        /\ \/ new.wire = old.wire
           \/ old.wire # <<>> /\ new.wire = Tail(old.wire)
           \/ new.wire = <<>>
        /\ \A n \in 1 .. Len(new.inbound) : new.inbound[n].type = "worker_hello" =>
             n \in 1 .. Len(old.inbound) /\ new.inbound[n] = old.inbound[n]
    BY <2>2 DEF Heeded, old
  <2>8. \A n \in 1 .. Len(new.wire) : \E m \in 1 .. Len(old.wire) : new.wire[n] = old.wire[m]
    <3>1. CASE new.wire = old.wire
      BY <3>1
    <3>2. CASE old.wire # <<>> /\ new.wire = Tail(old.wire)
      BY <2>5, <3>2
    <3>3. CASE new.wire = <<>>
      BY <3>3
    <3> QED  BY <2>7, <3>1, <3>2, <3>3
  <2>6. Kept(old, new)
    BY <2>3, <2>7, <2>8 DEF Kept
  <2> QED  BY <1>2, <2>1, <2>2, <2>6 DEF Link, old
<1>6. ASSUME NEW j \in Jobs, Push(j)
      PROVE  \A d \in Connections : Kept(links[d], links'[d])
  <2> DEFINE c == turn[j].sink
             old == links[c]
             new == [old EXCEPT !.outbound = Append(old.outbound, Offer(j))]
  <2>1. c \in Connections /\ links' = [links EXCEPT ![c] = new] /\ old.name # Nobody
    BY <1>6 DEF Push, TypeInv, NameInv
  <2>2. old \in Links /\ old.outbound \in Seq(Outgoing)
    BY <1>0, <2>1 DEF Links
  <2>3. old.serving # "none"
    <3>1. Unopened.name = Nobody
      BY DEF Unopened
    <3> QED  BY <2>1, <3>1 DEF NameInv
  <2>4. /\ new.by = old.by /\ new.name = old.name /\ new.wire = old.wire
        /\ new.inbound = old.inbound /\ new.outbound = Append(old.outbound, Offer(j))
        /\ new.serving = old.serving
    BY <2>2 DEF Links
  <2>5. Offer(j).type # "worker_registered"
    BY DEF Offer
  <2> HIDE DEF new, old, c
  <2>6. \A n \in 1 .. Len(new.outbound) : new.outbound[n].type = "worker_registered" =>
          n \in 1 .. Len(old.outbound) /\ new.outbound[n] = old.outbound[n]
    BY <2>2, <2>4, <2>5
  <2>7. Kept(old, new)
    BY <2>3, <2>4, <2>6 DEF Kept
  <2> QED  BY <1>2, <2>1, <2>7 DEF old
<1>7. CASE UNCHANGED links
  BY <1>1, <1>7
<1>8. \A w \in Workers : ~Connect(w)
  BY Opened
<1> QED  BY <1>3, <1>4, <1>5, <1>6, <1>7, <1>8, LinkCases


(* What every step but an accepted hello leaves of a worker's attachment. *)
Settled(w) ==
  /\ sinks'[w] = sinks[w] /\ (workers'[w] = Nobody <=> workers[w] = Nobody)
  /\ workers[w] # Nobody => workers'[w].link = workers[w].link
  /\ sinks[w] # Nobody => pending'[w] = pending[w]

Detached(w) ==
  /\ sinks[w] \in Connections /\ links[sinks[w]].serving = "closing"
  /\ sinks'[w] = Nobody /\ workers'[w] = Nobody

LEMMA AttachedStep ==
  ASSUME TypeInv, [Next]_vars, \A c \in Connections, w \in Workers : ~Greets(c, w)
  PROVE  \A w \in Workers : Settled(w) \/ Detached(w)
<1>0. /\ workers \in [Workers -> Records \cup {Nobody}] /\ pending \in [Workers -> Seq(Jobs)]
      /\ sinks \in [Workers -> Connections \cup {Nobody}] /\ Nobody \notin Records
  BY GatewayAssumption DEF TypeInv
<1>1. CASE UNCHANGED <<workers, sinks, pending>>
  BY <1>1 DEF Settled
<1>2. ASSUME NEW v \in Workers, NEW new \in Records, workers[v] # Nobody,
             new.link = workers[v].link, workers' = [workers EXCEPT ![v] = new],
             UNCHANGED <<sinks, pending>>
      PROVE  \A w \in Workers : Settled(w)
  BY <1>0, <1>2 DEF Settled
<1>3. ASSUME NEW c \in Connections, ReceiveHeartbeat(c)
      PROVE  \A w \in Workers : Settled(w) \/ Detached(w)
  <2> DEFINE v == Message(c).of
             new == [workers[v] EXCEPT !.quiet = 0, !.state = "ready"]
  <2>1. v \in Workers
    <3>1. Message(c) \in Incoming
      BY <1>3, MessageRead DEF ReceiveHeartbeat
    <3> QED  BY <1>3, <3>1 DEF ReceiveHeartbeat, Incoming
  <2>2. CASE workers[v] = Nobody
    BY <1>1, <1>3, <2>2 DEF ReceiveHeartbeat
  <2>3. CASE workers[v] # Nobody
    <3>1. workers[v] \in Records
      BY <1>0, <2>1, <2>3
    <3>2. new \in Records /\ new.link = workers[v].link
      BY <3>1 DEF Records
    <3>3. workers' = [workers EXCEPT ![v] = new] /\ UNCHANGED <<sinks, pending>>
      BY <1>3, <2>3 DEF ReceiveHeartbeat
    <3> HIDE DEF new, v
    <3> QED  BY <1>2, <2>1, <2>3, <3>2, <3>3
  <2> QED  BY <2>2, <2>3
<1>4. ASSUME NEW c \in Connections, ReceiveReport(c)
      PROVE  \A w \in Workers : Settled(w) \/ Detached(w)
  <2> DEFINE v == links[c].by
             j == Message(c).of
             new == Noted(v, j, Message(c).type)
  <2>1. j \in Jobs
    <3>1. Message(c) \in Incoming
      BY <1>4, MessageRead DEF ReceiveReport
    <3> QED  BY <1>4, <3>1 DEF ReceiveReport, Incoming
  <2>2. CASE workers[v] = Nobody \/ v \notin Workers
    BY <1>0, <1>1, <1>4, <2>2 DEF ReceiveReport
  <2>3. CASE workers[v] # Nobody /\ v \in Workers
    <3>1. workers[v] \in Records
      BY <1>0, <2>3
    <3>2. /\ [workers[v] EXCEPT !.job = j, !.state = "busy"] \in Records
          /\ [workers[v] EXCEPT !.job = Nobody, !.state = "ready"] \in Records
          /\ [workers[v] EXCEPT !.job = j, !.state = "busy"].link = workers[v].link
          /\ [workers[v] EXCEPT !.job = Nobody, !.state = "ready"].link = workers[v].link
      <4> HIDE DEF j, v
      <4> QED  BY <2>1, <3>1 DEF Records
    <3>3. new \in Records /\ new.link = workers[v].link
      <4> HIDE DEF j, v
      <4> QED  BY <3>2 DEF Noted
    <3>4. workers' = [workers EXCEPT ![v] = new] /\ UNCHANGED <<sinks, pending>>
      BY <1>4, <2>3 DEF ReceiveReport
    <3> HIDE DEF new, v
    <3> QED  BY <1>2, <2>3, <3>3, <3>4
  <2> QED  BY <2>2, <2>3
<1>5. ASSUME NEW c \in Connections, Close(c)
      PROVE  \A w \in Workers : Settled(w) \/ Detached(w)
  <2> DEFINE v == links[c].name
  <2>1. CASE v = Nobody \/ sinks[v] # c
    BY <1>1, <1>5, <2>1 DEF Close, Detach
  <2>2. CASE v # Nobody /\ sinks[v] = c
    <3>1. v \in Workers
      BY <2>2 DEF TypeInv, Links
    <3>2. /\ sinks' = [sinks EXCEPT ![v] = Nobody] /\ workers' = [workers EXCEPT ![v] = Nobody]
          /\ pending' = pending /\ links[c].serving = "closing"
      BY <1>5, <2>2 DEF Close, Detach
    <3> HIDE DEF v
    <3>3. Detached(v)
      BY <1>0, <2>2, <3>1, <3>2 DEF Detached
    <3>4. \A w \in Workers \ {v} : Settled(w)
      BY <1>0, <3>2 DEF Settled
    <3> QED  BY <3>3, <3>4
  <2> QED  BY <2>1, <2>2
<1>6. ASSUME NEW j \in Jobs, TakeSink(j)
      PROVE  \A w \in Workers : Settled(w) \/ Detached(w)
  <2>1. turn[j].worker \in Workers
    BY <1>6 DEF TakeSink, TypeInv
  <2>2. workers' = workers /\ sinks' = sinks
        /\ (pending' # pending => /\ sinks[turn[j].worker] = Nobody
                                  /\ pending' = [pending EXCEPT ![turn[j].worker] = Append(@, j)])
    BY <1>6 DEF TakeSink
  <2> QED  BY <1>0, <2>1, <2>2 DEF Settled
<1>7. CASE Tick
  <2>1. ASSUME NEW w \in Workers
        PROVE  Settled(w)
    <3>1. workers'[w] = IF workers[w] = Nobody \/ workers[w].quiet > Grace THEN workers[w]
                        ELSE [workers[w] EXCEPT !.quiet = @ + 1]
      BY <1>7 DEF Tick
    <3>2. workers[w] # Nobody => /\ [workers[w] EXCEPT !.quiet = @ + 1] \in Records
                                 /\ [workers[w] EXCEPT !.quiet = @ + 1].link = workers[w].link
      <4>1. workers[w] # Nobody => workers[w] \in Records
        BY <1>0
      <4> QED  BY <4>1 DEF Records
    <3>3. sinks' = sinks /\ pending' = pending
      BY <1>7 DEF Tick
    <3> QED  BY <1>0, <3>1, <3>2, <3>3 DEF Settled
  <2> QED  BY <2>1
<1>8. ASSUME NEW c \in Connections, ReceiveHello(c)
      PROVE  UNCHANGED <<workers, sinks, pending>>
  BY <1>8, HelloRead
<1>9. \/ UNCHANGED <<workers, sinks, pending>> \/ Tick \/ \E j \in Jobs : TakeSink(j)
      \/ \E c \in Connections : ReceiveHello(c) \/ ReceiveHeartbeat(c) \/ ReceiveReport(c) \/ Close(c)
  BY DEF Next, Serve, Receive, Disconnected, Send, Drop, Work, Start, Connect, AwaitRegistration,
     HandshakeDies, Handle, Finish, NoticeDrop, CheckReload, Idle, Dispatch, Select, Push,
     RequestReload, EditSource, vars
<1> QED  BY <1>1, <1>3, <1>4, <1>5, <1>6, <1>7, <1>8, <1>9

(* A turn holds a sink only if it found it attached. *)
LEMMA SinkingStep ==
  ASSUME TypeInv, AttachInv, [Next]_vars
  PROVE  \A j \in Jobs : turn'[j].at = "sinking" =>
           \/ turn[j].at = "sinking" /\ turn'[j].sink = turn[j].sink
           \/ turn'[j].sink \in Connections /\ links[turn'[j].sink].name # Nobody
<1>0. turn \in [Jobs -> Turns]
  BY DEF TypeInv
<1>1. ASSUME NEW j \in Jobs, TakeSink(j)
      PROVE  \A i \in Jobs : turn'[i].at = "sinking" =>
               \/ turn[i].at = "sinking" /\ turn'[i].sink = turn[i].sink
               \/ turn'[i].sink \in Connections /\ links[turn'[i].sink].name # Nobody
  <2> DEFINE w == turn[j].worker
  <2>1. w \in Workers
    BY <1>1 DEF TakeSink, TypeInv
  <2>2. CASE sinks[w] = Nobody
    <3>1. turn' = [turn EXCEPT ![j].at = "offered"]
      BY <1>1, <2>2 DEF TakeSink
    <3> QED  BY <1>0, <3>1 DEF Turns
  <2>3. CASE sinks[w] # Nobody
    <3>1. turn' = [turn EXCEPT ![j].at = "sinking", ![j].sink = sinks[w]]
      BY <1>1, <2>3 DEF TakeSink
    <3>2. sinks[w] \in Connections /\ links[sinks[w]].name # Nobody
      BY <2>1, <2>3, GatewayAssumption DEF AttachInv, TypeInv
    <3>3. turn'[j].sink = sinks[w] /\ \A i \in Jobs \ {j} : turn'[i] = turn[i]
      BY <1>0, <3>1 DEF Turns
    <3> QED  BY <3>2, <3>3
  <2> QED  BY <2>2, <2>3
<1>2. ASSUME NEW j \in Jobs, Select(j)
      PROVE  \A i \in Jobs : turn'[i].at = "sinking" => turn'[i] = turn[i]
  <2>1. \/ turn' = [turn EXCEPT ![j].at = "unavailable"]
        \/ turn' = [turn EXCEPT ![j].at = "selected",
                      ![j].worker = CHOOSE w \in Choice(j) : \A v \in Choice(j) : w <= v]
    BY <1>2 DEF Select
  <2>2. turn'[j].at # "sinking" /\ \A i \in Jobs \ {j} : turn'[i] = turn[i]
    <3>1. CASE turn' = [turn EXCEPT ![j].at = "unavailable"]
      BY <1>0, <3>1 DEF Turns
    <3>2. CASE turn' = [turn EXCEPT ![j].at = "selected",
                      ![j].worker = CHOOSE w \in Choice(j) : \A v \in Choice(j) : w <= v]
      <4> DEFINE x == CHOOSE w \in Choice(j) : \A v \in Choice(j) : w <= v
      <4>1. turn' = [turn EXCEPT ![j].at = "selected", ![j].worker = x]
        BY <3>2
      <4> HIDE DEF x
      <4> QED  BY <1>0, <4>1 DEF Turns
    <3> QED  BY <2>1, <3>1, <3>2
  <2> QED  BY <2>2
<1>3. ASSUME NEW j \in Jobs, Push(j)
      PROVE  \A i \in Jobs : turn'[i].at = "sinking" => turn'[i] = turn[i]
  BY <1>0, <1>3 DEF Push, Turns
<1>4. CASE UNCHANGED turn
  BY <1>4
<1>5. UNCHANGED turn \/ \E j \in Jobs : Select(j) \/ TakeSink(j) \/ Push(j)
  BY DEF Next, Serve, Receive, ReceiveHello, ReceiveHeartbeat, ReceiveReport, Disconnected,
     Close, Send, Drop, Work, Start, Connect, AwaitRegistration, HandshakeDies, Handle, Finish,
     NoticeDrop, CheckReload, Idle, Dispatch, RequestReload, EditSource, Tick, vars
<1> QED  BY <1>1, <1>2, <1>3, <1>4, <1>5


(* What is known of an accepted hello. *)
LEMMA GreetsFacts ==
  ASSUME TypeInv, AttachInv, HelloInv, NEW c \in Connections, NEW w \in Workers, Greets(c, w)
  PROVE  /\ links[c].by = w /\ links[c].name = Nobody /\ links[c].serving = "open"
         /\ client[w].link = c /\ client[w].state \in {"authenticating", "stopped"}
         /\ \A n \in 2 .. Len(links[c].inbound) : links[c].inbound[n].type # "worker_hello"
         /\ \A d \in Connections \ {c} : links'[d] = links[d]
         /\ links'[c].by = w /\ links'[c].name = w /\ links'[c].serving = "open"
         /\ links'[c].wire = links[c].wire /\ links'[c].inbound = Tail(links[c].inbound)
         /\ links'[c].outbound = links[c].outbound \o Greeting(w)
         /\ workers'[w] = Fresh(c) /\ sinks'[w] = c /\ pending'[w] = <<>>
         /\ \A v \in Workers \ {w} : /\ workers'[v] = workers[v] /\ sinks'[v] = sinks[v]
                                     /\ pending'[v] = pending[v]
         /\ links[c].inbound \in Seq(Incoming) /\ links[c].inbound # <<>>
<1>1. /\ links[c].inbound \in Seq(Incoming) /\ links[c].inbound # <<>>
      /\ links[c].inbound[1] = Message(c) /\ links[c].serving = "open"
      /\ Message(c).type = "worker_hello" /\ Message(c).of = w
  BY MessageRead DEF Greets, Serving
<1>2. 1 \in 1 .. Len(links[c].inbound)
  BY <1>1
<1>3. /\ links[c].name = Nobody /\ links[c].by = w /\ client[w].link = c
      /\ client[w].state \in {"authenticating", "stopped"}
      /\ \A n \in 2 .. Len(links[c].inbound) : links[c].inbound[n].type # "worker_hello"
  <2>1. \A n \in 1 .. Len(links[c].inbound) : links[c].inbound[n].type = "worker_hello" =>
          /\ n = 1 /\ links[c].name = Nobody /\ links[c].inbound[n].of = links[c].by
          /\ client[links[c].by].link = c
          /\ client[links[c].by].state \in {"authenticating", "stopped"}
    BY DEF HelloInv
  <2>2. Len(links[c].inbound) \in Nat
    BY <1>1
  <2> QED  BY <1>1, <1>2, <2>1, <2>2
<1> DEFINE new == [links[c] EXCEPT !.inbound = Tail(links[c].inbound),
                                   !.outbound = links[c].outbound \o Greeting(w),
                                   !.serving = "open", !.name = w]
<1>4. links[c] \in Links /\ links \in [Connections -> Links]
  BY DEF TypeInv
<1>5. /\ new.by = links[c].by /\ new.name = w /\ new.serving = "open"
      /\ new.wire = links[c].wire /\ new.inbound = Tail(links[c].inbound)
      /\ new.outbound = links[c].outbound \o Greeting(w)
  BY <1>4 DEF Links
<1>6. links' = [links EXCEPT ![c] = new]
  BY DEF Greets
<1>7. links'[c] = new /\ \A d \in Connections \ {c} : links'[d] = links[d]
  <2> HIDE DEF new
  <2> QED  BY <1>4, <1>6
<1>8. /\ workers'[w] = Fresh(c) /\ sinks'[w] = c /\ pending'[w] = <<>>
      /\ \A v \in Workers \ {w} : /\ workers'[v] = workers[v] /\ sinks'[v] = sinks[v]
                                  /\ pending'[v] = pending[v]
  BY DEF Greets, TypeInv
<1> HIDE DEF new
<1> QED  BY <1>1, <1>3, <1>5, <1>7, <1>8

(* What is known of a connection just opened. *)
LEMMA OpensFacts ==
  ASSUME TypeInv, NameInv, NEW w \in Workers, NEW c \in Connections, NEW new \in Links,
         Opens(w, c, new), [Next]_vars
  PROVE  /\ links[c] = Unopened /\ links'[c] = new
         /\ \A d \in Connections \ {c} : links'[d] = links[d]
         /\ client'[w] \in Clients /\ client'[w].state = "authenticating" /\ client'[w].link = c
         /\ client'[w].job = client[w].job /\ client'[w].owes = client[w].owes
         /\ client[w].state = "disconnected"
         /\ \A v \in Workers \ {w} : client'[v] = client[v]
         /\ UNCHANGED <<workers, sinks, pending, turn>>
<1>1. links[c] = Unopened
  BY DEF Opens, NameInv
<1>2. links'[c] = new /\ \A d \in Connections \ {c} : links'[d] = links[d]
  BY DEF Opens, TypeInv
<1> DEFINE next == [client[w] EXCEPT !.state = "authenticating", !.link = c]
<1>3. client[w] \in Clients /\ client \in [Workers -> Clients]
  BY DEF TypeInv
<1>4. /\ next \in Clients /\ next.state = "authenticating" /\ next.link = c
      /\ next.job = client[w].job /\ next.owes = client[w].owes
  BY <1>3 DEF Clients
<1>5. client' = [client EXCEPT ![w] = next] /\ client[w].state = "disconnected"
  BY DEF Opens
<1>6. client'[w] = next /\ \A v \in Workers \ {w} : client'[v] = client[v]
  <2> HIDE DEF next
  <2> QED  BY <1>3, <1>5
<1>7. client' # client
  <2>1. next # client[w]
    BY <1>4, <1>5
  <2> HIDE DEF next
  <2> QED  BY <1>6, <2>1
<1>8. UNCHANGED <<workers, sinks, pending, turn>>
  <2>1. \E v \in Workers : Work(v) \/ Idle(v)
    BY <1>7 DEF Next, Serve, Receive, ReceiveHello, ReceiveHeartbeat, ReceiveReport,
       Disconnected, Close, Send, Drop, Dispatch, Select, TakeSink, Push, RequestReload,
       EditSource, Tick, vars
  <2> QED  BY <2>1 DEF Work, Start, Connect, AwaitRegistration, HandshakeDies, Handle, Finish,
              NoticeDrop, CheckReload, Idle
<1> HIDE DEF next
<1> QED  BY <1>1, <1>2, <1>4, <1>5, <1>6, <1>8

(* Every other step. *)
Calm ==
  /\ \A c \in Connections : Kept(links[c], links'[c])
  /\ \A w \in Workers : Settled(w) \/ Detached(w)
  /\ \A w \in Workers : client'[w] = client[w] \/ Turned(w, client[w], client'[w])

LEMMA Shapes ==
  ASSUME TypeInv, NameInv, ClientInv, [Next]_vars
  PROVE  \/ \E c \in Connections, w \in Workers : Greets(c, w)
         \/ \E w \in Workers, c \in Connections, new \in Links : Opens(w, c, new)
         \/ Calm
<1> SUFFICES ASSUME \A c \in Connections, w \in Workers : ~Greets(c, w),
                    \A w \in Workers, c \in Connections, new \in Links : ~Opens(w, c, new)
             PROVE  Calm
  OBVIOUS
<1>1. \A c \in Connections : Kept(links[c], links'[c])
  BY KeptStep
<1>2. \A w \in Workers : Settled(w) \/ Detached(w)
  BY AttachedStep
<1>3. \A w \in Workers : client'[w] = client[w] \/ Turned(w, client[w], client'[w])
  <2>1. CASE UNCHANGED client
    BY <2>1
  <2>2. ASSUME NEW w \in Workers, NEW new \in Clients, client' = [client EXCEPT ![w] = new],
               Turned(w, client[w], new)
        PROVE  \A v \in Workers : client'[v] = client[v] \/ Turned(v, client[v], client'[v])
    <3>1. client'[w] = new /\ \A v \in Workers \ {w} : client'[v] = client[v]
      BY <2>2 DEF TypeInv
    <3> QED  BY <2>2, <3>1
  <2> QED  BY <2>1, <2>2, ClientCases
<1> QED  BY <1>1, <1>2, <1>3 DEF Calm


LEMMA AttachStep ==
  ASSUME TypeInv, AttachInv, NameInv, HelloInv, ClientInv, [Next]_vars
  PROVE  AttachInv'
<1>0. TypeInv'
  BY TypeStep
<1>1. ASSUME NEW c \in Connections, NEW w \in Workers, Greets(c, w)
      PROVE  AttachInv'
  <2>1. /\ workers'[w] # Nobody /\ workers'[w].link = c
        /\ c # Nobody /\ w # Nobody
    <3>1. Fresh(c) \in Records /\ Fresh(c).link = c
      BY DEF Fresh, Records
    <3> QED  BY <1>1, <3>1, GreetsFacts, GatewayAssumption
  <2>2. ASSUME NEW v \in Workers, v # w, sinks'[v] # Nobody
        PROVE  links'[sinks'[v]].name = v
    <3>1. sinks'[v] = sinks[v] /\ sinks[v] \in Connections /\ links[sinks[v]].name = v
      BY <1>1, <2>2, GreetsFacts DEF AttachInv, TypeInv
    <3>2. sinks[v] # c
      BY <1>1, <3>1, GreetsFacts, GatewayAssumption
    <3> QED  BY <1>1, <3>1, <3>2, GreetsFacts
  <2>3. ASSUME NEW v \in Workers
        PROVE  /\ workers'[v] = Nobody <=> sinks'[v] = Nobody
               /\ workers'[v] # Nobody => workers'[v].link = sinks'[v]
               /\ sinks'[v] # Nobody => links'[sinks'[v]].name = v /\ pending'[v] = <<>>
    <3>1. CASE v = w
      BY <1>1, <2>1, <3>1, GreetsFacts
    <3>2. CASE v # w
      BY <1>1, <2>2, <3>2, GreetsFacts DEF AttachInv
    <3> QED  BY <3>1, <3>2
  <2> QED  BY <2>3 DEF AttachInv
<1>2. ASSUME NEW w \in Workers, NEW c \in Connections, NEW new \in Links, Opens(w, c, new)
      PROVE  AttachInv'
  <2>1. Unopened.name = Nobody
    BY DEF Unopened
  <2>2. ASSUME NEW v \in Workers, sinks[v] # Nobody
        PROVE  links'[sinks[v]] = links[sinks[v]]
    <3>1. sinks[v] \in Connections /\ sinks[v] # c
      BY <1>2, <2>1, <2>2, OpensFacts, GatewayAssumption DEF AttachInv, TypeInv
    <3> QED  BY <1>2, <3>1, OpensFacts
  <2>3. UNCHANGED <<workers, sinks, pending>>
    BY <1>2, OpensFacts
  <2> QED  BY <2>2, <2>3 DEF AttachInv
<1>3. CASE Calm
  <2>1. ASSUME NEW v \in Workers
        PROVE  /\ workers'[v] = Nobody <=> sinks'[v] = Nobody
               /\ workers'[v] # Nobody => workers'[v].link = sinks'[v]
               /\ sinks'[v] # Nobody => links'[sinks'[v]].name = v /\ pending'[v] = <<>>
    <3>1. sinks[v] # Nobody => sinks[v] \in Connections
      BY DEF TypeInv
    <3>2. sinks[v] # Nobody => links'[sinks[v]].name = links[sinks[v]].name
      BY <1>3, <3>1 DEF Calm, Kept
    <3> QED  BY <1>3, <3>2 DEF Calm, Settled, Detached, AttachInv
  <2> QED  BY <2>1 DEF AttachInv
<1> QED  BY <1>1, <1>2, <1>3, Shapes

LEMMA NameStep ==
  ASSUME TypeInv, AttachInv, NameInv, HelloInv, ClientInv, [Next]_vars
  PROVE  NameInv'
<1> DEFINE Named(link) ==
             /\ link.name \in {Nobody, link.by}
             /\ link.serving = "none" => link = Unopened
             /\ \A n \in 1 .. Len(link.outbound) :
                  link.outbound[n].type = "worker_registered" => link.name # Nobody
             /\ \A n \in 1 .. Len(link.wire) :
                  link.wire[n].type = "worker_registered" => link.name # Nobody
<1>0. \A c \in Connections : Named(links[c])
  BY DEF NameInv
<1>1. ASSUME NEW c \in Connections, NEW w \in Workers, Greets(c, w)
      PROVE  NameInv'
  <2>1. w # Nobody
    BY GatewayAssumption
  <2>2. Named(links'[c])
    BY <1>1, <2>1, GreetsFacts
  <2>3. \A d \in Connections : Named(links'[d])
    BY <1>0, <1>1, <2>2, GreetsFacts
  <2>4. \A j \in Jobs : turn'[j].at = "sinking" => links'[turn'[j].sink].name # Nobody
    <3>1. turn' = turn
      BY <1>1 DEF Greets
    <3>2. \A j \in Jobs : turn[j].at = "sinking" =>
            turn[j].sink \in Connections /\ links[turn[j].sink].name # Nobody
      BY DEF NameInv, TypeInv
    <3> QED  BY <1>1, <2>1, <3>1, <3>2, GreetsFacts
  <2> QED  BY <2>3, <2>4 DEF NameInv
<1>2. ASSUME NEW w \in Workers, NEW c \in Connections, NEW new \in Links, Opens(w, c, new)
      PROVE  NameInv'
  <2>1. Unopened.name = Nobody
    BY DEF Unopened
  <2>2. Named(new)
    BY <1>2 DEF Opens
  <2>3. \A d \in Connections : Named(links'[d])
    BY <1>0, <1>2, <2>2, OpensFacts
  <2>4. \A j \in Jobs : turn'[j].at = "sinking" => links'[turn'[j].sink].name # Nobody
    <3>1. turn' = turn
      BY <1>2, OpensFacts
    <3>2. \A j \in Jobs : turn[j].at = "sinking" =>
            turn[j].sink \in Connections /\ links[turn[j].sink].name # Nobody
      BY DEF NameInv, TypeInv
    <3> QED  BY <1>2, <2>1, <3>1, <3>2, OpensFacts
  <2> QED  BY <2>3, <2>4 DEF NameInv
<1>3. CASE Calm
  <2>1. ASSUME NEW old, NEW new, Named(old), Kept(old, new)
        PROVE  Named(new)
    BY <2>1 DEF Kept
  <2>2. \A c \in Connections : Kept(links[c], links'[c])
    BY <1>3 DEF Calm
  <2>3. \A c \in Connections : Named(links'[c])
    <3> HIDE DEF Named
    <3> QED  BY <1>0, <2>1, <2>2
  <2>4. \A j \in Jobs : turn'[j].at = "sinking" => links'[turn'[j].sink].name # Nobody
    <3>1. \A j \in Jobs : turn'[j].at = "sinking" =>
            turn'[j].sink \in Connections /\ links[turn'[j].sink].name # Nobody
      BY SinkingStep DEF NameInv, TypeInv
    <3>2. \A c \in Connections : links'[c].name = links[c].name
      BY <2>2 DEF Kept
    <3> QED  BY <3>1, <3>2
  <2> QED  BY <2>3, <2>4 DEF NameInv
<1> QED  BY <1>1, <1>2, <1>3, Shapes

LEMMA HelloStep ==
  ASSUME TypeInv, AttachInv, NameInv, HelloInv, ClientInv, [Next]_vars
  PROVE  HelloInv'
<1>1. ASSUME NEW c \in Connections, NEW w \in Workers, Greets(c, w)
      PROVE  HelloInv'
  <2>1. client' = client
    BY <1>1 DEF Greets
  <2>2. \A n \in 1 .. Len(links'[c].inbound) : links'[c].inbound[n].type # "worker_hello"
    <3>1. /\ links'[c].inbound = Tail(links[c].inbound)
          /\ links[c].inbound \in Seq(Incoming) /\ links[c].inbound # <<>>
          /\ \A n \in 2 .. Len(links[c].inbound) : links[c].inbound[n].type # "worker_hello"
      BY <1>1, GreetsFacts
    <3>2. \A n \in 1 .. Len(Tail(links[c].inbound)) :
            /\ n + 1 \in 2 .. Len(links[c].inbound)
            /\ Tail(links[c].inbound)[n] = links[c].inbound[n + 1]
      BY <3>1
    <3> QED  BY <3>1, <3>2
  <2> QED  BY <1>1, <2>1, <2>2, GreetsFacts DEF HelloInv
<1>2. ASSUME NEW w \in Workers, NEW c \in Connections, NEW new \in Links, Opens(w, c, new)
      PROVE  HelloInv'
  <2>1. /\ new.by = w /\ new.name = Nobody /\ Len(new.inbound) = 1
        /\ new.inbound[1].of = w
    BY <1>2 DEF Opens, Hello
  <2>2. ASSUME NEW d \in Connections, NEW n \in 1 .. Len(links'[d].inbound),
               links'[d].inbound[n].type = "worker_hello"
        PROVE  /\ n = 1 /\ links'[d].name = Nobody
               /\ links'[d].by \in Workers /\ links'[d].inbound[n].of = links'[d].by
               /\ client'[links'[d].by].link = d
               /\ client'[links'[d].by].state \in {"authenticating", "stopped"}
    <3>1. CASE d = c
      BY <1>2, <2>1, <2>2, <3>1, OpensFacts
    <3>2. CASE d # c
      <4>1. links'[d] = links[d]
        BY <1>2, <3>2, OpensFacts
      <4>2. /\ n = 1 /\ links[d].name = Nobody
            /\ links[d].by \in Workers /\ links[d].inbound[n].of = links[d].by
            /\ client[links[d].by].link = d
            /\ client[links[d].by].state \in {"authenticating", "stopped"}
        BY <2>2, <4>1 DEF HelloInv
      <4>3. links[d].by # w
        BY <1>2, <4>2, OpensFacts
      <4> QED  BY <1>2, <4>1, <4>2, <4>3, OpensFacts
    <3> QED  BY <3>1, <3>2
  <2> QED  BY <2>2 DEF HelloInv
<1>3. CASE Calm
  <2>2. ASSUME NEW d \in Connections, NEW n \in 1 .. Len(links'[d].inbound),
               links'[d].inbound[n].type = "worker_hello"
        PROVE  /\ n = 1 /\ links'[d].name = Nobody
               /\ links'[d].by \in Workers /\ links'[d].inbound[n].of = links'[d].by
               /\ client'[links'[d].by].link = d
               /\ client'[links'[d].by].state \in {"authenticating", "stopped"}
    <3>1. PICK m \in 1 .. Len(links[d].inbound) :
            m \in {n, n + 1} /\ links'[d].inbound[n] = links[d].inbound[m]
      BY <1>3, <2>2 DEF Calm, Kept
    <3>2. /\ m = 1 /\ links[d].name = Nobody
          /\ links[d].by \in Workers /\ links[d].inbound[m].of = links[d].by
          /\ client[links[d].by].link = d
          /\ client[links[d].by].state \in {"authenticating", "stopped"}
      BY <2>2, <3>1 DEF HelloInv
    <3>3. n = 1
      BY <3>1, <3>2
    <3>4. links'[d].by = links[d].by /\ links'[d].name = links[d].name
      BY <1>3 DEF Calm, Kept
    <3> DEFINE v == links[d].by
    <3>5. client'[v].link = d /\ client'[v].state \in {"authenticating", "stopped"}
      <4>1. CASE client'[v] = client[v]
        BY <3>2, <4>1
      <4>2. CASE Turned(v, client[v], client'[v])
        <5>1. Link(v) = links[d] /\ links[d].wire \in Seq(Outgoing)
          BY <3>2 DEF Link, TypeInv, Links
        <5>2. ~(Link(v).wire # <<>> /\ Heard(v).type = "worker_registered")
          <6> SUFFICES ASSUME links[d].wire # <<>>
                       PROVE  Head(links[d].wire).type # "worker_registered"
            BY <5>1 DEF Heard
          <6>1. 1 \in 1 .. Len(links[d].wire) /\ Head(links[d].wire) = links[d].wire[1]
            BY <5>1
          <6> QED  BY <3>2, <6>1 DEF NameInv
        <5> QED  BY <3>2, <4>2, <5>2 DEF Turned
      <4> QED  BY <1>3, <3>2, <4>1, <4>2 DEF Calm
    <3> QED  BY <3>1, <3>2, <3>3, <3>4, <3>5
  <2> QED  BY <2>2 DEF HelloInv
<1> QED  BY <1>1, <1>2, <1>3, Shapes

LEMMA ClientStep ==
  ASSUME TypeInv, AttachInv, NameInv, HelloInv, ClientInv, [Next]_vars
  PROVE  ClientInv'
<1>0. \A w \in Workers : client[w].state \in Linked =>
        client[w].link \in Connections /\ Link(w) = links[client[w].link]
  BY DEF ClientInv, Link
<1> DEFINE Uses(w, client_, links_, sinks_) ==
      /\ client_.state \in Linked =>
           client_.link \in Connections /\ links_[client_.link].by = w
      /\ client_.state \in {"ready", "checking", "busy"} => links_[client_.link].name = w
      /\ client_.state \in Linked /\ links_[client_.link].name = w
           /\ links_[client_.link].serving = "open" => sinks_[w] = client_.link
<1>1. \A w \in Workers : Uses(w, client[w], links, sinks)
  BY DEF ClientInv, Link
<1>2. SUFFICES ASSUME NEW w \in Workers PROVE Uses(w, client'[w], links', sinks')
  BY DEF ClientInv, Link
<1>3. ASSUME NEW c \in Connections, NEW v \in Workers, Greets(c, v)
      PROVE  Uses(w, client'[w], links', sinks')
  <2>1. client' = client
    BY <1>3 DEF Greets
  <2>2. CASE w = v
    BY <1>3, <2>1, <2>2, GreetsFacts DEF Linked
  <2>3. CASE w # v
    <3>1. client[w].state \in Linked => client[w].link # c
      BY <1>1, <1>3, <2>3, GreetsFacts
    <3>2. sinks'[w] = sinks[w]
      BY <1>3, <2>3, GreetsFacts
    <3>3. client[w].state \in Linked => links'[client[w].link] = links[client[w].link]
      BY <1>1, <1>3, <3>1, GreetsFacts
    <3>4. client[w].state \in {"ready", "checking", "busy"} => client[w].state \in Linked
      BY DEF Linked
    <3> QED  BY <1>1, <2>1, <3>2, <3>3, <3>4
  <2> QED  BY <2>2, <2>3
<1>4. ASSUME NEW v \in Workers, NEW c \in Connections, NEW new \in Links, Opens(v, c, new)
      PROVE  Uses(w, client'[w], links', sinks')
  <2>1. sinks' = sinks /\ new.by = v /\ new.name = Nobody
    BY <1>4, OpensFacts DEF Opens
  <2>2. CASE w = v
    BY <1>4, <2>1, <2>2, OpensFacts, GatewayAssumption DEF Linked
  <2>3. CASE w # v
    <3>1. Unopened.by = 0 /\ w # 0
      BY GatewayAssumption DEF Unopened, Workers
    <3>2. client[w].state \in Linked => client[w].link # c
      BY <1>1, <1>4, <3>1, OpensFacts
    <3>3. client[w].state \in Linked => links'[client[w].link] = links[client[w].link]
      BY <1>1, <1>4, <3>2, OpensFacts
    <3>4. client[w].state \in {"ready", "checking", "busy"} => client[w].state \in Linked
      BY DEF Linked
    <3>5. client'[w] = client[w]
      BY <1>4, <2>3, OpensFacts
    <3> QED  BY <1>1, <2>1, <3>3, <3>4, <3>5
  <2> QED  BY <2>2, <2>3
<1>5. CASE Calm
  <2>1. CASE client'[w].state \notin Linked
    BY <2>1 DEF Linked
  <2>2. CASE client'[w].state \in Linked
    <3>1. client[w].state \in Linked /\ client'[w].link = client[w].link
      BY <1>5, <2>2 DEF Calm, Turned
    <3> DEFINE c == client[w].link
    <3>2. c \in Connections /\ links[c].by = w /\ Link(w) = links[c]
      BY <1>0, <1>1, <3>1
    <3>3. /\ links'[c].by = w /\ links'[c].name = links[c].name
          /\ links'[c].serving = "open" => links[c].serving = "open"
      BY <1>5, <3>2 DEF Calm, Kept
    <3>4. client'[w].state \in {"ready", "checking", "busy"} => links[c].name = w
      <4>1. CASE client[w].state \in {"ready", "checking", "busy"}
        BY <1>1, <4>1
      <4>2. CASE Link(w).wire # <<>> /\ Heard(w).type = "worker_registered"
        <5>1. links[c].wire \in Seq(Outgoing)
          BY <3>2 DEF TypeInv, Links
        <5>2. 1 \in 1 .. Len(links[c].wire) /\ Heard(w) = links[c].wire[1]
          BY <3>2, <4>2, <5>1 DEF Heard
        <5>3. links[c].name # Nobody
          BY <3>2, <4>2, <5>2 DEF NameInv
        <5> QED  BY <3>2, <5>3 DEF NameInv
      <4> QED  BY <1>5, <4>1, <4>2 DEF Calm, Turned
    <3>5. links[c].name = w /\ links[c].serving = "open" => sinks[w] = c
      BY <1>1, <3>1
    <3>6. sinks[w] = c /\ links[c].serving = "open" => sinks'[w] = c
      BY <1>5 DEF Calm, Settled, Detached
    <3> QED  BY <3>1, <3>2, <3>3, <3>4, <3>5, <3>6
  <2> QED  BY <2>1, <2>2
<1> QED  BY <1>3, <1>4, <1>5, Shapes


-------------------------------------------------------------------------------
(* Offers.  A step that makes none leaves each where it was, or moves it. *)
LEMMA OffersDiffer ==
  /\ \A i, j \in Jobs : Offer(i) = Offer(j) => i = j
  /\ \A j \in Jobs, w \in Workers : /\ Offer(j) # Registered(w) /\ Offer(j) # Rejected(w)
                                    /\ Offer(j) # Ack(w)
BY DEF Offer, Registered, Rejected, Ack

LEMMA OfferedStays ==
  ASSUME TypeInv, [Next]_vars
  PROVE  \A j \in Jobs : turn[j].at = "offered" => turn'[j].at = "offered"
<1>0. turn \in [Jobs -> Turns]
  BY DEF TypeInv
<1>1. ASSUME NEW j \in Jobs, Select(j) \/ TakeSink(j) \/ Push(j)
      PROVE  turn[j].at # "offered" /\ \A i \in Jobs \ {j} : turn'[i] = turn[i]
  <2>1. \E new : turn' = [turn EXCEPT ![j] = new]
    <3>1. CASE Select(j)
      <4> DEFINE x == CHOOSE w \in Choice(j) : \A v \in Choice(j) : w <= v
      <4>1. \/ turn' = [turn EXCEPT ![j] = [turn[j] EXCEPT !.at = "unavailable"]]
            \/ turn' = [turn EXCEPT ![j] = [turn[j] EXCEPT !.at = "selected", !.worker = x]]
        <5>1. \/ turn' = [turn EXCEPT ![j].at = "unavailable"]
              \/ turn' = [turn EXCEPT ![j].at = "selected", ![j].worker = x]
          BY <3>1 DEF Select
        <5> HIDE DEF x
        <5> QED  BY <1>0, <5>1
      <4> HIDE DEF x
      <4> QED  BY <4>1
    <3>2. CASE TakeSink(j)
      <4>1. \/ turn' = [turn EXCEPT ![j].at = "offered"]
            \/ turn' = [turn EXCEPT ![j].at = "sinking", ![j].sink = sinks[turn[j].worker]]
        BY <3>2 DEF TakeSink
      <4>2. \/ turn' = [turn EXCEPT ![j] = [turn[j] EXCEPT !.at = "offered"]]
            \/ turn' = [turn EXCEPT ![j] = [turn[j] EXCEPT !.at = "sinking",
                                                           !.sink = sinks[turn[j].worker]]]
        BY <1>0, <4>1
      <4> QED  BY <4>2
    <3>3. CASE Push(j)
      <4>1. turn' = [turn EXCEPT ![j] = [turn[j] EXCEPT !.at = "offered"]]
        BY <1>0, <3>3 DEF Push
      <4> QED  BY <4>1
    <3> QED  BY <1>1, <3>1, <3>2, <3>3
  <2>2. turn[j].at # "offered"
    BY <1>1 DEF Select, TakeSink, Push
  <2> QED  BY <1>0, <2>1, <2>2
<1>2. UNCHANGED turn \/ \E j \in Jobs : Select(j) \/ TakeSink(j) \/ Push(j)
  BY DEF Next, Serve, Receive, ReceiveHello, ReceiveHeartbeat, ReceiveReport, Disconnected,
     Close, Send, Drop, Work, Start, Connect, AwaitRegistration, HandshakeDies, Handle, Finish,
     NoticeDrop, CheckReload, Idle, Dispatch, RequestReload, EditSource, Tick, vars
<1> QED  BY <1>1, <1>2

(* No offer appears where there was none. *)
Still(j) == \A p \in Places, i \in Ends, n \in Nat : Holds(j, p, i, n)' => Holds(j, p, i, n)

LEMMA StillKept ==
  ASSUME TypeInv, [Next]_vars, NEW j \in Jobs, KeptOnce(j), Still(j)
  PROVE  KeptOnce(j)'
<1>1. turn[j].at = "offered" => turn'[j].at = "offered"
  BY OfferedStays
<1> QED  BY <1>1 DEF KeptOnce, Still

(* An accepted hello moves the offers that waited into the greeting. *)
LEMMA GreetsOffers ==
  ASSUME TypeInv, AttachInv, HelloInv, [Next]_vars, NEW c \in Connections, NEW w \in Workers,
         Greets(c, w), NEW j \in Jobs, KeptOnce(j)
  PROVE  KeptOnce(j)'
<1> DEFINE size == Len(links[c].outbound)
<1>1. /\ links[c].outbound \in Seq(Outgoing) /\ Greeting(w) \in Seq(Outgoing)
      /\ Len(Greeting(w)) = Len(pending[w]) + 1 /\ Len(pending[w]) \in Nat /\ size \in Nat
  BY GreetingTypes DEF TypeInv, Links
<1>2. ASSUME NEW n \in 1 .. Len(links'[c].outbound), links'[c].outbound[n] = Offer(j)
      PROVE  \/ n \in 1 .. size /\ links[c].outbound[n] = Offer(j)
             \/ n - size - 1 \in 1 .. Len(pending[w]) /\ pending[w][n - size - 1] = j
  <2>1. links'[c].outbound = links[c].outbound \o Greeting(w)
    BY GreetsFacts
  <2>2. CASE n \in 1 .. size
    BY <1>1, <1>2, <2>1, <2>2
  <2>3. CASE n \notin 1 .. size
    <3>1. n - size \in 1 .. Len(Greeting(w)) /\ Greeting(w)[n - size] = Offer(j)
      BY <1>1, <1>2, <2>1, <2>3
    <3>2. n - size # 1
      BY <3>1, GreetingTypes, OffersDiffer
    <3>3. n - size - 1 \in 1 .. Len(pending[w])
      BY <1>1, <3>1, <3>2
    <3>4. Greeting(w)[(n - size - 1) + 1] = Offer(pending[w][n - size - 1])
      BY <3>3, GreetingTypes
    <3>5. (n - size - 1) + 1 = n - size
      BY <1>1
    <3>6. pending[w][n - size - 1] \in Jobs
      BY <3>3 DEF TypeInv
    <3> QED  BY <3>1, <3>3, <3>4, <3>5, <3>6, OffersDiffer
  <2> QED  BY <2>2, <2>3
<1>3. ASSUME NEW p \in Places, NEW i \in Ends, NEW n \in Nat, Holds(j, p, i, n)'
      PROVE  \/ Holds(j, p, i, n) /\ ~(p = "pending" /\ i = w)
             \/ /\ p = "outbound" /\ i = c /\ n - size - 1 \in Nat
                /\ Holds(j, "pending", w, n - size - 1)
  <2>1. CASE p = "pending"
    <3>1. i # w
      BY <1>3, <2>1, GreetsFacts DEF Holds
    <3> QED  BY <1>3, <2>1, <3>1, GreetsFacts DEF Holds
  <2>2. CASE p = "outbound" /\ i # c
    BY <1>3, <2>2, GreetsFacts DEF Holds
  <2>3. CASE p = "outbound" /\ i = c
    <3>1. n \in 1 .. Len(links'[c].outbound) /\ links'[c].outbound[n] = Offer(j)
      BY <1>3, <2>3 DEF Holds
    <3>2. CASE n \in 1 .. size /\ links[c].outbound[n] = Offer(j)
      BY <2>3, <3>2 DEF Holds
    <3>3. CASE n - size - 1 \in 1 .. Len(pending[w]) /\ pending[w][n - size - 1] = j
      BY <1>1, <2>3, <3>3 DEF Holds
    <3> QED  BY <1>2, <3>1, <3>2, <3>3
  <2>4. CASE p = "wire"
    <3>1. \A d \in Connections : links'[d].wire = links[d].wire
      BY GreetsFacts
    <3> QED  BY <1>3, <2>4, <3>1 DEF Holds
  <2>5. CASE p = "hand"
    <3>1. client' = client
      BY DEF Greets
    <3> QED  BY <1>3, <2>5, <3>1 DEF Holds
  <2> QED  BY <2>1, <2>2, <2>3, <2>4, <2>5 DEF Places
<1> HIDE DEF size
<1>4. ASSUME NEW p \in Places, NEW q \in Places, NEW i \in Ends, NEW h \in Ends,
             NEW n \in Nat, NEW m \in Nat, Holds(j, p, i, n)', Holds(j, q, h, m)'
      PROVE  p = q /\ i = h /\ n = m
  <2>1. \A a, b \in Places, k, l \in Ends, x, y \in Nat :
          Holds(j, a, k, x) /\ Holds(j, b, l, y) => a = b /\ k = l /\ x = y
    BY DEF KeptOnce
  <2>2. w \in Ends /\ "pending" \in Places
    BY DEF Ends, Places
  <2>3. CASE Holds(j, p, i, n) /\ ~(p = "pending" /\ i = w)
    BY <1>3, <1>4, <2>1, <2>2, <2>3
  <2>4. CASE /\ p = "outbound" /\ i = c /\ n - size - 1 \in Nat
             /\ Holds(j, "pending", w, n - size - 1)
    <3>1. CASE Holds(j, q, h, m) /\ ~(q = "pending" /\ h = w)
      BY <2>1, <2>2, <2>4, <3>1
    <3>2. CASE /\ q = "outbound" /\ h = c /\ m - size - 1 \in Nat
               /\ Holds(j, "pending", w, m - size - 1)
      <4>1. n - size - 1 = m - size - 1
        BY <2>1, <2>2, <2>4, <3>2
      <4> QED  BY <1>1, <2>4, <3>2, <4>1 DEF size
    <3> QED  BY <1>3, <1>4, <3>1, <3>2
  <2> QED  BY <1>3, <1>4, <2>3, <2>4
<1>5. turn'[j].at # "offered" => \A p \in Places, i \in Ends, n \in Nat : ~Holds(j, p, i, n)'
  <2>1. turn'[j].at # "offered" => \A p \in Places, i \in Ends, n \in Nat : ~Holds(j, p, i, n)
    BY OfferedStays DEF KeptOnce
  <2>2. w \in Ends /\ "pending" \in Places
    BY DEF Ends, Places
  <2> QED  BY <1>3, <2>1, <2>2
<1> QED  BY <1>4, <1>5 DEF KeptOnce


(* The sender moves the first of the queue to the end of the wire. *)
LEMMA SendOffers ==
  ASSUME TypeInv, [Next]_vars, NEW c \in Connections, Send(c), NEW j \in Jobs, KeptOnce(j)
  PROVE  KeptOnce(j)'
<1> DEFINE out == links[c].outbound
           wire == links[c].wire
           size == Len(wire)
<1>1. /\ out \in Seq(Outgoing) /\ out # <<>> /\ wire \in Seq(Outgoing) /\ size \in Nat
      /\ links \in [Connections -> Links] /\ links[c] \in Links
  BY DEF TypeInv, Links, Send, MaySend
<1>2. /\ links'[c].outbound = Tail(out) /\ links'[c].wire = Append(wire, out[1])
      /\ \A d \in Connections \ {c} : links'[d] = links[d]
      /\ UNCHANGED <<pending, client>>
  <2> DEFINE new == [links[c] EXCEPT !.wire = Append(wire, Head(out)), !.outbound = Tail(out)]
  <2>1. links' = [links EXCEPT ![c] = new] /\ UNCHANGED <<pending, client>>
    BY DEF Send
  <2>2. new.outbound = Tail(out) /\ new.wire = Append(wire, Head(out))
    BY <1>1 DEF Links
  <2>3. Head(out) = out[1]
    BY <1>1
  <2> HIDE DEF new, out, wire
  <2> QED  BY <1>1, <2>1, <2>2, <2>3
<1>3. /\ Len(Tail(out)) = Len(out) - 1 /\ Len(out) \in Nat /\ Len(out) # 0
      /\ \A n \in 1 .. Len(out) - 1 : Tail(out)[n] = out[n + 1]
      /\ Len(Append(wire, out[1])) = size + 1
      /\ \A n \in 1 .. size : Append(wire, out[1])[n] = wire[n]
      /\ Append(wire, out[1])[size + 1] = out[1]
  <2> HIDE DEF out, wire
  <2> QED  BY <1>1
<1>4. ASSUME NEW p \in Places, NEW i \in Ends, NEW n \in Nat, Holds(j, p, i, n)'
      PROVE  \/ Holds(j, p, i, n) /\ ~(p = "outbound" /\ i = c)
             \/ p = "outbound" /\ i = c /\ Holds(j, "outbound", c, n + 1) /\ n > 0
             \/ p = "wire" /\ i = c /\ n = size + 1 /\ Holds(j, "outbound", c, 1)
  <2>1. CASE p = "pending" \/ p = "hand"
    BY <1>2, <1>4, <2>1 DEF Holds
  <2>2. CASE (p = "outbound" \/ p = "wire") /\ i # c
    BY <1>2, <1>4, <2>2 DEF Holds
  <2>3. CASE p = "outbound" /\ i = c
    <3>1. n \in 1 .. Len(Tail(out)) /\ Tail(out)[n] = Offer(j)
      BY <1>2, <1>4, <2>3 DEF Holds
    <3>2. n + 1 \in 1 .. Len(out) /\ out[n + 1] = Offer(j) /\ n > 0
      <4> HIDE DEF out
      <4> QED  BY <1>3, <3>1
    <3> QED  BY <2>3, <3>2 DEF Holds
  <2>4. CASE p = "wire" /\ i = c
    <3>1. n \in 1 .. Len(Append(wire, out[1])) /\ Append(wire, out[1])[n] = Offer(j)
      BY <1>2, <1>4, <2>4 DEF Holds
    <3>2. \/ n \in 1 .. size /\ wire[n] = Offer(j)
          \/ n = size + 1 /\ 1 \in 1 .. Len(out) /\ out[1] = Offer(j)
      <4> HIDE DEF out, wire, size
      <4> QED  BY <1>1, <1>3, <3>1
    <3> QED  BY <2>4, <3>2 DEF Holds
  <2> QED  BY <2>1, <2>2, <2>3, <2>4 DEF Places
<1> HIDE DEF out, wire, size
<1>5. c \in Ends /\ "outbound" \in Places /\ 1 \in Nat
  BY DEF Ends, Places
<1>6. \A a, b \in Places, k, l \in Ends, x, y \in Nat :
        Holds(j, a, k, x) /\ Holds(j, b, l, y) => a = b /\ k = l /\ x = y
  BY DEF KeptOnce
<1>7. ASSUME NEW p \in Places, NEW q \in Places, NEW i \in Ends, NEW h \in Ends,
             NEW n \in Nat, NEW m \in Nat, Holds(j, p, i, n)', Holds(j, q, h, m)'
      PROVE  p = q /\ i = h /\ n = m
  <2>1. n + 1 \in Nat /\ m + 1 \in Nat
    OBVIOUS
  <2>2. CASE Holds(j, p, i, n) /\ ~(p = "outbound" /\ i = c)
    BY <1>4, <1>5, <1>6, <1>7, <2>1, <2>2
  <2>3. CASE p = "outbound" /\ i = c /\ Holds(j, "outbound", c, n + 1) /\ n > 0
    <3>1. CASE Holds(j, q, h, m) /\ ~(q = "outbound" /\ h = c)
      BY <1>5, <1>6, <2>1, <2>3, <3>1
    <3>2. CASE q = "outbound" /\ h = c /\ Holds(j, "outbound", c, m + 1) /\ m > 0
      <4>1. n + 1 = m + 1
        BY <1>5, <1>6, <2>1, <2>3, <3>2
      <4> QED  BY <2>3, <3>2, <4>1
    <3>3. CASE q = "wire" /\ h = c /\ m = size + 1 /\ Holds(j, "outbound", c, 1)
      <4>1. n + 1 = 1
        BY <1>5, <1>6, <2>1, <2>3, <3>3
      <4> QED  BY <2>3, <4>1
    <3> QED  BY <1>4, <1>7, <3>1, <3>2, <3>3
  <2>4. CASE p = "wire" /\ i = c /\ n = size + 1 /\ Holds(j, "outbound", c, 1)
    <3>1. CASE Holds(j, q, h, m) /\ ~(q = "outbound" /\ h = c)
      BY <1>5, <1>6, <2>1, <2>4, <3>1
    <3>2. CASE q = "outbound" /\ h = c /\ Holds(j, "outbound", c, m + 1) /\ m > 0
      <4>1. m + 1 = 1
        BY <1>5, <1>6, <2>1, <2>4, <3>2
      <4> QED  BY <3>2, <4>1
    <3>3. CASE q = "wire" /\ h = c /\ m = size + 1 /\ Holds(j, "outbound", c, 1)
      BY <2>4, <3>3
    <3> QED  BY <1>4, <1>7, <3>1, <3>2, <3>3
  <2> QED  BY <1>4, <1>7, <2>2, <2>3, <2>4
<1>8. turn'[j].at # "offered" => \A p \in Places, i \in Ends, n \in Nat : ~Holds(j, p, i, n)'
  <2>1. turn'[j].at # "offered" => \A p \in Places, i \in Ends, n \in Nat : ~Holds(j, p, i, n)
    BY OfferedStays DEF KeptOnce
  <2> QED  BY <1>4, <1>5, <2>1
<1> QED  BY <1>7, <1>8 DEF KeptOnce

(* The worker takes the first of the wire, and works on it if it is an offer. *)
LEMMA WorkerOffers ==
  ASSUME TypeInv, ClientInv, [Next]_vars, NEW w \in Workers, Work(w) \/ Idle(w), ~Connect(w),
         NEW j \in Jobs, KeptOnce(j)
  PROVE  KeptOnce(j)'
<1> DEFINE c == client[w].link
           Taking == c \in Connections /\ links[c].wire # <<>> /\ links'[c].wire = Tail(links[c].wire)
<1>1. UNCHANGED pending
  BY DEF Work, Start, Connect, AwaitRegistration, HandshakeDies, Handle, Finish, NoticeDrop,
     CheckReload, Idle
<1>2. \/ UNCHANGED links
      \/ /\ c \in Connections
         /\ \A d \in Connections \ {c} : links'[d] = links[d]
         /\ links'[c].outbound = links[c].outbound
         /\ links'[c].wire = links[c].wire \/ Taking \/ links'[c].wire = <<>>
  <2>1. CASE AwaitRegistration(w) \/ Handle(w) \/ Finish(w) \/ Idle(w) \/ CheckReload(w)
    <3>1. c \in Connections
      BY <2>1, WorkerSpeaks
    <3>2. PICK new \in Links : links' = [links EXCEPT ![c] = new] /\ Heeded(Link(w), new)
      BY <2>1, WorkerSpeaks
    <3>3. links'[c] = new /\ \A d \in Connections \ {c} : links'[d] = links[d]
      BY <3>1, <3>2 DEF TypeInv
    <3> QED  BY <3>1, <3>2, <3>3 DEF Heeded, Link
  <2>2. CASE Start(w) \/ HandshakeDies(w) \/ NoticeDrop(w)
    BY <2>2 DEF Start, HandshakeDies, NoticeDrop
  <2> QED  BY <2>1, <2>2 DEF Work
<1>3. ASSUME NEW v \in Workers, client'[v].job = j \/ j \in client'[v].owes
      PROVE  \/ client[v].job = j \/ j \in client[v].owes
             \/ v = w /\ Taking /\ links[c].wire[1] = Offer(j)
  <2>1. CASE UNCHANGED client
    BY <1>3, <2>1
  <2>2. ASSUME NEW new \in Clients, client' = [client EXCEPT ![w] = new], Turned(w, client[w], new)
        PROVE  \/ client[v].job = j \/ j \in client[v].owes
               \/ v = w /\ Taking /\ links[c].wire[1] = Offer(j)
    <3>1. client'[w] = new /\ (v # w => client'[v] = client[v])
      BY <2>2 DEF TypeInv
    <3>2. CASE new.owes = client[w].owes /\ new.state = "busy" /\ Link(w).wire # <<>>
               /\ Heard(w) = Offer(new.job) /\ new.job \in Jobs
      <4>1. CASE Handle(w) /\ Heard(w).type = "job_offer"
        <5>1. c \in Connections /\ Link(w) = links[c] /\ links[c] \in Links
          BY <4>1, WorkerSpeaks DEF Link, TypeInv
        <5>2. links' = [links EXCEPT ![c] = Sent(w, Taken(Link(w)), <<Accepted(Heard(w).of)>>)]
          BY <4>1 DEF Handle, Update
        <5>3. Sent(w, Taken(Link(w)), <<Accepted(Heard(w).of)>>).wire = Tail(links[c].wire)
          BY <5>1 DEF Sent, Taken, Links
        <5>4. Taking
          BY <3>2, <5>1, <5>2, <5>3 DEF TypeInv
        <5>5. Heard(w) = links[c].wire[1]
          BY <3>2, <5>1 DEF Heard, Links
        <5> QED  BY <1>3, <3>1, <3>2, <5>4, <5>5
      <4>2. CASE ~(Handle(w) /\ Heard(w).type = "job_offer")
        <5>1. client[w] \in Clients
          BY DEF TypeInv
        <5>2. UNCHANGED client
          <6>1. client'[w].state = "busy"
            BY <3>1, <3>2
          <6>3. ~Finish(w)
            <7> SUFFICES ASSUME Finish(w) PROVE FALSE
              OBVIOUS
            <7>1. PICK owes \in {client[w].owes, client[w].owes \cup {client[w].job}},
                       state \in {"ready", "disconnected"} :
                    client' = [client EXCEPT ![w].state = state, ![w].owes = owes, ![w].job = Nobody]
              BY DEF Finish
            <7>2. client'[w].state = state
              BY <5>1, <7>1 DEF TypeInv, Clients
            <7> QED  BY <6>1, <7>2
          <6>4. ASSUME NEW state, client' = [client EXCEPT ![w].state = state], state # "busy"
                PROVE  FALSE
            <7>1. client'[w].state = state
              BY <5>1, <6>4 DEF TypeInv, Clients
            <7> QED  BY <6>1, <6>4, <7>1
          <6>5. ~(Start(w) \/ HandshakeDies(w) \/ NoticeDrop(w) \/ Idle(w) \/ CheckReload(w))
            BY <6>4 DEF Start, HandshakeDies, NoticeDrop, Idle, CheckReload, Go
          <6>6. ~AwaitRegistration(w)
            <7> SUFFICES ASSUME AwaitRegistration(w) PROVE FALSE
              OBVIOUS
            <7>1. PICK owes, state \in {"ready", "stopped"} :
                    \/ client' = [client EXCEPT ![w].state = state, ![w].owes = owes]
                    \/ client' = [client EXCEPT ![w].state = state]
              BY DEF AwaitRegistration, Go
            <7>2. client'[w].state = state
              BY <5>1, <7>1 DEF TypeInv, Clients
            <7> QED  BY <6>1, <7>2
          <6> QED  BY <4>2, <6>3, <6>5, <6>6 DEF Work, Handle
        <5> QED  BY <1>3, <5>2
      <4> QED  BY <4>1, <4>2
    <3>3. CASE /\ new.job \in {client[w].job, Nobody}
               /\ new.owes \subseteq client[w].owes \cup ({client[w].job} \cap Jobs)
      <4>1. j # Nobody
        BY GatewayAssumption
      <4> QED  BY <1>3, <3>1, <3>3, <4>1
    <3> QED  BY <2>2, <3>2, <3>3 DEF Turned
  <2> QED  BY <2>1, <2>2, WorkerTurns
<1>4. ASSUME NEW p \in Places, NEW i \in Ends, NEW n \in Nat, Holds(j, p, i, n)'
      PROVE  \/ Holds(j, p, i, n) /\ ~(Taking /\ p = "wire" /\ i = c)
             \/ Taking /\ p = "wire" /\ i = c /\ Holds(j, "wire", c, n + 1) /\ n > 0
             \/ Taking /\ p = "hand" /\ i = w /\ n = 1 /\ Holds(j, "wire", c, 1)
  <2>1. CASE p = "pending"
    BY <1>1, <1>4, <2>1 DEF Holds
  <2>2. CASE p = "outbound"
    BY <1>2, <1>4, <2>2 DEF Holds
  <2>3. CASE p = "wire" /\ ~(Taking /\ i = c)
    <3>1. i \in Connections /\ n \in 1 .. Len(links'[i].wire) /\ links'[i].wire[n] = Offer(j)
      BY <1>4, <2>3 DEF Holds
    <3>2. links'[i].wire = links[i].wire \/ links'[i].wire = <<>>
      BY <1>2, <2>3, <3>1
    <3> QED  BY <2>3, <3>1, <3>2 DEF Holds
  <2>4. CASE p = "wire" /\ Taking /\ i = c
    <3>1. n \in 1 .. Len(Tail(links[c].wire)) /\ Tail(links[c].wire)[n] = Offer(j)
      BY <1>4, <2>4 DEF Holds
    <3>2. links[c].wire \in Seq(Outgoing) /\ links[c].wire # <<>>
      BY <2>4 DEF TypeInv, Links
    <3>3. n + 1 \in 1 .. Len(links[c].wire) /\ links[c].wire[n + 1] = Offer(j) /\ n > 0
      <4> HIDE DEF c
      <4> QED  BY <3>1, <3>2
    <3> QED  BY <2>4, <3>3 DEF Holds
  <2>5. CASE p = "hand"
    <3>1. i \in Workers /\ n = 1 /\ (client'[i].job = j \/ j \in client'[i].owes)
      BY <1>4, <2>5 DEF Holds
    <3>2. CASE client[i].job = j \/ j \in client[i].owes
      BY <2>5, <3>1, <3>2 DEF Holds
    <3>3. CASE i = w /\ Taking /\ links[c].wire[1] = Offer(j)
      <4>1. 1 \in 1 .. Len(links[c].wire)
        BY <3>3 DEF TypeInv, Links
      <4> QED  BY <2>5, <3>1, <3>3, <4>1 DEF Holds
    <3> QED  BY <1>3, <3>1, <3>2, <3>3
  <2> QED  BY <2>1, <2>2, <2>3, <2>4, <2>5 DEF Places
<1>5. Taking => c \in Ends /\ "wire" \in Places /\ 1 \in Nat
  BY DEF Ends, Places
<1>6. \A a, b \in Places, k, l \in Ends, x, y \in Nat :
        Holds(j, a, k, x) /\ Holds(j, b, l, y) => a = b /\ k = l /\ x = y
  BY DEF KeptOnce
<1> HIDE DEF Taking, c
<1>7. ASSUME NEW p \in Places, NEW q \in Places, NEW i \in Ends, NEW h \in Ends,
             NEW n \in Nat, NEW m \in Nat, Holds(j, p, i, n)', Holds(j, q, h, m)'
      PROVE  p = q /\ i = h /\ n = m
  <2>1. n + 1 \in Nat /\ m + 1 \in Nat
    OBVIOUS
  <2>2. CASE Holds(j, p, i, n) /\ ~(Taking /\ p = "wire" /\ i = c)
    BY <1>4, <1>5, <1>6, <1>7, <2>1, <2>2
  <2>3. CASE Taking /\ p = "wire" /\ i = c /\ Holds(j, "wire", c, n + 1) /\ n > 0
    <3>1. CASE Holds(j, q, h, m) /\ ~(Taking /\ q = "wire" /\ h = c)
      BY <1>5, <1>6, <2>1, <2>3, <3>1
    <3>2. CASE q = "wire" /\ h = c /\ Holds(j, "wire", c, m + 1) /\ m > 0
      <4>1. n + 1 = m + 1
        BY <1>5, <1>6, <2>1, <2>3, <3>2
      <4> QED  BY <2>3, <3>2, <4>1
    <3>3. CASE q = "hand" /\ h = w /\ m = 1 /\ Holds(j, "wire", c, 1)
      <4>1. n + 1 = 1
        BY <1>5, <1>6, <2>1, <2>3, <3>3
      <4> QED  BY <2>3, <4>1
    <3> QED  BY <1>4, <1>7, <3>1, <3>2, <3>3
  <2>4. CASE Taking /\ p = "hand" /\ i = w /\ n = 1 /\ Holds(j, "wire", c, 1)
    <3>1. CASE Holds(j, q, h, m) /\ ~(Taking /\ q = "wire" /\ h = c)
      BY <1>5, <1>6, <2>1, <2>4, <3>1
    <3>2. CASE q = "wire" /\ h = c /\ Holds(j, "wire", c, m + 1) /\ m > 0
      <4>1. m + 1 = 1
        BY <1>5, <1>6, <2>1, <2>4, <3>2
      <4> QED  BY <3>2, <4>1
    <3>3. CASE q = "hand" /\ h = w /\ m = 1 /\ Holds(j, "wire", c, 1)
      BY <2>4, <3>3
    <3> QED  BY <1>4, <1>7, <3>1, <3>2, <3>3
  <2> QED  BY <1>4, <1>7, <2>2, <2>3, <2>4
<1>8. turn'[j].at # "offered" => \A p \in Places, i \in Ends, n \in Nat : ~Holds(j, p, i, n)'
  <2>1. turn'[j].at # "offered" => \A p \in Places, i \in Ends, n \in Nat : ~Holds(j, p, i, n)
    BY OfferedStays DEF KeptOnce
  <2> QED  BY <1>4, <1>5, <2>1
<1> QED  BY <1>7, <1>8 DEF KeptOnce


(* An offer is made for a worker that is away: it waits.  Otherwise the     *)
(* thread has the sink, and the offer is in no place yet.                    *)
LEMMA TakeSinkOffers ==
  ASSUME TypeInv, [Next]_vars, NEW t \in Jobs, TakeSink(t), NEW j \in Jobs, KeptOnce(j)
  PROVE  KeptOnce(j)'
<1> DEFINE w == turn[t].worker
           size == Len(pending[w])
<1>1. w \in Workers /\ turn[t].at = "selected" /\ UNCHANGED <<links, client>>
  BY DEF TakeSink, TypeInv
<1>2. CASE UNCHANGED pending
  <2>1. Still(j)
    BY <1>1, <1>2 DEF Still, Holds
  <2> QED  BY <2>1, StillKept
<1>3. CASE pending' # pending
  <2>1. /\ pending' = [pending EXCEPT ![w] = Append(pending[w], t)]
        /\ turn' = [turn EXCEPT ![t].at = "offered"]
    BY <1>3 DEF TakeSink
  <2>2. /\ pending[w] \in Seq(Jobs) /\ size \in Nat /\ pending'[w] = Append(pending[w], t)
        /\ \A v \in Workers \ {w} : pending'[v] = pending[v]
    BY <1>1, <2>1 DEF TypeInv
  <2>3. /\ Len(pending'[w]) = size + 1 /\ pending'[w][size + 1] = t
        /\ \A n \in 1 .. size : pending'[w][n] = pending[w][n]
    <3> HIDE DEF w
    <3> QED  BY <2>2
  <2>4. ASSUME NEW p \in Places, NEW i \in Ends, NEW n \in Nat, Holds(j, p, i, n)'
        PROVE  \/ Holds(j, p, i, n)
               \/ j = t /\ p = "pending" /\ i = w /\ n = size + 1
    <3>1. CASE p # "pending" \/ i # w
      BY <1>1, <2>2, <2>4, <3>1 DEF Holds
    <3>2. CASE p = "pending" /\ i = w
      <4>1. n \in 1 .. Len(pending'[w]) /\ pending'[w][n] = j
        BY <2>4, <3>2 DEF Holds
      <4>2. (n \in 1 .. size /\ pending[w][n] = j) \/ (n = size + 1 /\ j = t)
        <5> HIDE DEF w, size
        <5> QED  BY <2>2, <2>3, <4>1
      <4> QED  BY <1>1, <3>2, <4>2 DEF Holds
    <3> QED  BY <3>1, <3>2
  <2> HIDE DEF w, size
  <2>5. CASE j # t
    <3>1. Still(j)
      BY <2>4, <2>5 DEF Still
    <3> QED  BY <3>1, StillKept
  <2>6. CASE j = t
    <3>1. \A p \in Places, i \in Ends, n \in Nat : ~Holds(j, p, i, n)
      BY <1>1, <2>6 DEF KeptOnce
    <3>2. turn'[j].at = "offered"
      BY <2>1, <2>6 DEF TypeInv, Turns
    <3> QED  BY <2>4, <3>1, <3>2 DEF KeptOnce
  <2> QED  BY <2>5, <2>6
<1> QED  BY <1>2, <1>3

LEMMA PushOffers ==
  ASSUME TypeInv, [Next]_vars, NEW t \in Jobs, Push(t), NEW j \in Jobs, KeptOnce(j)
  PROVE  KeptOnce(j)'
<1> DEFINE c == turn[t].sink
           size == Len(links[c].outbound)
           new == [links[c] EXCEPT !.outbound = Append(links[c].outbound, Offer(t))]
<1>1. /\ c \in Connections /\ turn[t].at = "sinking" /\ UNCHANGED <<pending, client>>
      /\ links' = [links EXCEPT ![c] = new] /\ turn' = [turn EXCEPT ![t].at = "offered"]
  BY DEF Push, TypeInv
<1>2. links[c] \in Links /\ links[c].outbound \in Seq(Outgoing) /\ size \in Nat
  BY <1>1 DEF TypeInv, Links
<1>3. new.outbound = Append(links[c].outbound, Offer(t)) /\ new.wire = links[c].wire
  BY <1>2 DEF Links
<1>4. links'[c] = new /\ \A d \in Connections \ {c} : links'[d] = links[d]
  <2> HIDE DEF new
  <2> QED  BY <1>1 DEF TypeInv
<1>5. /\ Len(links'[c].outbound) = size + 1 /\ links'[c].outbound[size + 1] = Offer(t)
      /\ \A n \in 1 .. size : links'[c].outbound[n] = links[c].outbound[n]
      /\ links'[c].wire = links[c].wire
  <2>1. links'[c].outbound = Append(links[c].outbound, Offer(t)) /\ links'[c].wire = links[c].wire
    BY <1>3, <1>4
  <2> HIDE DEF new, c
  <2> QED  BY <1>2, <2>1
<1> HIDE DEF new
<1>6. ASSUME NEW p \in Places, NEW i \in Ends, NEW n \in Nat, Holds(j, p, i, n)'
      PROVE  \/ Holds(j, p, i, n)
             \/ j = t /\ p = "outbound" /\ i = c /\ n = size + 1
  <2>1. CASE p # "outbound" \/ i # c
    <3>1. \A d \in Connections : links'[d].wire = links[d].wire
      BY <1>4, <1>5
    <3> QED  BY <1>1, <1>4, <1>6, <2>1, <3>1 DEF Holds
  <2>2. CASE p = "outbound" /\ i = c
    <3>1. n \in 1 .. Len(links'[c].outbound) /\ links'[c].outbound[n] = Offer(j)
      BY <1>6, <2>2 DEF Holds
    <3>2. (n \in 1 .. size /\ links[c].outbound[n] = Offer(j)) \/ (n = size + 1 /\ Offer(j) = Offer(t))
      <4> HIDE DEF c, size
      <4> QED  BY <1>2, <1>5, <3>1
    <3> QED  BY <1>1, <2>2, <3>2, OffersDiffer DEF Holds
  <2> QED  BY <2>1, <2>2
<1> HIDE DEF c, size
<1>7. CASE j # t
  <2>1. Still(j)
    BY <1>6, <1>7 DEF Still
  <2> QED  BY <2>1, StillKept
<1>8. CASE j = t
  <2>1. \A p \in Places, i \in Ends, n \in Nat : ~Holds(j, p, i, n)
    BY <1>1, <1>8 DEF KeptOnce
  <2>2. turn'[j].at = "offered"
    BY <1>1, <1>8 DEF TypeInv, Turns
  <2> QED  BY <1>6, <2>1, <2>2 DEF KeptOnce
<1> QED  BY <1>7, <1>8

(* The other steps of the gateway read, close and lose; none makes an offer. *)
LEMMA OtherOffers ==
  ASSUME TypeInv, NEW j \in Jobs, NEW c \in Connections,
         \/ (ReceiveHello(c) /\ ~Greets(c, Message(c).of)) \/ ReceiveHeartbeat(c)
         \/ ReceiveReport(c) \/ Disconnected(c) \/ Close(c) \/ Drop(c)
  PROVE  Still(j)
<1>1. /\ links[c].inbound \in Seq(Incoming) /\ links[c].wire \in Seq(Outgoing)
      /\ links[c].outbound \in Seq(Outgoing) /\ links[c] \in Links
      /\ links \in [Connections -> Links]
  BY DEF TypeInv, Links
<1>2. ASSUME NEW new, links' = [links EXCEPT ![c] = new], UNCHANGED <<pending, client>>,
             new.wire = links[c].wire \/ new.wire = <<>>,
             \A n \in 1 .. Len(new.outbound) : new.outbound[n] = Offer(j) =>
               n \in 1 .. Len(links[c].outbound) /\ links[c].outbound[n] = Offer(j)
      PROVE  Still(j)
  <2>1. links'[c] = new /\ \A d \in Connections \ {c} : links'[d] = links[d]
    BY <1>1, <1>2
  <2>2. ASSUME NEW d \in Connections, NEW n \in 1 .. Len(links'[d].wire), links'[d].wire[n] = Offer(j)
        PROVE  n \in 1 .. Len(links[d].wire) /\ links[d].wire[n] = Offer(j)
    <3>1. links'[d].wire = links[d].wire \/ links'[d].wire = <<>>
      BY <1>2, <2>1
    <3> QED  BY <2>2, <3>1
  <2>3. ASSUME NEW d \in Connections, NEW n \in 1 .. Len(links'[d].outbound),
               links'[d].outbound[n] = Offer(j)
        PROVE  n \in 1 .. Len(links[d].outbound) /\ links[d].outbound[n] = Offer(j)
    BY <1>2, <2>1, <2>3
  <2> QED  BY <1>2, <2>2, <2>3 DEF Still, Holds
<1>3. CASE (ReceiveHello(c) /\ ~Greets(c, Message(c).of)) \/ ReceiveHeartbeat(c)
  <2> DEFINE w == Message(c).of
  <2>1. Serving(c)
    BY <1>3 DEF ReceiveHello, ReceiveHeartbeat
  <2>2. w \in Workers
    <3>1. Message(c) \in Incoming
      BY <2>1, MessageRead
    <3> QED  BY <1>3, <3>1 DEF ReceiveHello, ReceiveHeartbeat, Incoming
  <2>3. PICK reply \in {Rejected(w), Ack(w)}, serving \in {"open", "closing"} :
          links' = [links EXCEPT ![c] = Replied(c, <<reply>>, serving)]
    BY <1>3, HelloRead DEF ReceiveHeartbeat, Refuse, Reply
  <2>4. reply \in Outgoing /\ reply # Offer(j)
    BY <2>2, MessageTypes, OffersDiffer
  <2> DEFINE new == Replied(c, <<reply>>, serving)
  <2>5. new.wire = links[c].wire /\ new.outbound = links[c].outbound \o <<reply>>
    BY <1>1 DEF Replied, Links
  <2>6. UNCHANGED <<pending, client>>
    BY <1>3, HelloRead DEF ReceiveHeartbeat
  <2>7. links' = [links EXCEPT ![c] = new]
    BY <2>3
  <2> HIDE DEF new
  <2>8. \A n \in 1 .. Len(new.outbound) : new.outbound[n] = Offer(j) =>
          n \in 1 .. Len(links[c].outbound) /\ links[c].outbound[n] = Offer(j)
    <3>1. new.outbound = Append(links[c].outbound, reply)
      BY <1>1, <2>4, <2>5
    <3> QED  BY <1>1, <2>4, <3>1
  <2> QED  BY <1>2, <2>5, <2>6, <2>7, <2>8
<1>4. CASE ReceiveReport(c) \/ Disconnected(c) \/ Close(c)
  <2>1. \/ links' = [links EXCEPT ![c] = [links[c] EXCEPT !.inbound = Tail(links[c].inbound)]]
        \/ links' = [links EXCEPT ![c] = [links[c] EXCEPT !.serving = "closing"]]
        \/ links' = [links EXCEPT ![c] = [links[c] EXCEPT !.serving = "closed"]]
    BY <1>4 DEF ReceiveReport, Disconnected, Close
  <2>2. PICK new : /\ links' = [links EXCEPT ![c] = new]
                   /\ new.wire = links[c].wire /\ new.outbound = links[c].outbound
    BY <1>1, <2>1 DEF Links
  <2>3. UNCHANGED <<pending, client>>
    BY <1>4 DEF ReceiveReport, Disconnected, Close
  <2> QED  BY <1>2, <2>2, <2>3
<1>5. CASE Drop(c)
  <2>1. PICK kept \in {links[c].inbound, <<>>} :
          links' = [links EXCEPT ![c].up = FALSE, ![c].inbound = kept, ![c].wire = <<>>]
    BY <1>5 DEF Drop
  <2> DEFINE new == [links[c] EXCEPT !.up = FALSE, !.inbound = kept, !.wire = <<>>]
  <2>2. links' = [links EXCEPT ![c] = new]
    BY <2>1
  <2>3. new.wire = <<>> /\ new.outbound = links[c].outbound
    BY <1>1 DEF Links
  <2>4. UNCHANGED <<pending, client>>
    BY <1>5 DEF Drop
  <2> HIDE DEF new
  <2> QED  BY <1>2, <2>2, <2>3, <2>4
<1> QED  BY <1>3, <1>4, <1>5

LEMMA OfferStep ==
  ASSUME TypeInv, AttachInv, NameInv, HelloInv, ClientInv, OfferInv, [Next]_vars
  PROVE  OfferInv'
<1> SUFFICES ASSUME NEW j \in Jobs PROVE KeptOnce(j)'
  BY DEF OfferInv
<1>0. KeptOnce(j)
  BY DEF OfferInv
<1>1. ASSUME NEW c \in Connections, Serve(c) \/ Send(c) \/ Drop(c)
      PROVE  KeptOnce(j)'
  <2>1. CASE ReceiveHello(c) /\ Greets(c, Message(c).of)
    BY <1>0, <2>1, HelloRead, GreetsOffers
  <2>2. CASE Send(c)
    BY <1>0, <2>2, SendOffers
  <2>3. CASE \/ (ReceiveHello(c) /\ ~Greets(c, Message(c).of)) \/ ReceiveHeartbeat(c)
             \/ ReceiveReport(c) \/ Disconnected(c) \/ Close(c) \/ Drop(c)
    BY <1>0, <2>3, OtherOffers, StillKept
  <2> QED  BY <1>1, <2>1, <2>2, <2>3 DEF Serve, Receive
<1>2. ASSUME NEW w \in Workers, Work(w) \/ Idle(w)
      PROVE  KeptOnce(j)'
  <2>1. CASE Connect(w)
    <3>1. PICK c \in Connections, new \in Links : Opens(w, c, new)
      BY <2>1, Opened
    <3>2. new.outbound = <<>> /\ new.wire = <<>>
      BY <3>1 DEF Opens
    <3>3. Still(j)
      <4>1. /\ pending' = pending /\ links'[c] = new
            /\ \A d \in Connections \ {c} : links'[d] = links[d]
            /\ \A v \in Workers : client'[v].job = client[v].job /\ client'[v].owes = client[v].owes
        BY <3>1, OpensFacts
      <4> QED  BY <3>2, <4>1 DEF Still, Holds
    <3> QED  BY <1>0, <3>3, StillKept
  <2>2. CASE ~Connect(w)
    BY <1>0, <1>2, <2>2, WorkerOffers
  <2> QED  BY <2>1, <2>2
<1>3. ASSUME NEW t \in Jobs, Dispatch(t)
      PROVE  KeptOnce(j)'
  <2>1. CASE Select(t)
    <3>1. Still(j)
      BY <2>1 DEF Select, Still, Holds
    <3> QED  BY <1>0, <3>1, StillKept
  <2> QED  BY <1>0, <1>3, <2>1, TakeSinkOffers, PushOffers DEF Dispatch
<1>4. CASE RequestReload \/ EditSource \/ Tick \/ UNCHANGED vars
  <2>1. UNCHANGED <<pending, links, client>>
    BY <1>4 DEF RequestReload, EditSource, Tick, vars
  <2>2. Still(j)
    BY <2>1 DEF Still, Holds
  <2> QED  BY <1>0, <2>2, StillKept
<1> QED  BY <1>1, <1>2, <1>3, <1>4 DEF Next

-------------------------------------------------------------------------------
(* The invariant the theorems below rest on holds in every reachable state,  *)
(* whatever connections, workers and turns do to each other.                 *)
THEOREM Invariance == Spec => []IndInv
<1>1. Init => IndInv
  BY InitInv
<1>2. IndInv /\ [Next]_vars => IndInv'
  BY TypeStep, AttachStep, NameStep, HelloStep, ClientStep, OfferStep DEF IndInv
<1> QED  BY <1>1, <1>2, PTL DEF Spec

(* A worker that was told it is registered is known and reached over the     *)
(* connection it uses, as long as the gateway serves that connection         *)
(* (WorkerGateway.attach and detach, WorkerConnectionManager).               *)
THEOREM RegisteredIsAttached == Spec => []RegisteredIsReachable
<1>1. IndInv => RegisteredIsReachable
  <2> SUFFICES ASSUME IndInv, NEW w \in Workers
               PROVE  /\ workers[w] = Nobody <=> sinks[w] = Nobody
                      /\ client[w].state \in {"ready", "checking", "busy"} /\ Usable(w)
                           /\ Link(w).serving = "open"
                           => workers[w] # Nobody
                              /\ {workers[w].link, sinks[w]} = {client[w].link}
    BY DEF RegisteredIsReachable
  <2>1. workers[w] = Nobody <=> sinks[w] = Nobody
    BY DEF IndInv, AttachInv
  <2>2. ASSUME client[w].state \in {"ready", "checking", "busy"}, Link(w).serving = "open"
        PROVE  workers[w] # Nobody /\ {workers[w].link, sinks[w]} = {client[w].link}
    <3>1. client[w].state \in Linked
      BY <2>2 DEF Linked
    <3>2. sinks[w] = client[w].link /\ client[w].link \in Connections
      BY <2>2, <3>1 DEF IndInv, ClientInv
    <3>3. workers[w] # Nobody /\ workers[w].link = sinks[w]
      BY <2>1, <3>2, GatewayAssumption DEF IndInv, AttachInv
    <3> QED  BY <3>2, <3>3
  <2> QED  BY <2>1, <2>2
<1> QED  BY <1>1, Invariance, PTL


LEMMA FewElements ==
  ASSUME NEW S, \A x, y \in S : x = y
  PROVE  /\ Cardinality(S) \in {0, 1}
         /\ S = {} => Cardinality(S) = 0
<1>1. CASE S = {}
  BY <1>1, FS_EmptySet
<1>2. CASE S # {}
  <2>1. PICK x \in S : TRUE
    BY <1>2
  <2>2. S = {x}
    BY <2>1
  <2> QED  BY <1>2, <2>2, FS_Singleton
<1> QED  BY <1>1, <1>2

LEMMA OneCopy ==
  ASSUME IndInv, NEW j \in Jobs
  PROVE  Copies(j) <= 1
<1> DEFINE P == {w \in Workers : j \in ToSet(pending[w])}
           L == {c \in Connections : Offer(j) \in ToSet(OnTheWay(links[c]))}
           H == {w \in Workers : client[w].job = j \/ j \in client[w].owes}
<1> USE DEF IndInv
<1>1. ASSUME NEW w \in P
      PROVE  \E n \in Nat : Holds(j, "pending", w, n)
  <2>1. pending[w] \in Seq(Jobs) /\ w \in Workers
    BY DEF TypeInv
  <2>2. PICK n \in 1 .. Len(pending[w]) : pending[w][n] = j
    BY <2>1 DEF ToSet
  <2> QED  BY <2>1, <2>2 DEF Holds
<1>2. ASSUME NEW c \in L
      PROVE  \E n \in Nat : Holds(j, "outbound", c, n) \/ Holds(j, "wire", c, n)
  <2> DEFINE in == links[c].inbound
             out == links[c].outbound
             wire == links[c].wire
  <2>1. /\ in \in Seq(Incoming) /\ out \in Seq(Outgoing) /\ wire \in Seq(Outgoing)
        /\ c \in Connections
    BY DEF TypeInv, Links
  <2>2. Offer(j) \notin Incoming
    BY DEF Offer, Incoming
  <2>3. Offer(j) \in ToSet(in \o out \o wire)
    BY DEF OnTheWay
  <2>4. \/ \E n \in 1 .. Len(out) : out[n] = Offer(j)
        \/ \E n \in 1 .. Len(wire) : wire[n] = Offer(j)
    <3> HIDE DEF in, out, wire
    <3>1. /\ Len(in) \in Nat /\ Len(out) \in Nat /\ Len(wire) \in Nat
          /\ in \o out \o wire \in Seq(Incoming \cup Outgoing)
          /\ Len(in \o out \o wire) = Len(in) + Len(out) + Len(wire)
          /\ \A m \in 1 .. Len(in) + Len(out) + Len(wire) : (in \o out \o wire)[m] =
               IF m <= Len(in) THEN in[m]
               ELSE IF m <= Len(in) + Len(out) THEN out[m - Len(in)]
               ELSE wire[m - Len(in) - Len(out)]
      BY <2>1
    <3>2. PICK m \in 1 .. Len(in) + Len(out) + Len(wire) : (in \o out \o wire)[m] = Offer(j)
      BY <2>3, <3>1 DEF ToSet
    <3>3. m > Len(in)
      <4>1. m <= Len(in) => (in \o out \o wire)[m] = in[m] /\ in[m] \in Incoming
        BY <2>1, <3>1, <3>2
      <4> QED  BY <2>2, <3>1, <3>2, <4>1
    <3>4. CASE m <= Len(in) + Len(out)
      <4>1. m - Len(in) \in 1 .. Len(out) /\ out[m - Len(in)] = Offer(j)
        BY <3>1, <3>2, <3>3, <3>4
      <4> QED  BY <4>1
    <3>5. CASE ~(m <= Len(in) + Len(out))
      <4>1. m - Len(in) - Len(out) \in 1 .. Len(wire) /\ wire[m - Len(in) - Len(out)] = Offer(j)
        BY <3>1, <3>2, <3>3, <3>5
      <4> QED  BY <4>1
    <3> QED  BY <3>4, <3>5
  <2>5. CASE \E n \in 1 .. Len(out) : out[n] = Offer(j)
    <3>1. PICK n \in 1 .. Len(out) : out[n] = Offer(j)
      BY <2>5
    <3>2. Holds(j, "outbound", c, n) /\ n \in Nat
      BY <2>1, <3>1 DEF Holds
    <3> QED  BY <3>2
  <2>6. CASE \E n \in 1 .. Len(wire) : wire[n] = Offer(j)
    <3>1. PICK n \in 1 .. Len(wire) : wire[n] = Offer(j)
      BY <2>6
    <3>2. Holds(j, "wire", c, n) /\ n \in Nat
      BY <2>1, <3>1 DEF Holds
    <3> QED  BY <3>2
  <2> HIDE DEF out, wire
  <2> QED  BY <2>4, <2>5, <2>6
<1>3. ASSUME NEW w \in H
      PROVE  Holds(j, "hand", w, 1) /\ 1 \in Nat
  BY DEF Holds
<1>4. \A a, b \in Places, k, l \in Ends, x, y \in Nat :
        Holds(j, a, k, x) /\ Holds(j, b, l, y) => a = b /\ k = l
  BY DEF OfferInv, KeptOnce
<1>5. "pending" \in Places /\ "outbound" \in Places /\ "wire" \in Places /\ "hand" \in Places
  BY DEF Places
<1>6. P \subseteq Ends /\ L \subseteq Ends /\ H \subseteq Ends
  BY DEF Ends
<1> HIDE DEF P, L, H, IndInv
<1>7. /\ \A x, y \in P : x = y
      /\ \A x, y \in L : x = y
      /\ \A x, y \in H : x = y
  <2>1. ASSUME NEW x \in P, NEW y \in P PROVE x = y
    <3>1. x \in Ends /\ y \in Ends
      BY <1>6
    <3> QED  BY <1>1, <1>4, <1>5, <3>1
  <2>2. ASSUME NEW x \in L, NEW y \in L PROVE x = y
    <3>1. x \in Ends /\ y \in Ends
      BY <1>6
    <3> QED  BY <1>2, <1>4, <1>5, <3>1
  <2>3. ASSUME NEW x \in H, NEW y \in H PROVE x = y
    <3>1. x \in Ends /\ y \in Ends
      BY <1>6
    <3> QED  BY <1>3, <1>4, <1>5, <3>1
  <2> QED  BY <2>1, <2>2, <2>3
<1>8. (P = {} /\ L = {}) \/ (P = {} /\ H = {}) \/ (L = {} /\ H = {})
  <2>1. ASSUME NEW x \in P, NEW y \in L PROVE FALSE
    <3>1. x \in Ends /\ y \in Ends
      BY <1>6
    <3> QED  BY <1>1, <1>2, <1>4, <1>5, <3>1
  <2>2. ASSUME NEW x \in P, NEW y \in H PROVE FALSE
    <3>1. x \in Ends /\ y \in Ends
      BY <1>6
    <3> QED  BY <1>1, <1>3, <1>4, <1>5, <3>1
  <2>3. ASSUME NEW x \in L, NEW y \in H PROVE FALSE
    <3>1. x \in Ends /\ y \in Ends
      BY <1>6
    <3> QED  BY <1>2, <1>3, <1>4, <1>5, <3>1
  <2> QED  BY <2>1, <2>2, <2>3
<1>9. /\ Cardinality(P) \in {0, 1} /\ (P = {} => Cardinality(P) = 0)
      /\ Cardinality(L) \in {0, 1} /\ (L = {} => Cardinality(L) = 0)
      /\ Cardinality(H) \in {0, 1} /\ (H = {} => Cardinality(H) = 0)
  BY <1>7, FewElements
<1>10. Copies(j) = Cardinality(P) + Cardinality(L) + Cardinality(H)
  BY DEF Copies, P, L, H
<1> QED  BY <1>8, <1>9, <1>10

(* However connections come and go, a job that was offered waits, travels or *)
(* is worked on in one place, and nothing waits for a worker that is         *)
(* attached (WorkerGateway.offer, attach and _pending_offers).               *)
THEOREM OffersExistOnce == Spec => []OffersAreKeptOnce
<1>1. IndInv => OffersAreKeptOnce
  BY OneCopy DEF OffersAreKeptOnce, IndInv, AttachInv
<1> QED  BY <1>1, Invariance, PTL

===============================================================================
