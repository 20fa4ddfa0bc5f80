--------------------------- MODULE SupervisionProofs ---------------------------
(***************************************************************************)
(* The threads of a capture over a channel of any size, with any number of *)
(* control clients, chunks, signals and faults: no observation that was    *)
(* sent goes uncounted, nobody of the process group is left when the final *)
(* checkpoint is taken, and what a client is told is true.                 *)
(***************************************************************************)
EXTENDS Supervision, FiniteSetTheorems, TLAPS

\* The server waits for a reply to the marker it sent.
Waiting == {"wait", "late"}

\* A marker in the channel is the only one, its request is unanswered, and a
\* checkpoint that was committed for a client is known to it or on its way.
Requests ==
  /\ pc \notin {"recv", "poll", "wait"} => exited
  /\ pc \in {"server", "done"} => queue = <<>>
  /\ \A i \in 1..Len(queue) : queue[i] = "marker" =>
       /\ server # "send" /\ (~exited => server \in Waiting)
       /\ server \in Waiting => reply = "none"
       /\ \A j \in 1..Len(queue) : queue[j] = "marker" => i = j
  /\ server = "send" => reply = "none"
  /\ server \in Waiting \cup {"send"} => serving \in Client /\ client[serving] = "waiting"
  /\ server \in Waiting /\ reply = "yes" => serving \in committed
  /\ \A c \in Client : client[c] = "accepted" => c \in committed
  /\ \A c \in Client : c \in committed =>
       \/ client[c] = "accepted"
       \/ client[c] = "rejected" /\ exited
       \/ client[c] = "waiting" /\ c = serving /\ server \in Waiting /\ reply = "yes"

\* What handling one observation does to the fields: the cases of
\* Coordinator::handle, whichever it is.
LEMMA HandleTypes ==
  ASSUME SupervisionAssumption, TypeOK, NEW m \in Message, Handle(m)
  PROVE  /\ eof' \in BOOLEAN /\ interrupted' \in BOOLEAN /\ fatal' \in BOOLEAN
         /\ grace' \in Deadline /\ drain' \in Deadline /\ killed' \in BOOLEAN
         /\ reply' \in {"none", "yes", "no"}
         /\ doomed' \subseteq alive \cap Group
         /\ recorded' \in 0..OutputLimit
<1> USE DEF Outcomes, Fail, KillGroup, Warn, Deadline
<1>0. /\ OutputLimit \in Nat /\ recorded \in 0..OutputLimit /\ fatal \in BOOLEAN
      /\ doomed \subseteq alive \cap Group /\ "root" \in Group /\ exited \in BOOLEAN
      /\ eof \in BOOLEAN /\ interrupted \in BOOLEAN /\ killed \in BOOLEAN
      /\ grace \in Deadline /\ drain \in Deadline /\ reply \in {"none", "yes", "no"}
  BY DEF SupervisionAssumption, TypeOK, Group
<1>1. CASE HandleOutput
  <2>0. recorded' = recorded \/ (recorded < OutputLimit /\ recorded' = recorded + 1)
    BY <1>1 DEF HandleOutput
  <2>1. recorded' \in 0..OutputLimit
    BY <1>0, <2>0
  <2>2. doomed' \subseteq alive \cap Group /\ fatal' \in BOOLEAN
    BY <1>0, <1>1 DEF HandleOutput
  <2> QED BY <1>0, <1>1, <2>1, <2>2 DEF HandleOutput
<1>2. CASE HandleEof
  BY <1>0, <1>2 DEF HandleEof
<1>3. CASE HandleFailure
  BY <1>0, <1>3 DEF HandleFailure
<1>4. CASE HandleRecord
  BY <1>0, <1>4 DEF HandleRecord
<1>5. CASE HandleSignal
  <2>1. CASE fatal
    BY <1>0, <1>5, <2>1 DEF HandleSignal
  <2>2. CASE ~fatal /\ SignalBeforeExit
    BY <1>0, <1>5, <2>2 DEF HandleSignal, SignalBeforeExit
  <2>3. CASE ~fatal /\ SignalAfterExit
    BY <1>0, <1>5, <2>3 DEF HandleSignal, SignalAfterExit
  <2> QED BY <1>5, <2>1, <2>2, <2>3 DEF HandleSignal
<1>6. CASE HandleMarker
  BY <1>0, <1>6 DEF HandleMarker
<1> QED BY <1>1, <1>2, <1>3, <1>4, <1>5, <1>6 DEF Handle

-----------------------------------------------------------------------------
(* The requests of the control socket.                                     *)

\* Steps that leave the channel and the control server alone.
LEMMA QuietKeepsRequests ==
  ASSUME Requests, UNCHANGED <<queue, controlVars>>, exited => exited',
         pc' \notin {"recv", "poll", "wait"} => exited',
         pc' \in {"server", "done"} => queue = <<>>
  PROVE  Requests'
BY DEF Requests, controlVars

\* A producer's send of anything but a marker.
LEMMA SendKeepsRequests ==
  ASSUME TypeOK, Requests, NEW m \in Message \ {"marker"}, Open, queue' = Append(queue, m),
         UNCHANGED <<controlVars, pc, exited>>
  PROVE  Requests'
<1>1. /\ queue \in Seq(Message) /\ Len(queue') = Len(queue) + 1 /\ Len(queue) \in Nat
      /\ \A i \in 1..Len(queue) : queue'[i] = queue[i]
      /\ queue'[Len(queue) + 1] = m
  BY DEF TypeOK
<1>2. \A i \in 1..Len(queue') : queue'[i] = "marker" => i \in 1..Len(queue) /\ queue[i] = "marker"
  BY <1>1
<1>3. pc \notin {"server", "done"}
  BY DEF Open
<1> QED BY <1>2, <1>3 DEF Requests, controlVars

\* Handling an observation: a marker is answered once, and while the child
\* lives it is the marker of the client being served.
LEMMA TakeKeepsRequests ==
  ASSUME SupervisionAssumption, TypeOK, Requests, Take,
         pc' \notin {"recv", "poll", "wait"} => exited, pc' \notin {"server", "done"}
  PROVE  Requests' /\ committed' \subseteq Client
<1> DEFINE m == Head(queue)
<1>1. /\ queue \in Seq(Message) /\ queue # <<>> /\ Len(queue) \in Nat \ {0}
      /\ queue' = Tail(queue) /\ Len(queue') = Len(queue) - 1
      /\ m = queue[1] /\ m \in Message
      /\ \A i \in 1..Len(queue') : queue'[i] = queue[i + 1]
  BY DEF TypeOK, Take
<1>2. UNCHANGED <<server, serving, client, exited>>
  BY DEF Take
<1>3. \A i \in 1..Len(queue') : queue'[i] = "marker" =>
        /\ i + 1 \in 1..Len(queue) /\ queue[i + 1] = "marker" /\ m # "marker"
        /\ \A j \in 1..Len(queue') : queue'[j] = "marker" => i = j
  <2> SUFFICES ASSUME NEW i \in 1..Len(queue'), queue'[i] = "marker"
               PROVE  /\ i + 1 \in 1..Len(queue) /\ queue[i + 1] = "marker" /\ m # "marker"
                      /\ \A j \in 1..Len(queue') : queue'[j] = "marker" => i = j
    OBVIOUS
  <2>1. i + 1 \in 1..Len(queue) /\ queue[i + 1] = "marker" /\ 1 \in 1..Len(queue) /\ i + 1 # 1
    BY <1>1
  <2>2. \A j \in 1..Len(queue) : queue[j] = "marker" => i + 1 = j
    BY <2>1 DEF Requests
  <2>3. m # "marker"
    BY <1>1, <2>1, <2>2
  <2>4. \A j \in 1..Len(queue') : queue'[j] = "marker" => i = j
    BY <1>1, <2>2
  <2> QED BY <2>1, <2>3, <2>4
<1>4. CASE m # "marker"
  <2>1. UNCHANGED <<reply, committed>>
    BY <1>1, <1>4 DEF Take, Handle, Message, HandleOutput, HandleEof, HandleFailure, HandleRecord,
                      HandleSignal
  <2>2. committed' \subseteq Client
    BY <2>1 DEF TypeOK
  <2> QED BY <1>2, <1>3, <2>1, <2>2 DEF Requests
<1>5. CASE m = "marker"
  <2>1. /\ server # "send" /\ (server \in Waiting => reply = "none")
        /\ ~exited => server \in Waiting /\ serving \in Client
    BY <1>1, <1>5 DEF Requests
  <2>2. \A i \in 1..Len(queue') : queue'[i] # "marker"
    BY <1>3, <1>5
  <2>3. HandleMarker
    BY <1>5 DEF Take, Handle
  <2>4. CASE committed' = committed /\ reply' = "no"
    <3>1. committed' \subseteq Client
      BY <2>4 DEF TypeOK
    <3> QED BY <1>2, <2>1, <2>2, <2>4, <3>1 DEF Requests, Waiting
  <2>5. CASE ~exited /\ committed' = committed \cup {serving} /\ reply' = "yes"
    <3>1. committed' \subseteq Client
      BY <2>1, <2>5 DEF TypeOK
    <3>2. client[serving] = "waiting" /\ server \in Waiting
      BY <2>1, <2>5 DEF Requests
    <3> QED BY <1>2, <2>1, <2>2, <2>5, <3>1, <3>2 DEF Requests, Waiting
  <2> QED BY <2>3, <2>4, <2>5 DEF HandleMarker
<1> QED BY <1>4, <1>5

\* The control server and its clients: a request is begun, sent or answered.
LEMMA AskKeepsRequests ==
  ASSUME TypeOK, Requests, NEW c \in Client, Ask(c)
  PROVE  Requests'
<1>1. UNCHANGED <<queue, server, serving, reply, committed, pc, exited>>
  BY DEF Ask, loopVars
<1>2. /\ client[c] = "idle"
      /\ client' = [client EXCEPT ![c] = "waiting"]
      /\ client \in [Client -> {"idle", "waiting", "accepted", "rejected", "reset"}]
  BY DEF Ask, TypeOK
<1> QED BY <1>1, <1>2 DEF Requests

\* serve takes a connection on, refuses it or closes the listener.
LEMMA AcceptKeepsRequests ==
  ASSUME SupervisionAssumption, TypeOK, Requests, Accept
  PROVE  Requests'
<1>1. /\ UNCHANGED <<queue, committed, pc, exited>> /\ server = "idle"
      /\ client \in [Client -> {"idle", "waiting", "accepted", "rejected", "reset"}]
  BY DEF Accept, loopVars, TypeOK
<1>2. \A c \in Client : c \in committed => client[c] # "waiting"
  BY <1>1 DEF Requests, Waiting
<1>3. CASE Close /\ UNCHANGED reply
  BY <1>1, <1>2, <1>3 DEF Requests, Close, Waiting
<1>4. CASE \E c \in Client : ~Stopping("server") /\ client[c] = "waiting" /\ server' = "send"
             /\ serving' = c /\ reply' = "none" /\ UNCHANGED client
  BY <1>1, <1>2, <1>4 DEF Requests, Waiting, Stopping
<1>5. CASE \E c \in Client : /\ client[c] = "waiting" /\ client' = [client EXCEPT ![c] = "rejected"]
                             /\ UNCHANGED <<server, serving, reply>>
  BY <1>1, <1>2, <1>5 DEF Requests, Waiting
<1>6. CASE ~Stopping("server") /\ server' = "failed" /\ UNCHANGED <<serving, reply, client>>
  BY <1>1, <1>2, <1>6 DEF Requests, Waiting, Stopping
<1> QED BY <1>3, <1>4, <1>5, <1>6 DEF Accept

\* The marker goes out while no other is in the channel.
LEMMA ServerSendsKeepsRequests ==
  ASSUME SupervisionAssumption, TypeOK, Requests, ServerSends
  PROVE  Requests'
<1>1. /\ UNCHANGED <<committed, pc, exited>>
      /\ client \in [Client -> {"idle", "waiting", "accepted", "rejected", "reset"}]
      /\ queue \in Seq(Message) /\ Len(queue) \in Nat
  BY DEF ServerSends, loopVars, TypeOK
<1>2. \A c \in Client : c \in committed => client[c] # "waiting"
  BY DEF Requests, Waiting, ServerSends
<1>3. CASE server = "send" /\ Answer("rejected") /\ UNCHANGED queue
  BY <1>1, <1>2, <1>3 DEF Requests, Answer, Waiting, Stopping
<1>4. CASE /\ server = "send" /\ ~Stopping("server") /\ Open /\ queue' = Append(queue, "marker")
           /\ server' = "wait" /\ UNCHANGED <<serving, client, reply>>
  <2>1. ~exited /\ pc \notin {"server", "done"}
    BY <1>4 DEF Stopping, Open
  <2>2. \A i \in 1..Len(queue) : queue[i] # "marker"
    BY <1>4 DEF Requests, Waiting
  <2>3. Len(queue') = Len(queue) + 1 /\ \A i \in 1..Len(queue) : queue'[i] = queue[i]
    BY <1>1, <1>4
  <2>4. \A i \in 1..Len(queue') : queue'[i] = "marker" => i = Len(queue) + 1
    BY <1>1, <2>2, <2>3
  <2> QED BY <1>1, <1>2, <1>4, <2>1, <2>4 DEF Requests, Waiting
<1>5. CASE server = "failed" /\ Close /\ UNCHANGED reply /\ queue' = queue
  BY <1>1, <1>2, <1>5 DEF Requests, Close, Waiting
<1>6. CASE /\ server = "failed" /\ ~Stopping("server") /\ Open /\ queue' = Append(queue, "failed")
           /\ Close /\ UNCHANGED reply
  <2>1. ~exited /\ pc \notin {"server", "done"}
    BY <1>6 DEF Stopping, Open
  <2>2. \A i \in 1..Len(queue) : queue[i] # "marker"
    BY <1>6, <2>1 DEF Requests, Waiting
  <2>3. /\ Len(queue') = Len(queue) + 1 /\ \A i \in 1..Len(queue) : queue'[i] = queue[i]
        /\ queue'[Len(queue) + 1] = "failed"
    BY <1>1, <1>6
  <2>4. \A i \in 1..Len(queue') : queue'[i] # "marker"
    BY <1>1, <2>2, <2>3
  <2> QED BY <1>1, <1>2, <1>6, <2>1, <2>4 DEF Requests, Close, Waiting
<1> QED BY <1>3, <1>4, <1>5, <1>6 DEF ServerSends

\* A client is answered only when its marker is no longer in the channel, or
\* the run is stopping and it will be refused there too.
LEMMA AwaitReplyKeepsRequests ==
  ASSUME SupervisionAssumption, TypeOK, Requests, AwaitReply
  PROVE  Requests'
<1>1. /\ UNCHANGED <<queue, committed, pc, exited>> /\ server \in Waiting /\ serving \in Client
      /\ client[serving] = "waiting"
      /\ client \in [Client -> {"idle", "waiting", "accepted", "rejected", "reset"}]
  BY DEF AwaitReply, loopVars, TypeOK, Requests, Waiting
<1>2. CASE ~Answer("accepted") /\ ~Answer("rejected")
  BY <1>1, <1>2 DEF AwaitReply, Requests, Waiting
<1>3. ASSUME reply # "none" \/ ~Open
      PROVE  \A i \in 1..Len(queue) : queue[i] # "marker"
  BY <1>1, <1>3 DEF Requests, Open
<1>4. CASE reply = "yes" /\ Answer("accepted")
  BY <1>1, <1>3, <1>4 DEF Requests, Answer, Waiting
<1>5. CASE reply \in {"no", "none"} /\ (reply = "no" \/ ~Open) /\ Answer("rejected")
  BY <1>1, <1>3, <1>5 DEF Requests, Answer, Waiting
<1>6. CASE exited /\ Answer("rejected")
  <2>1. \A i \in 1..Len(queue) : queue[i] = "marker" =>
          \A j \in 1..Len(queue) : queue[j] = "marker" => i = j
    BY DEF Requests
  <2> QED BY <1>1, <1>6, <2>1 DEF Requests, Answer, Waiting
<1> QED BY <1>2, <1>4, <1>5, <1>6 DEF AwaitReply, Answer, Stopping

-----------------------------------------------------------------------------
(* What the producers do.                                                  *)

\* A producer sends nothing but a marker's or sends nothing: the reader sends
\* the chunk it has taken, others something else, and whoever finds the
\* channel closed ends.
Produces ==
  /\ UNCHANGED <<processVars, taken, controlVars, pc, loopVars>>
  /\ reader' \in {"read", "send", "failed", "eof", "done"}
  /\ typist' \in 0..MaxLines /\ observer' \in {"ready", "done"}
  /\ watcher' \in {"idle", "send", "done"}
  /\ \/ queue' = queue /\ (reader' = reader \/ (~Open /\ reader' = "done"))
     \/ /\ Open /\ Len(queue) < Capacity /\ queue' = Append(queue, "output")
        /\ reader = "send" /\ reader' \in {"read", "failed"}
     \/ /\ Open /\ Len(queue) < Capacity
        /\ \E m \in Message \ {"marker", "output"} : queue' = Append(queue, m)
        /\ reader' = reader \/ (reader \in {"failed", "eof"} /\ reader' \in {"eof", "done"})

\* Every producer is of that form.
LEMMA ProducersProduce ==
  ASSUME SupervisionAssumption, TypeOK, ReaderSends \/ Typing \/ Sampling \/ Watching
  PROVE  Produces
<1>0. /\ MaxLines \in Nat /\ typist \in 0..MaxLines
      /\ reader \in {"read", "send", "failed", "eof", "done"}
      /\ observer \in {"ready", "done"} /\ watcher \in {"idle", "send", "done"}
  BY DEF SupervisionAssumption, TypeOK
<1>1. CASE ReaderSends
  <2>0. UNCHANGED <<processVars, taken, typist, observer, watcher, controlVars, pc, loopVars>>
    BY <1>1 DEF ReaderSends
  <2>1. CASE reader = "send"
    BY <1>0, <1>1, <2>0, <2>1 DEF ReaderSends, Sends, Produces, Outcomes
  <2>2. CASE reader = "failed"
    BY <1>0, <1>1, <2>0, <2>2 DEF ReaderSends, Sends, Produces, Message
  <2>3. CASE reader = "eof"
    BY <1>0, <1>1, <2>0, <2>3 DEF ReaderSends, Sends, Produces, Message
  <2> QED BY <1>1, <2>1, <2>2, <2>3 DEF ReaderSends
<1>2. CASE Typing
  <2>1. typist' \in 0..MaxLines
    BY <1>0, <1>2 DEF Typing, Sends
  <2> QED BY <1>0, <1>2, <2>1 DEF Typing, Sends, Produces, Message
<1>3. CASE Sampling
  BY <1>0, <1>3 DEF Sampling, SendsUntilStopped, Sends, Produces, Message
<1>4. CASE Watching
  BY <1>0, <1>4 DEF Watching, SendsUntilStopped, Sends, Produces, Message
<1> QED BY <1>1, <1>2, <1>3, <1>4

-----------------------------------------------------------------------------
(* Types.                                                                  *)

\* Steps of the processes, of the user and of the reader's reads.
LEMMA OutsideTyped ==
  ASSUME SupervisionAssumption, TypeOK, Fork \/ Leave \/ Reap \/ Expire \/ Interrupt \/ ReadTerminal
  PROVE  TypeOK' /\ UNCHANGED <<queue, controlVars, pc, exited>>
<1> USE DEF processVars, threadVars, controlVars, loopVars
<1>1. CASE Fork
  BY <1>1 DEF Fork, TypeOK, Group, Holders
<1>2. CASE Leave \/ Reap
  <2>1. PICK p : Dies(p)
    BY <1>2 DEF Leave, Reap
  <2> QED BY <2>1 DEF Dies, TypeOK
<1>3. CASE Expire
  BY <1>3 DEF Expire, TypeOK, Deadline
<1>4. CASE Interrupt
  <2>1. signals' \in 0..MaxSignals
    BY <1>4 DEF Interrupt, TypeOK, SupervisionAssumption
  <2> QED BY <1>4, <2>1 DEF Interrupt, TypeOK
<1>5. CASE ReadTerminal
  <2>1. taken' \in 0..MaxChunks
    BY <1>5 DEF ReadTerminal, TypeOK, SupervisionAssumption
  <2> QED BY <1>5, <2>1 DEF ReadTerminal, TypeOK
<1> QED BY <1>1, <1>2, <1>3, <1>4, <1>5

\* A send into a channel with room.
LEMMA RoomForOne ==
  ASSUME SupervisionAssumption, TypeOK, Len(queue) < Capacity, NEW m \in Message
  PROVE  Append(queue, m) \in Seq(Message) /\ Len(Append(queue, m)) <= Capacity
BY DEF SupervisionAssumption, TypeOK

\* A producer's step keeps the types.
LEMMA ProducersTyped ==
  ASSUME SupervisionAssumption, TypeOK, Produces
  PROVE  TypeOK'
<1>1. queue' \in Seq(Message) /\ Len(queue') <= Capacity
  BY RoomForOne DEF Produces, TypeOK, Message
<1> QED BY <1>1 DEF Produces, TypeOK, processVars, controlVars, loopVars

\* So does one of the control server or of a client.
LEMMA ControlTyped ==
  ASSUME SupervisionAssumption, TypeOK, Requests, Control \/ \E c \in Client : Ask(c)
  PROVE  TypeOK'
<1> USE DEF processVars, threadVars, loopVars
<1>1. CASE \E c \in Client : Ask(c)
  BY <1>1 DEF Ask, TypeOK
<1>2. CASE Accept
  BY <1>2 DEF Accept, Close, TypeOK
<1>3. CASE ServerSends
  <2>1. queue' \in Seq(Message) /\ Len(queue') <= Capacity
    BY <1>3, RoomForOne DEF ServerSends, TypeOK, Message
  <2> QED BY <1>3, <2>1 DEF ServerSends, Answer, Close, TypeOK
<1>4. CASE AwaitReply
  BY <1>4 DEF AwaitReply, Answer, TypeOK
<1> QED BY <1>1, <1>2, <1>3, <1>4 DEF Control

\* Handling an observation, wherever the coordinator goes on.
LEMMA TakeTyped ==
  ASSUME SupervisionAssumption, TypeOK, Take, committed' \subseteq Client, pc' \in Places
  PROVE  TypeOK'
<1>1. /\ queue' \in Seq(Message) /\ Len(queue') <= Capacity /\ Head(queue) \in Message
  BY DEF Take, TypeOK, SupervisionAssumption
<1>2. /\ UNCHANGED <<alive, signals, reader, taken, typist, observer, watcher, server, serving,
                     client, exited, abandoned, stopped>>
      /\ Handle(Head(queue))
  BY DEF Take, threadVars
<1>3. /\ eof' \in BOOLEAN /\ interrupted' \in BOOLEAN /\ fatal' \in BOOLEAN
      /\ grace' \in Deadline /\ drain' \in Deadline /\ killed' \in BOOLEAN
      /\ reply' \in {"none", "yes", "no"} /\ doomed' \subseteq alive \cap Group
      /\ recorded' \in 0..OutputLimit
  BY <1>1, <1>2, HandleTypes
<1> QED BY <1>1, <1>2, <1>3 DEF TypeOK

-----------------------------------------------------------------------------
(* What the coordinator does.                                              *)

\* The places after the joins of the output.
Joined == {"observer", "watcher", "final", "server", "done"}

\* The coordinator handles an observation: in its loop, while it waits for
\* the group to be empty, or in one of the drains.
Handles ==
  /\ Take /\ pc' \in {"poll", "kill", "ready", "output"}
  /\ pc' \notin {"recv", "poll", "wait"} => exited

\* It does anything else but to finish; it passes the joins of the output only
\* when that is complete or was given up, and takes nobody for gone who is not.
Proceeds ==
  /\ TypeOK'
  /\ UNCHANGED <<alive, queue, threadVars, controlVars, recorded>>
  /\ exited => exited'
  /\ pc' \notin {"recv", "poll", "wait"} => exited'
  /\ pc' \in {"server", "done"} => queue = <<>>
  /\ fatal => fatal'
  /\ abandoned => abandoned'
  /\ UNCHANGED stopped \/ alive \cap Group = {}
  /\ pc' \in Joined => pc \in Joined \/ abandoned \/ (reader = "done" /\ queue = <<>>)

\* Errors are kept, and only the group is killed.
LEMMA ErrorsAreKept ==
  ASSUME TypeOK
  PROVE  /\ Warn => fatal' \in BOOLEAN /\ (fatal => fatal')
         /\ Fail => fatal' = TRUE /\ doomed' \subseteq alive \cap Group
         /\ \A ok \in BOOLEAN : KillGroup(ok) => doomed' \subseteq alive \cap Group
<1>0. doomed \subseteq alive \cap Group /\ "root" \in Group /\ fatal \in BOOLEAN
  BY DEF TypeOK, Group
<1>1. ASSUME Warn
      PROVE  fatal' \in BOOLEAN /\ (fatal => fatal')
  <2>1. PICK ok \in BOOLEAN : fatal' = (fatal \/ ~ok)
    BY <1>1 DEF Warn, Outcomes
  <2> QED BY <1>0, <2>1
<1>2. Fail => fatal' = TRUE /\ doomed' \subseteq alive \cap Group
  BY <1>0 DEF Fail, KillGroup, Outcomes
<1>3. \A ok \in BOOLEAN : KillGroup(ok) => doomed' \subseteq alive \cap Group
  BY <1>0 DEF KillGroup
<1> QED BY <1>1, <1>2, <1>3

\* The polls of the child and of the deadlines.
LEMMA PollsProceed ==
  ASSUME SupervisionAssumption, TypeOK, Requests, ChildExits \/ ChildLives \/ PollDrain
  PROVE  Proceeds
<1> USE DEF processVars, controlVars, threadVars, loopVars, Goto
<1>0. /\ doomed \subseteq alive \cap Group /\ "root" \in Group
      /\ exited \in BOOLEAN /\ eof \in BOOLEAN /\ abandoned \in BOOLEAN /\ fatal \in BOOLEAN
      /\ drain \in Deadline /\ grace \in Deadline
  BY DEF TypeOK, Group
<1>1. CASE ChildExits
  <2>1. UNCHANGED <<processVars, queue, threadVars, controlVars, eof, interrupted, fatal, killed,
                    stopped, recorded, abandoned>>
    BY <1>1 DEF ChildExits
  <2>2. exited' = TRUE /\ grace' = "none" /\ drain' \in Deadline /\ pc' \in {"group", "recv"}
    BY <1>0, <1>1 DEF ChildExits, NextTurn, Deadline
  <2> QED BY <1>0, <2>1, <2>2 DEF Proceeds, TypeOK, Joined, Places, Deadline
<1>2. CASE ChildLives
  <2>1. /\ UNCHANGED <<alive, signals, queue, threadVars, controlVars, exited, eof, abandoned,
                       interrupted, drain, killed, stopped, recorded>>
        /\ pc' \in {"recv", "wait"}
    BY <1>2 DEF ChildLives
  <2>2. \/ UNCHANGED <<fatal, doomed>> /\ grace' \in {grace, "none"}
        \/ KillGroup(TRUE) /\ UNCHANGED fatal /\ grace' = "none"
        \/ Fail /\ grace' \in {grace, "none"}
    BY <1>2 DEF ChildLives
  <2>3. grace' \in Deadline
    BY <1>0, <2>2 DEF Deadline
  <2>4. fatal' \in BOOLEAN /\ (fatal => fatal')
    BY <1>0, <2>2, ErrorsAreKept
  <2>5. doomed' \subseteq alive \cap Group
    BY <1>0, <2>2, ErrorsAreKept
  <2> QED BY <1>0, <2>1, <2>3, <2>4, <2>5 DEF Proceeds, TypeOK, Joined, Places
<1>3. CASE PollDrain
  <2>1. /\ UNCHANGED <<alive, signals, queue, threadVars, controlVars, exited, eof, interrupted,
                       grace, stopped, recorded>>
        /\ pc' \in {"group", "recv"} /\ exited
    BY <1>3 DEF PollDrain, NextTurn
  <2>2. \/ UNCHANGED <<killed, drain, abandoned, fatal, doomed>>
        \/ drain' = "none" /\ abandoned' = TRUE /\ Warn /\ UNCHANGED <<killed, doomed>>
        \/ /\ killed' = TRUE /\ drain' = "armed" /\ Warn /\ UNCHANGED abandoned
           /\ \E ok \in BOOLEAN : KillGroup(ok)
    BY <1>3 DEF PollDrain, Outcomes
  <2>3. /\ drain' \in Deadline /\ killed' \in BOOLEAN /\ abandoned' \in BOOLEAN
        /\ abandoned => abandoned'
    BY <1>0, <2>2 DEF Deadline, TypeOK
  <2>4. fatal' \in BOOLEAN /\ (fatal => fatal')
    BY <1>0, <2>2, ErrorsAreKept
  <2>5. doomed' \subseteq alive \cap Group
    BY <1>0, <2>2, ErrorsAreKept
  <2> QED BY <1>0, <2>1, <2>3, <2>4, <2>5 DEF Proceeds, TypeOK, Joined, Places
<1> QED BY <1>1, <1>2, <1>3

\* The end of supervise: the group, and the joins.
LEMMA EndProceeds ==
  ASSUME SupervisionAssumption, TypeOK, Requests,
         TerminateGroup \/ AwaitGroup \/ JoinProducers \/ JoinServer
  PROVE  Proceeds
<1> USE DEF processVars, controlVars, threadVars, loopVars, Goto
<1>0. doomed \subseteq alive \cap Group /\ fatal \in BOOLEAN /\ grace \in Deadline /\ stopped \in BOOLEAN
  BY DEF TypeOK
<1>1. CASE TerminateGroup
  <2>1. /\ UNCHANGED <<alive, signals, queue, threadVars, controlVars, exited, eof, abandoned,
                       interrupted, drain, killed, recorded>>
        /\ pc' \in {"ready", "kill"} /\ exited
    BY <1>1 DEF TerminateGroup, Requests
  <2>2. \/ alive \cap Group = {} /\ stopped' = TRUE /\ UNCHANGED <<doomed, grace, fatal>>
        \/ KillGroup(TRUE) /\ Warn /\ grace' = "armed" /\ UNCHANGED stopped
        \/ fatal' = TRUE /\ UNCHANGED <<stopped, doomed, grace>>
    BY <1>1 DEF TerminateGroup
  <2>3. /\ grace' \in Deadline /\ stopped' \in BOOLEAN
        /\ UNCHANGED stopped \/ alive \cap Group = {}
    BY <1>0, <2>2 DEF Deadline
  <2>4. fatal' \in BOOLEAN /\ (fatal => fatal')
    BY <1>0, <2>2, ErrorsAreKept
  <2>5. doomed' \subseteq alive \cap Group
    BY <1>0, <2>2, ErrorsAreKept
  <2> QED BY <2>1, <2>3, <2>4, <2>5 DEF Proceeds, TypeOK, Joined, Places
<1>2. CASE AwaitGroup
  <2>1. /\ UNCHANGED <<processVars, queue, threadVars, controlVars, exited, eof, abandoned,
                       interrupted, grace, drain, killed, recorded>>
        /\ pc' = "ready" /\ exited
    BY <1>2 DEF AwaitGroup, Requests
  <2>2. \/ alive \cap Group = {} /\ stopped' = TRUE /\ UNCHANGED fatal
        \/ fatal' = TRUE /\ UNCHANGED stopped
    BY <1>2 DEF AwaitGroup
  <2>3. fatal' \in BOOLEAN /\ (fatal => fatal')
    BY <1>0, <2>2
  <2>4. stopped' \in BOOLEAN /\ (UNCHANGED stopped \/ alive \cap Group = {})
    BY <1>0, <2>2
  <2> QED BY <2>1, <2>3, <2>4 DEF Proceeds, TypeOK, Joined, Places
<1>3. CASE JoinProducers
  BY <1>3 DEF JoinProducers, Requests, Proceeds, TypeOK, Joined, Places
<1>4. CASE JoinServer
  BY <1>4 DEF JoinServer, Requests, Proceeds, TypeOK, Joined, Places
<1> QED BY <1>1, <1>2, <1>3, <1>4

\* Every step of the coordinator handles an observation, proceeds or finishes.
LEMMA CoordinatorEffects ==
  ASSUME SupervisionAssumption, TypeOK, Requests, Coordinate
  PROVE  Handles \/ Proceeds \/ Finish
<1> USE DEF Goto
<1>1. CASE ChildExits \/ ChildLives \/ PollDrain
  BY <1>1, PollsProceed
<1>2. CASE TerminateGroup \/ AwaitGroup \/ JoinProducers \/ JoinServer
  BY <1>2, EndProceeds
<1>3. CASE (Receive \/ HandleMeanwhile \/ DrainReady \/ JoinOutput) /\ Take
  <2>1. pc \in {"recv", "kill", "ready", "output"}
        /\ (pc' = "poll" \/ pc' = pc \/ queue = <<>>)
    BY <1>3 DEF Receive, HandleMeanwhile, DrainReady, JoinOutput, Miss
  <2>2. queue # <<>> /\ (pc = "recv" => pc' = "poll")
    BY <1>3 DEF Receive, Take, HandleMeanwhile, DrainReady, JoinOutput
  <2> QED BY <1>3, <2>1, <2>2 DEF Handles, Requests
<1>4. CASE (Receive \/ DrainReady \/ JoinOutput) /\ Miss
  <2>1. /\ UNCHANGED <<processVars, queue, threadVars, controlVars, loopVars>> /\ queue = <<>>
        /\ \/ pc = "recv" /\ pc' = "poll"
           \/ pc = "ready" /\ (pc' = pc \/ pc' = "output" \/ (pc' = "observer" /\ abandoned))
           \/ pc = "output" /\ (pc' = pc \/ (pc' = "observer" /\ reader = "done"))
    BY <1>4 DEF Receive, DrainReady, JoinOutput, Miss
  <2> QED BY <2>1 DEF Requests, Proceeds, TypeOK, Joined, Places, processVars, controlVars, threadVars,
                      loopVars
<1> QED BY <1>1, <1>2, <1>3, <1>4
  DEF Coordinate, Receive, HandleMeanwhile, DrainReady, JoinOutput

-----------------------------------------------------------------------------
(* The output.                                                             *)

\* The chunks that are in the channel.
Outputs(q) == {i \in 1..Len(q) : q[i] = "output"}

\* There are finitely many.
LEMMA OutputsFinite ==
  ASSUME NEW q \in Seq(Message)
  PROVE  IsFiniteSet(Outputs(q)) /\ Cardinality(Outputs(q)) \in Nat
<1>1. IsFiniteSet(1..Len(q))
  BY FS_Interval
<1>2. IsFiniteSet(Outputs(q))
  BY <1>1, FS_Subset DEF Outputs
<1> QED BY <1>2, FS_CardinalityType

\* A send adds one when it is a chunk.
LEMMA OutputsSent ==
  ASSUME NEW q \in Seq(Message), NEW m \in Message
  PROVE  Cardinality(Outputs(Append(q, m))) = Cardinality(Outputs(q)) + (IF m = "output" THEN 1 ELSE 0)
<1>1. CASE m = "output"
  <2>1. Outputs(Append(q, m)) = Outputs(q) \cup {Len(q) + 1} /\ Len(q) + 1 \notin Outputs(q)
    BY <1>1 DEF Outputs
  <2> QED BY <1>1, <2>1, OutputsFinite, FS_AddElement
<1>2. CASE m # "output"
  <2>1. Outputs(Append(q, m)) = Outputs(q)
    BY <1>2 DEF Outputs
  <2> QED BY <1>2, <2>1, OutputsFinite
<1> QED BY <1>1, <1>2

\* The receiver takes one away when it is a chunk.
LEMMA OutputsTaken ==
  ASSUME NEW q \in Seq(Message), q # <<>>
  PROVE  Cardinality(Outputs(q)) = Cardinality(Outputs(Tail(q))) + (IF Head(q) = "output" THEN 1 ELSE 0)
<1> DEFINE rest == Outputs(q) \ {1}
           f    == [i \in rest |-> i - 1]
<1>1. /\ Tail(q) \in Seq(Message) /\ Len(q) \in Nat \ {0} /\ Len(Tail(q)) = Len(q) - 1
      /\ \A i \in 1..Len(Tail(q)) : Tail(q)[i] = q[i + 1]
      /\ Head(q) = q[1]
  OBVIOUS
<1>2. rest \subseteq Nat /\ \A i \in rest : i - 1 \in Outputs(Tail(q))
  BY <1>1 DEF Outputs
<1>3. \A i \in Outputs(Tail(q)) : i + 1 \in rest
  BY <1>1 DEF Outputs
<1>4. f \in Bijection(rest, Outputs(Tail(q)))
  <2>1. f \in [rest -> Outputs(Tail(q))]
    BY <1>2
  <2>2. \A a, b \in rest : f[a] = f[b] => a = b
    BY <1>2
  <2>3. \A t \in Outputs(Tail(q)) : \E a \in rest : f[a] = t
    <3> SUFFICES ASSUME NEW t \in Outputs(Tail(q)) PROVE \E a \in rest : f[a] = t
      OBVIOUS
    <3>1. t + 1 \in rest /\ t \in Nat /\ f[t + 1] = t
      BY <1>3 DEF Outputs
    <3> QED BY <3>1
  <2> QED BY <2>1, <2>2, <2>3, Zenon DEF Bijection, Injection, Surjection, IsInjective
<1>5. IsFiniteSet(Outputs(q)) /\ IsFiniteSet(rest) /\ Cardinality(Outputs(q)) \in Nat
  BY OutputsFinite, FS_RemoveElement
<1>6. Cardinality(Outputs(Tail(q))) = Cardinality(rest)
  BY <1>4, <1>5, FS_Bijection DEF ExistsBijection
<1>7. Cardinality(rest) = IF 1 \in Outputs(q) THEN Cardinality(Outputs(q)) - 1 ELSE Cardinality(Outputs(q))
  BY <1>5, FS_RemoveElement
<1>8. 1 \in Outputs(q) <=> Head(q) = "output"
  BY <1>1 DEF Outputs
<1> QED BY <1>5, <1>6, <1>7, <1>8

\* As long as nothing failed and the output was not given up, each chunk that
\* was read is recorded, in the channel or about to be sent; when the output
\* has been joined nothing is on the way.
Counted ==
  /\ ~fatal /\ ~abandoned =>
       taken = recorded + Cardinality(Outputs(queue)) + (IF reader = "send" THEN 1 ELSE 0)
  /\ pc \in Joined /\ ~abandoned => reader = "done" /\ Outputs(queue) = {}

\* Handling an observation keeps errors, and records a chunk or fails.
LEMMA HandleCounts ==
  ASSUME TypeOK, NEW m \in Message, Handle(m), ~fatal'
  PROVE  /\ ~fatal
         /\ m = "output" => recorded' = recorded + 1
         /\ m # "output" => recorded' = recorded
<1>1. CASE m = "output"
  <2>1. HandleOutput
    BY <1>1 DEF Handle
  <2>2. CASE ~fatal /\ recorded' = recorded + 1
    BY <1>1, <2>2
  <2>3. CASE fatal' = TRUE
    BY <2>3
  <2>4. CASE fatal /\ fatal' = fatal
    BY <2>4
  <2> QED BY <2>1, <2>2, <2>3, <2>4 DEF HandleOutput, Fail
<1>2. CASE m # "output"
  <2>1. HandleEof \/ HandleFailure \/ HandleRecord \/ HandleSignal \/ HandleMarker
    BY <1>2 DEF Handle
  <2>2. recorded' = recorded
    BY <2>1 DEF HandleEof, HandleFailure, HandleRecord, HandleSignal, HandleMarker
  <2>3. HandleSignal => ~fatal
    BY DEF HandleSignal
  <2>4. HandleEof \/ HandleFailure \/ HandleRecord \/ HandleMarker => ~fatal
    BY DEF HandleEof, HandleFailure, HandleRecord, HandleMarker, Fail
  <2>5. ~fatal
    BY <2>1, <2>3, <2>4
  <2> QED BY <1>2, <2>2, <2>5
<1> QED BY <1>1, <1>2

\* A chunk that is taken from the channel is recorded.
LEMMA TakeCounts ==
  ASSUME SupervisionAssumption, TypeOK, Counted, Take, pc' \notin Joined
  PROVE  Counted'
<1>1. /\ UNCHANGED <<reader, taken, abandoned>> /\ queue' = Tail(queue) /\ queue # <<>>
      /\ Handle(Head(queue)) /\ queue \in Seq(Message) /\ Head(queue) \in Message
      /\ taken \in Nat /\ recorded \in Nat /\ Tail(queue) \in Seq(Message)
  BY DEF Take, TypeOK, threadVars
<1>2. Cardinality(Outputs(queue)) = Cardinality(Outputs(queue')) + (IF Head(queue) = "output" THEN 1 ELSE 0)
  BY <1>1, OutputsTaken
<1>3. Cardinality(Outputs(queue')) \in Nat
  BY <1>1, OutputsFinite
<1>4. ASSUME ~fatal', ~abandoned'
      PROVE  taken' = recorded' + Cardinality(Outputs(queue')) + (IF reader' = "send" THEN 1 ELSE 0)
  <2>1. ~fatal /\ recorded' = recorded + (IF Head(queue) = "output" THEN 1 ELSE 0)
    BY <1>1, <1>4, HandleCounts
  <2> QED BY <1>1, <1>2, <1>3, <1>4, <2>1 DEF Counted
<1> QED BY <1>4 DEF Counted

\* A send of anything, by anybody.
LEMMA SendCounts ==
  ASSUME TypeOK, Counted, NEW m \in Message, Open, queue' = Append(queue, m),
         UNCHANGED <<taken, pc, fatal, abandoned, recorded>>,
         IF m = "output" THEN reader = "send" /\ reader' \in {"read", "failed"}
         ELSE reader' = reader \/ (reader \in {"failed", "eof"} /\ reader' \in {"eof", "done"})
  PROVE  ~(pc \in Joined) \/ m # "output" \/ abandoned => Counted'
<1>1. /\ Cardinality(Outputs(queue')) = Cardinality(Outputs(queue)) + (IF m = "output" THEN 1 ELSE 0)
      /\ Cardinality(Outputs(queue)) \in Nat /\ taken \in Nat /\ recorded \in Nat
  BY OutputsSent, OutputsFinite DEF TypeOK
<1>2. m # "output" => Outputs(queue') = Outputs(queue)
  BY DEF TypeOK, Outputs
<1>3. CASE m = "output"
  BY <1>1, <1>3 DEF Counted
<1>4. CASE m # "output"
  BY <1>1, <1>2, <1>4 DEF Counted
<1> QED BY <1>3, <1>4

\* Only the reader sends chunks, and it has none left once it was joined.
LEMMA ProducersCount ==
  ASSUME TypeOK, Counted, Requests, Produces
  PROVE  Counted'
<1>1. UNCHANGED <<taken, pc, fatal, abandoned, recorded>>
  BY DEF Produces, loopVars
<1>2. CASE queue' = queue /\ reader' = reader
  BY <1>1, <1>2 DEF Counted
<1>3. CASE queue' = queue /\ ~Open /\ reader' = "done"
  BY <1>1, <1>3 DEF Counted, Open, Joined
<1>4. CASE Open /\ queue' = Append(queue, "output") /\ reader = "send" /\ reader' \in {"read", "failed"}
  <2>1. pc \notin Joined \/ abandoned
    BY <1>4 DEF Counted
  <2> QED BY <1>1, <1>4, <2>1, SendCounts DEF Message
<1>5. CASE /\ Open /\ \E m \in Message \ {"marker", "output"} : queue' = Append(queue, m)
           /\ reader' = reader \/ (reader \in {"failed", "eof"} /\ reader' \in {"eof", "done"})
  BY <1>1, <1>5, SendCounts
<1> QED BY <1>2, <1>3, <1>4, <1>5 DEF Produces

\* The control server sends no chunk.
LEMMA ControlCounts ==
  ASSUME TypeOK, Counted, Control \/ \E c \in Client : Ask(c)
  PROVE  Counted'
<1>1. UNCHANGED <<taken, reader, pc, fatal, abandoned, recorded>>
  BY DEF Control, Ask, Accept, ServerSends, AwaitReply, loopVars, threadVars
<1>2. CASE queue' = queue
  BY <1>1, <1>2 DEF Counted
<1>3. CASE Open /\ \E m \in {"marker", "failed"} : queue' = Append(queue, m)
  BY <1>1, <1>3, SendCounts DEF Message
<1> QED BY <1>2, <1>3 DEF Control, Ask, Accept, ServerSends, AwaitReply

\* A chunk that is read is about to be sent.
LEMMA OutsideCounts ==
  ASSUME TypeOK, Counted, Fork \/ Leave \/ Reap \/ Expire \/ Interrupt \/ ReadTerminal
  PROVE  Counted'
<1>1. UNCHANGED <<queue, pc, fatal, abandoned, recorded>>
  BY DEF Fork, Leave, Reap, Dies, Expire, Interrupt, ReadTerminal, loopVars
<1>2. CASE UNCHANGED <<reader, taken>>
  BY <1>1, <1>2 DEF Counted
<1>3. CASE ReadTerminal
  <2>1. Cardinality(Outputs(queue)) \in Nat /\ taken \in Nat /\ recorded \in Nat
    BY OutputsFinite DEF TypeOK
  <2>2. \/ reader = "read" /\ taken' = taken + 1 /\ reader' = "send"
        \/ reader = "read" /\ taken' = taken /\ reader' \in {"eof", "failed"}
    BY <1>3 DEF ReadTerminal
  <2> QED BY <1>1, <2>1, <2>2 DEF Counted
<1> QED BY <1>2, <1>3 DEF Fork, Leave, Reap, Dies, Expire, Interrupt, threadVars

\* The joins of the output are passed when nothing is on the way.
LEMMA ProceedsCounts ==
  ASSUME TypeOK, Counted, Proceeds
  PROVE  Counted'
<1>1. UNCHANGED <<queue, reader, taken, recorded>> /\ (fatal => fatal') /\ (abandoned => abandoned')
  BY DEF Proceeds, threadVars
<1>2. queue = <<>> => Outputs(queue) = {}
  BY DEF Outputs
<1>3. pc' \in Joined => pc \in Joined \/ abandoned \/ (reader = "done" /\ queue = <<>>)
  BY DEF Proceeds
<1> QED BY <1>1, <1>2, <1>3 DEF Counted

-----------------------------------------------------------------------------
(* The invariant.                                                          *)

\* Once the group was seen to be empty nobody joins it again: only its own
\* members start processes in it.
Alone == stopped => alive \cap Group = {}

IInv == TypeOK /\ Requests /\ Counted /\ Alone

\* It holds when the threads have been spawned.
LEMMA InitHolds ==
  ASSUME SupervisionAssumption, Init
  PROVE  IInv
<1>1. TypeOK
  <2>1. queue \in Seq(Message) /\ Len(queue) <= Capacity
    BY DEF SupervisionAssumption, Init
  <2>2. client \in [Client -> {"idle", "waiting", "accepted", "rejected", "reset"}]
    BY DEF Init
  <2>3. /\ signals \in 0..MaxSignals /\ taken \in 0..MaxChunks /\ typist \in 0..MaxLines
        /\ recorded \in 0..OutputLimit
    BY DEF SupervisionAssumption, Init
  <2>4. alive \subseteq Group \cup Holders /\ doomed \subseteq alive \cap Group
    BY DEF Init, Group, Holders
  <2> QED BY <2>1, <2>2, <2>3, <2>4 DEF Init, TypeOK, Places, Deadline
<1>2. Requests
  BY DEF Init, Requests, Waiting
<1>3. Outputs(queue) = {}
  BY DEF Init, Outputs
<1>4. Cardinality(Outputs(queue)) = 0
  BY <1>3, FS_EmptySet
<1>5. Counted
  BY <1>4 DEF Init, Counted, Joined
<1> QED BY <1>1, <1>2, <1>5 DEF Init, IInv, Alone

\* The processes, the user, the clock and the reader's reads.
LEMMA OutsideKeeps ==
  ASSUME SupervisionAssumption, IInv,
         Fork \/ Leave \/ Reap \/ Expire \/ Interrupt \/ ReadTerminal
  PROVE  IInv'
<1> USE DEF IInv
<1>1. TypeOK' /\ UNCHANGED <<queue, controlVars, pc, exited>>
  BY OutsideTyped
<1>2. Requests'
  BY <1>1, QuietKeepsRequests DEF Requests
<1>3. UNCHANGED stopped /\ (alive \cap Group = {} => alive' \cap Group = {})
  <2>1. CASE Fork
    BY <2>1 DEF Fork, loopVars
  <2>2. CASE Leave \/ Reap
    BY <2>2 DEF Leave, Reap, Dies, loopVars
  <2>3. CASE Expire \/ Interrupt \/ ReadTerminal
    BY <2>3 DEF Expire, Interrupt, ReadTerminal, processVars, loopVars
  <2> QED BY <2>1, <2>2, <2>3
<1> QED BY <1>1, <1>2, <1>3, OutsideCounts DEF Alone

\* The producers.
LEMMA ProducersKeep ==
  ASSUME SupervisionAssumption, IInv, ReaderSends \/ Typing \/ Sampling \/ Watching
  PROVE  IInv'
<1> USE DEF IInv
<1>1. Produces
  BY ProducersProduce
<1>2. UNCHANGED <<controlVars, pc, exited, alive, stopped>>
  BY <1>1 DEF Produces, loopVars, processVars
<1>3. queue' = queue => Requests'
  BY <1>2, QuietKeepsRequests DEF Requests
<1>4. Open /\ (\E m \in Message \ {"marker"} : queue' = Append(queue, m)) => Requests'
  BY <1>2, SendKeepsRequests
<1>5. "output" \in Message \ {"marker"}
  BY DEF Message
<1>6. \/ queue' = queue
      \/ Open /\ \E m \in Message \ {"marker"} : queue' = Append(queue, m)
  BY <1>1, <1>5 DEF Produces
<1>7. Requests'
  BY <1>3, <1>4, <1>6
<1> QED BY <1>1, <1>2, <1>7, ProducersTyped, ProducersCount DEF Alone

\* The control server and its clients.
LEMMA ControlKeeps ==
  ASSUME SupervisionAssumption, IInv, Control \/ \E c \in Client : Ask(c)
  PROVE  IInv'
<1> USE DEF IInv
<1>1. Requests'
  BY AskKeepsRequests, AcceptKeepsRequests, ServerSendsKeepsRequests, AwaitReplyKeepsRequests
     DEF Control
<1>2. UNCHANGED <<alive, stopped>>
  BY DEF Control, Ask, Accept, ServerSends, AwaitReply, processVars, loopVars
<1> QED BY <1>1, <1>2, ControlTyped, ControlCounts DEF Alone

\* The coordinator.
LEMMA CoordinateKeeps ==
  ASSUME SupervisionAssumption, IInv, Coordinate
  PROVE  IInv'
<1> USE DEF IInv
<1>1. CASE Handles
  <2>1. /\ Take /\ pc' \in Places /\ pc' \notin {"server", "done"} /\ pc' \notin Joined
        /\ pc' \notin {"recv", "poll", "wait"} => exited
    BY <1>1 DEF Handles, Places, Joined
  <2>2. Requests' /\ committed' \subseteq Client
    BY <2>1, TakeKeepsRequests
  <2>3. TypeOK' /\ Counted'
    BY <2>1, <2>2, TakeTyped, TakeCounts
  <2> QED BY <2>1, <2>2, <2>3 DEF Take, Alone
<1>2. CASE Proceeds
  <2>1. Requests'
    BY <1>2, QuietKeepsRequests DEF Proceeds
  <2> QED BY <1>2, <2>1, ProceedsCounts DEF Proceeds, Alone
<1>3. CASE Finish
  <2>1. /\ pc = "final" /\ queue' = <<>> /\ pc' = "server" /\ exited
        /\ UNCHANGED <<processVars, threadVars, controlVars, loopVars>>
    BY <1>3 DEF Finish, Goto, Requests
  <2>2. TypeOK'
    BY <2>1 DEF TypeOK, SupervisionAssumption, Places, processVars, threadVars, controlVars, loopVars
  <2>3. Requests'
    BY <2>1 DEF Requests, controlVars, loopVars
  <2>4. Outputs(queue') = {}
    BY <2>1 DEF Outputs
  <2>5. Counted'
    BY <2>1, <2>4 DEF Counted, Joined, threadVars, loopVars
  <2> QED BY <2>1, <2>2, <2>3, <2>5 DEF Alone, processVars, loopVars
<1> QED BY <1>1, <1>2, <1>3, CoordinatorEffects

\* Every step keeps it.
LEMMA NextKeeps ==
  ASSUME SupervisionAssumption, IInv, [Next]_vars
  PROVE  IInv'
<1>1. CASE UNCHANGED vars
  BY <1>1 DEF IInv, TypeOK, Requests, Counted, Alone, vars, processVars, threadVars, controlVars,
              loopVars
<1>2. CASE Next
  BY <1>1, <1>2, OutsideKeeps, ProducersKeep, ControlKeeps, CoordinateKeeps DEF Next, Over
<1> QED BY <1>1, <1>2

\* The invariant holds of every behaviour of the threads of a capture.
THEOREM Inductive == Spec => []IInv
<1>1. Init => IInv
  BY SupervisionAssumption, InitHolds
<1>2. IInv /\ [Next]_vars => IInv'
  BY SupervisionAssumption, NextKeeps
<1> QED BY <1>1, <1>2, PTL DEF Spec

-----------------------------------------------------------------------------
(* Theorems.                                                               *)

\* The channel never holds more than options.channel_capacity observations,
\* and every field of the coordinator, its threads and its clients keeps its
\* type (recorder.rs: supervise and the producers).
THEOREM SupervisionTyped == Spec => []TypeOK
<1>1. IInv => TypeOK
  BY DEF IInv
<1> QED BY <1>1, Inductive, PTL

\* supervise passes the joins of the output only when the reader is done and
\* the channel is empty, so a capture that met no failure and did not abandon
\* its output has recorded all that was read.
THEOREM OutputIsComplete == Spec => []NoOutputLost
<1>1. IInv => NoOutputLost
  <2> SUFFICES ASSUME IInv, pc \in {"final", "server", "done"}, ~fatal, ~abandoned
               PROVE  recorded = taken
    BY DEF NoOutputLost
  <2>1. taken \in Nat /\ recorded \in Nat
    BY DEF IInv, TypeOK
  <2>2. reader = "done" /\ Outputs(queue) = {}
    BY DEF IInv, Counted, Joined
  <2>3. Cardinality(Outputs(queue)) = 0
    BY <2>2, FS_EmptySet
  <2>4. taken = recorded + Cardinality(Outputs(queue)) + 0
    BY <2>2 DEF IInv, Counted
  <2> QED BY <2>1, <2>3, <2>4
<1> QED BY <1>1, Inductive, PTL

\* terminate_remaining_process_group reports the group stopped only after it
\* saw it empty, and a group that is empty stays so until the final checkpoint.
THEOREM FinalScanIsAlone == Spec => []FinalScanAlone
<1>1. IInv => FinalScanAlone
  BY DEF IInv, Alone, FinalScanAlone
<1> QED BY <1>1, Inductive, PTL

\* The reply slot of handle_connection answers the marker it was made for: an
\* accepted client has its checkpoint, and a refused one has one only if the
\* run was stopping.
THEOREM AnswersAreHonest == Spec => []AnswersHonest
<1>1. IInv => AnswersHonest
  BY DEF IInv, Requests, AnswersHonest, Stopping
<1> QED BY <1>1, Inductive, PTL
=============================================================================
