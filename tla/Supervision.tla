------------------------------ MODULE Supervision ------------------------------
(***************************************************************************)
(* The threads of one capture (crates/rewind-capture: recorder.rs,         *)
(* control.rs) around the bounded channel to the coordinator: the terminal *)
(* reader, the typist that forwards standard input, the process observer,  *)
(* the signal watcher and the control server, with the processes under the *)
(* pseudo-terminal and the clients of the control socket.                  *)
(*                                                                         *)
(* What an observation writes to the store is module Recorder's; here it   *)
(* is handled in one step, which may fail.  Time is a deadline that is     *)
(* armed and, some time later, over.  A window resize is to the            *)
(* coordinator what a process sample is and has no message of its own.     *)
(***************************************************************************)
EXTENDS Naturals, Sequences

CONSTANTS Capacity,     \* options.channel_capacity
          OutputLimit,  \* options.terminal_max_bytes, in chunks
          Client,       \* processes that ask for a marker
          None,
          Faulty,       \* what may fail in an instance
          MaxChunks,    \* bound: chunks the processes write
          MaxSignals,   \* bound: signals the user sends
          MaxLines      \* bound: lines the user types

ASSUME SupervisionAssumption ==
  /\ Capacity \in Nat \ {0} /\ OutputLimit \in Nat
  /\ MaxChunks \in Nat /\ MaxSignals \in Nat /\ MaxLines \in Nat
  /\ None \notin Client
  /\ Faulty \subseteq {"store", "kill", "signal", "poll", "group", "stdout", "read",
                       "stdin", "accept"}

VARIABLES
  alive, doomed,  \* processes under the terminal; those that SIGKILL was sent to
  signals,        \* signals the user has sent
  queue,          \* the channel
  reader, taken,  \* the terminal reader; the chunks it has read
  typist,         \* lines that standard input still has
  observer, watcher,
  server, serving, reply,  \* the control thread, its client, the reply slot
  client, committed,       \* clients; those whose checkpoint was committed
  pc, exited, eof, abandoned, interrupted, fatal, \* the Coordinator
  grace, drain,            \* its deadlines, see AwaitGroup
  killed, stopped,         \* post_root_kill_requested, process_group_stopped
  recorded                 \* terminal_output_bytes, in chunks

processVars == <<alive, doomed, signals>>
threadVars  == <<reader, taken, typist, observer, watcher>>
controlVars == <<server, serving, reply, client, committed>>
loopVars    == <<exited, eof, abandoned, interrupted, fatal, grace, drain, killed, stopped,
                 recorded>>
vars == <<processVars, queue, threadVars, controlVars, pc, loopVars>>

\* The daemon stays in the process group without the terminal, the escapee
\* keeps the terminal in a group of its own.
Group    == {"root", "member", "daemon"}
Holders  == {"root", "member", "escapee"}
Deadline == {"none", "armed", "over"}
Message  == {"output", "eof", "failed", "input", "sample", "signal", "marker"}
Places   == {"recv", "poll", "wait", "group", "kill", "ready", "output", "observer", "watcher",
             "final", "server", "done"}

\* The receiver lives until supervise returns.
Open == pc \notin {"server", "done"}

\* The stop flags: the control server and the observer stop with the child,
\* the watcher with the loop.  (The coordinator alone knows of the exit
\* before it sets them.)
Stopping(thread) ==
  IF thread = "watcher" THEN pc \notin {"recv", "poll", "wait"} ELSE exited

TypeOK ==
  /\ alive \subseteq Group \cup Holders /\ doomed \subseteq alive \cap Group
  /\ signals \in 0..MaxSignals
  /\ queue \in Seq(Message) /\ Len(queue) <= Capacity
  /\ reader \in {"read", "send", "failed", "eof", "done"} /\ taken \in 0..MaxChunks
  /\ typist \in 0..MaxLines /\ observer \in {"ready", "done"}
  /\ watcher \in {"idle", "send", "done"}
  /\ server \in {"idle", "send", "wait", "late", "failed", "done"}
  /\ serving \in Client \cup {None} /\ reply \in {"none", "yes", "no"}
  /\ client \in [Client -> {"idle", "waiting", "accepted", "rejected", "reset"}]
  /\ committed \subseteq Client
  /\ pc \in Places
  /\ exited \in BOOLEAN /\ eof \in BOOLEAN /\ abandoned \in BOOLEAN /\ interrupted \in BOOLEAN
  /\ fatal \in BOOLEAN /\ grace \in Deadline /\ drain \in Deadline
  /\ killed \in BOOLEAN /\ stopped \in BOOLEAN
  /\ recorded \in 0..OutputLimit

Init ==
  /\ alive = {"root"} /\ doomed = {} /\ signals = 0
  /\ queue = <<>>
  /\ reader = "read" /\ taken = 0 /\ typist = MaxLines /\ observer = "ready" /\ watcher = "idle"
  /\ server = "idle" /\ serving = None /\ reply = "none"
  /\ client = [c \in Client |-> "idle"] /\ committed = {}
  /\ pc = "recv" /\ exited = FALSE /\ eof = FALSE /\ abandoned = FALSE /\ interrupted = FALSE
  /\ fatal = FALSE /\ grace = "none" /\ drain = "none" /\ killed = FALSE /\ stopped = FALSE
  /\ recorded = 0

\* Whether a call that may fail in this instance succeeds.
Outcomes(call) == IF call \in Faulty THEN BOOLEAN ELSE {TRUE}

-----------------------------------------------------------------------------
(* The processes and the clock.                                            *)

\* A process of the group starts another one.
Fork ==
  /\ (alive \cap Group) \ doomed # {}
  /\ \E p \in {"member", "daemon", "escapee"} \ alive :
       /\ p # "escapee" => alive \cap {"member", "daemon"} = {}
       /\ alive' = alive \cup {p}
  /\ UNCHANGED <<doomed, signals, queue, threadVars, controlVars, pc, loopVars>>

Dies(p) ==
  /\ alive' = alive \ {p} /\ doomed' = doomed \ {p}
  /\ UNCHANGED <<signals, queue, threadVars, controlVars, pc, loopVars>>

\* A process exits of its own accord.
Leave == \E p \in alive : Dies(p)

\* SIGKILL takes effect.
Reap == \E p \in doomed : Dies(p)

Expire ==
  /\ \/ grace = "armed" /\ grace' = "over" /\ UNCHANGED drain
     \/ drain = "armed" /\ drain' = "over" /\ UNCHANGED grace
  /\ UNCHANGED <<processVars, queue, threadVars, controlVars, pc, exited, eof, abandoned,
                 interrupted, fatal, killed, stopped, recorded>>

-----------------------------------------------------------------------------
(* The producers.                                                          *)

\* Mutant: the channel is not bounded.
Sends_Unbounded(message, thread, after, ended) ==
  \/ Open /\ queue' = Append(queue, message) /\ thread' = after
  \/ ~Open /\ thread' = ended /\ UNCHANGED queue

\* SyncSender::send: waits for room, fails once the receiver is gone, which
\* ends the thread.
Sends(message, thread, after, ended) ==
  \/ Open /\ Len(queue) < Capacity /\ queue' = Append(queue, message) /\ thread' = after
  \/ ~Open /\ thread' = ended /\ UNCHANGED queue

\* Mutant: a full channel is waited on whether the flag is set or not.
SendsUntilStopped_Blocks(name, message, thread, after) == Sends(message, thread, after, "done")

\* send_until_stopped: gives up once its stop flag is set, room or not.
SendsUntilStopped(name, message, thread, after) ==
  IF Stopping(name) THEN thread' = "done" /\ UNCHANGED queue
  ELSE Sends(message, thread, after, "done")

\* Mutant: the end of the output overtakes the chunk that was read last.
ReadTerminal_Early ==
  /\ reader = "read"
  /\ \/ /\ alive \cap Holders # {} /\ taken < MaxChunks
        /\ taken' = taken + 1 /\ reader' \in {"send", "eof"}
     \/ alive \cap Holders = {} /\ reader' = "eof" /\ UNCHANGED taken
  /\ UNCHANGED <<processVars, queue, typist, observer, watcher, controlVars, pc, loopVars>>

\* spawn_output: a chunk, an error, or the end once nobody holds the terminal.
ReadTerminal ==
  /\ reader = "read"
  /\ \/ alive \cap Holders # {} /\ taken < MaxChunks /\ taken' = taken + 1 /\ reader' = "send"
     \/ alive \cap Holders = {} /\ reader' = "eof" /\ UNCHANGED taken
     \/ "read" \in Faulty /\ reader' = "failed" /\ UNCHANGED taken
  /\ UNCHANGED <<processVars, queue, typist, observer, watcher, controlVars, pc, loopVars>>

\* A chunk is sent and then written to standard output, which may fail.
ReaderSends ==
  /\ \/ /\ reader = "send"
        /\ \E ok \in Outcomes("stdout") :
             Sends("output", reader, IF ok THEN "read" ELSE "failed", "done")
     \/ reader = "failed" /\ Sends("failed", reader, "eof", "done")
     \/ reader = "eof" /\ Sends("eof", reader, "done", "done")
  /\ UNCHANGED <<processVars, taken, typist, observer, watcher, controlVars, pc, loopVars>>

\* spawn_input: forwards a line and reports it, until standard input ends or
\* fails; nothing can cancel its read and nobody joins it.
Typing ==
  /\ typist > 0
  /\ \/ Sends("input", typist, typist - 1, 0)
     \/ "stdin" \in Faulty /\ Sends("failed", typist, 0, 0)
     \/ typist' = 0 /\ UNCHANGED queue
  /\ UNCHANGED <<processVars, reader, taken, observer, watcher, controlVars, pc, loopVars>>

\* ProcessProducer: samples, sends and sleeps until its flag is set.
Sampling ==
  /\ observer = "ready"
  /\ SendsUntilStopped("observer", "sample", observer, "ready")
  /\ UNCHANGED <<processVars, reader, taken, typist, watcher, controlVars, pc, loopVars>>

\* The user presses the interrupt key; the iterator hands it to the watcher.
Interrupt ==
  /\ watcher = "idle" /\ signals < MaxSignals
  /\ signals' = signals + 1 /\ watcher' = "send"
  /\ UNCHANGED <<alive, doomed, queue, reader, taken, typist, observer, controlVars, pc,
                 loopVars>>

\* SignalProducer: request_stop closes the iterator, which ends the thread.
Watching ==
  /\ \/ watcher = "idle" /\ Stopping("watcher") /\ watcher' = "done" /\ UNCHANGED queue
     \/ watcher = "send" /\ SendsUntilStopped("watcher", "signal", watcher, "idle")
  /\ UNCHANGED <<processVars, reader, taken, typist, observer, controlVars, pc, loopVars>>

-----------------------------------------------------------------------------
(* The control socket.                                                     *)

\* request_marker: connects while there is a listener and waits for a reply.
Ask(c) ==
  /\ client[c] = "idle" /\ server # "done"
  /\ client' = [client EXCEPT ![c] = "waiting"]
  /\ UNCHANGED <<processVars, queue, threadVars, server, serving, reply, committed, pc,
                 loopVars>>

\* The listener is closed; whoever was not accepted yet is cut off.
Close ==
  /\ server' = "done" /\ serving' = None
  /\ client' = [c \in Client |-> IF client[c] = "waiting" THEN "reset" ELSE client[c]]

Answer(answer) ==
  /\ client' = [client EXCEPT ![serving] = answer]
  /\ server' = "idle" /\ serving' = None /\ reply' = "none"

\* serve: one connection at a time, until the flag is set; a frame that does
\* not decode is rejected at once.
Accept ==
  /\ server = "idle"
  /\ \/ Stopping("server") /\ Close /\ UNCHANGED reply
     \/ /\ ~Stopping("server")
        /\ \E c \in Client :
             /\ client[c] = "waiting"
             /\ \/ server' = "send" /\ serving' = c /\ reply' = "none" /\ UNCHANGED client
                \/ client' = [client EXCEPT ![c] = "rejected"]
                   /\ UNCHANGED <<server, serving, reply>>
     \/ /\ ~Stopping("server") /\ "accept" \in Faulty
        /\ server' = "failed" /\ UNCHANGED <<serving, reply, client>>
  /\ UNCHANGED <<processVars, queue, threadVars, committed, pc, loopVars>>

\* handle_connection sends the marker, and serve the failure of accept.
ServerSends ==
  /\ \/ /\ server = "send"
        /\ IF Stopping("server") \/ ~Open THEN Answer("rejected") /\ UNCHANGED queue
           ELSE /\ Len(queue) < Capacity /\ queue' = Append(queue, "marker")
                /\ server' = "wait" /\ UNCHANGED <<serving, client, reply>>
     \/ /\ server = "failed"
        /\ \/ (Stopping("server") \/ ~Open) /\ UNCHANGED queue
           \/ ~Stopping("server") /\ Open /\ Len(queue) < Capacity
              /\ queue' = Append(queue, "failed")
        /\ Close /\ UNCHANGED reply
  /\ UNCHANGED <<processVars, threadVars, committed, pc, loopVars>>

\* Mutant: a reply that is late is not waited for again.
AwaitReply_Once ==
  /\ \/ server = "wait" /\ reply = "yes" /\ Answer("accepted")
     \/ server = "wait" /\ (reply # "yes" \/ ~Open) /\ Answer("rejected")
  /\ UNCHANGED <<processVars, queue, threadVars, committed, pc, loopVars>>

\* The wait for the reply: it is there, its sender is gone, or the wait times
\* out, and only then is the flag looked at.
AwaitReply ==
  /\ \/ server = "wait" /\ reply = "yes" /\ Answer("accepted")
     \/ server = "wait" /\ (reply = "no" \/ (reply = "none" /\ ~Open)) /\ Answer("rejected")
     \/ server = "wait" /\ reply = "none" /\ Open
        /\ server' = "late" /\ UNCHANGED <<serving, client, reply>>
     \/ server = "late" /\ Stopping("server") /\ Answer("rejected")
     \/ server = "late" /\ ~Stopping("server")
        /\ server' = "wait" /\ UNCHANGED <<serving, client, reply>>
  /\ UNCHANGED <<processVars, queue, threadVars, committed, pc, loopVars>>

-----------------------------------------------------------------------------
(* The coordinator: what it does about processes and errors.               *)

Goto(place) == pc' = place

\* kill_process_group; nobody left to kill is no error.
KillGroup(ok) == doomed' = IF ok THEN alive \cap Group ELSE doomed

\* Coordinator::fail keeps the first error and kills what it supervises; where
\* the group cannot be killed it tries the root alone.
Fail ==
  /\ fatal' = TRUE
  /\ IF fatal \/ exited THEN UNCHANGED doomed
     ELSE \/ \E ok \in Outcomes("kill") : KillGroup(ok)
          \/ "kill" \in Faulty /\ doomed' = doomed \cup (alive \cap {"root"})

\* durable_post_root_warning, once the root has exited.
Warn == \E ok \in Outcomes("store") : fatal' = (fatal \/ ~ok)

-----------------------------------------------------------------------------
(* The coordinator: Coordinator::handle, one case a kind of observation.   *)

\* record_output, up to the limit.
HandleOutput ==
  /\ \/ ~fatal /\ recorded < OutputLimit
        /\ recorded' = recorded + 1 /\ UNCHANGED <<fatal, doomed>>
     \/ ~fatal /\ (recorded = OutputLimit \/ "store" \in Faulty) /\ Fail /\ UNCHANGED recorded
     \/ fatal /\ UNCHANGED <<recorded, fatal, doomed>>
  /\ UNCHANGED <<eof, drain, interrupted, grace, killed, reply, committed>>

\* Handled even after a failure.
HandleEof ==
  /\ eof' = TRUE /\ drain' = "none"
  /\ UNCHANGED <<recorded, fatal, doomed, interrupted, grace, killed, reply, committed>>

HandleFailure ==
  /\ Fail
  /\ UNCHANGED <<recorded, eof, drain, interrupted, grace, killed, reply, committed>>

\* record_input and record_processes only write to the store.
HandleRecord ==
  /\ UNCHANGED <<fatal, doomed>> \/ (~fatal /\ "store" \in Faulty /\ Fail)
  /\ UNCHANGED <<recorded, eof, drain, interrupted, grace, killed, reply, committed>>

\* handle_signal before the root's exit: the first is recorded and forwarded
\* and starts the grace period, any other one kills.
SignalBeforeExit ==
  /\ \/ ~interrupted /\ grace' = "armed" /\ UNCHANGED <<fatal, doomed>>
     \/ ~interrupted /\ Faulty \cap {"store", "signal"} # {} /\ Fail /\ UNCHANGED grace
     \/ interrupted /\ KillGroup(TRUE) /\ grace' = "none" /\ UNCHANGED fatal
     \/ interrupted /\ "kill" \in Faulty /\ Fail /\ UNCHANGED grace
  /\ UNCHANGED <<drain, killed>>

\* After the exit the first one bounds the drain, and any other one kills what
\* is left of the group and starts the last period of the drain.
SignalAfterExit ==
  /\ \/ /\ ~interrupted
        /\ \/ /\ drain' = IF drain = "over" THEN "over" ELSE "armed"
              /\ UNCHANGED fatal \/ ("signal" \in Faulty /\ Warn)
           \/ "store" \in Faulty /\ fatal' = TRUE /\ UNCHANGED drain
        /\ UNCHANGED <<killed, doomed>>
     \/ /\ interrupted
        /\ killed' = TRUE /\ drain' = "armed"
        /\ \E ok \in Outcomes("kill") : KillGroup(ok) /\ IF ok THEN UNCHANGED fatal ELSE Warn
  /\ UNCHANGED grace

HandleSignal ==
  /\ IF fatal THEN UNCHANGED <<interrupted, grace, drain, killed, fatal, doomed>>
     ELSE interrupted' = TRUE /\ IF exited THEN SignalAfterExit ELSE SignalBeforeExit
  /\ UNCHANGED <<recorded, eof, reply, committed>>

\* Mutant: whoever asks a stopping recorder gets no reply.
HandleMarker_Silent ==
  /\ \/ (fatal \/ exited) /\ UNCHANGED <<reply, committed, fatal, doomed>>
     \/ /\ ~fatal /\ ~exited
        /\ committed' = committed \cup {serving} /\ reply' = "yes"
        /\ UNCHANGED <<fatal, doomed>>
  /\ UNCHANGED <<recorded, eof, drain, interrupted, grace, killed>>

\* A marker is refused once the run is stopping; its checkpoint may fail, with
\* or without ending the capture.
HandleMarker ==
  /\ \/ (fatal \/ exited) /\ reply' = "no" /\ UNCHANGED <<committed, fatal, doomed>>
     \/ /\ ~fatal /\ ~exited
        /\ \/ committed' = committed \cup {serving} /\ reply' = "yes"
              /\ UNCHANGED <<fatal, doomed>>
           \/ reply' = "no" /\ UNCHANGED <<committed, fatal, doomed>>
           \/ "store" \in Faulty /\ reply' = "no" /\ UNCHANGED committed /\ Fail
  /\ UNCHANGED <<recorded, eof, drain, interrupted, grace, killed>>

Handle(message) ==
  \/ message = "output" /\ HandleOutput
  \/ message = "eof" /\ HandleEof
  \/ message = "failed" /\ HandleFailure
  \/ message \in {"input", "sample"} /\ HandleRecord
  \/ message = "signal" /\ HandleSignal
  \/ message = "marker" /\ HandleMarker

-----------------------------------------------------------------------------
(* The coordinator: the loop of supervise.                                 *)

\* recv_timeout or try_recv hands over the oldest observation.
Take ==
  /\ queue # <<>> /\ queue' = Tail(queue)
  /\ Handle(Head(queue))
  /\ UNCHANGED <<alive, signals, threadVars, server, serving, client, exited, abandoned, stopped>>

\* Nothing was there.
Miss == queue = <<>> /\ UNCHANGED <<processVars, queue, threadVars, controlVars, loopVars>>

Receive == pc = "recv" /\ (Take \/ Miss) /\ Goto("poll")

\* Once the child has exited and its output has ended, or was given up.
NextTurn == Goto(IF exited' /\ (eof \/ abandoned') THEN "group" ELSE "recv")

\* poll_child sees the exit; or it waits for it, after a failed poll, without
\* a deadline.
ChildExits ==
  /\ \/ pc = "poll" /\ ~exited /\ "root" \notin alive
     \/ pc = "wait" /\ ("root" \notin alive \/ "poll" \in Faulty)
  /\ exited' = TRUE /\ grace' = "none"
  /\ drain' = IF eof THEN drain ELSE "armed"
  /\ UNCHANGED abandoned /\ NextTurn
  /\ UNCHANGED <<processVars, queue, threadVars, controlVars, eof, interrupted, fatal, killed,
                 stopped, recorded>>

\* poll_child finds the child alive: at the end of the grace period it is
\* killed.  Or the poll itself fails.
ChildLives ==
  /\ pc = "poll" /\ ~exited /\ "root" \in alive
  /\ \/ grace # "over" /\ Goto("recv") /\ UNCHANGED <<grace, fatal, doomed>>
     \/ grace = "over" /\ grace' = "none" /\ Goto("recv") /\ KillGroup(TRUE) /\ UNCHANGED fatal
     \/ grace = "over" /\ grace' = "none" /\ Goto("recv") /\ "kill" \in Faulty /\ Fail
     \/ "poll" \in Faulty /\ Fail /\ Goto("wait") /\ UNCHANGED grace
  /\ UNCHANGED <<alive, signals, queue, threadVars, controlVars, exited, eof, abandoned,
                 interrupted, drain, killed, stopped, recorded>>

\* poll_post_root_drain: the first period ends with a kill, the second with
\* the output being given up.
PollDrain ==
  /\ pc = "poll" /\ exited
  /\ \/ /\ eof \/ abandoned \/ drain # "over"
        /\ UNCHANGED <<killed, drain, abandoned, fatal, doomed>>
     \/ /\ ~eof /\ ~abandoned /\ drain = "over" /\ killed
        /\ drain' = "none" /\ abandoned' = TRUE /\ Warn /\ UNCHANGED <<killed, doomed>>
     \/ /\ ~eof /\ ~abandoned /\ drain = "over" /\ ~killed
        /\ killed' = TRUE /\ drain' = "armed" /\ Warn /\ UNCHANGED abandoned
        /\ \E ok \in Outcomes("kill") : KillGroup(ok)
  /\ UNCHANGED exited /\ NextTurn
  /\ UNCHANGED <<alive, signals, queue, threadVars, controlVars, eof, interrupted, grace, stopped,
                 recorded>>

-----------------------------------------------------------------------------
(* The coordinator: the end of supervise.                                  *)

\* Mutant: a kill that was delivered is taken for an empty group.
TerminateGroup_Trusts ==
  /\ pc = "group"
  /\ stopped' = TRUE /\ KillGroup(TRUE) /\ Goto("ready") /\ UNCHANGED <<grace, fatal>>
  /\ UNCHANGED <<alive, signals, queue, threadVars, controlVars, exited, eof, abandoned,
                 interrupted, drain, killed, recorded>>

\* terminate_remaining_process_group: first the check and the kill.
TerminateGroup ==
  /\ pc = "group"
  /\ \/ /\ alive \cap Group = {}
        /\ stopped' = TRUE /\ Goto("ready") /\ UNCHANGED <<doomed, grace, fatal>>
     \/ /\ alive \cap Group # {} /\ KillGroup(TRUE) /\ Warn
        /\ grace' = "armed" /\ Goto("kill") /\ UNCHANGED stopped
     \/ /\ Faulty \cap {"group", "kill"} # {}
        /\ fatal' = TRUE /\ Goto("ready") /\ UNCHANGED <<stopped, doomed, grace>>
  /\ UNCHANGED <<alive, signals, queue, threadVars, controlVars, exited, eof, abandoned,
                 interrupted, drain, killed, recorded>>

\* Then the wait for the group to be empty, observations being handled
\* meanwhile, or for a deadline of its own: grace, which has no other use once
\* the root has exited.
AwaitGroup ==
  /\ pc = "kill"
  /\ \/ /\ alive \cap Group = {}
        /\ stopped' = TRUE /\ UNCHANGED fatal
     \/ /\ (alive \cap Group # {} /\ grace = "over") \/ "group" \in Faulty
        /\ fatal' = TRUE /\ UNCHANGED stopped
  /\ Goto("ready")
  /\ UNCHANGED <<processVars, queue, threadVars, controlVars, exited, eof, abandoned,
                 interrupted, grace, drain, killed, recorded>>

HandleMeanwhile ==
  /\ pc = "kill" /\ alive \cap Group # {} /\ grace # "over"
  /\ Take /\ UNCHANGED pc

\* drain_ready.
DrainReady ==
  /\ pc = "ready"
  /\ \/ Take /\ UNCHANGED pc
     \/ Miss /\ Goto(IF abandoned THEN "observer" ELSE "output")

\* join_output_draining, unless the output was abandoned.
JoinOutput ==
  /\ pc = "output"
  /\ \/ Take /\ UNCHANGED pc
     \/ reader = "done" /\ Miss /\ Goto("observer")

\* The joins of the observer and of the watcher.
JoinProducers ==
  /\ \/ pc = "observer" /\ observer = "done" /\ Goto("watcher")
     \/ pc = "watcher" /\ watcher = "done" /\ Goto("final")
  /\ UNCHANGED <<processVars, queue, threadVars, controlVars, loopVars>>

\* ProcessExited, the final checkpoint and the finish are module Recorder's;
\* the receiver goes with the coordinator and what is left in the channel.
Finish ==
  /\ pc = "final"
  /\ queue' = <<>> /\ Goto("server")
  /\ UNCHANGED <<processVars, threadVars, controlVars, loopVars>>

\* ControlServer::stop joins the thread.
JoinServer ==
  /\ pc = "server" /\ server = "done"
  /\ Goto("done")
  /\ UNCHANGED <<processVars, queue, threadVars, controlVars, loopVars>>

-----------------------------------------------------------------------------
Coordinate ==
  \/ Receive \/ ChildExits \/ ChildLives \/ PollDrain \/ TerminateGroup \/ AwaitGroup
  \/ HandleMeanwhile \/ DrainReady \/ JoinOutput \/ JoinProducers \/ Finish \/ JoinServer

Control == Accept \/ ServerSends \/ AwaitReply

\* The capture is over; its processes may be left behind.
Over == pc = "done" /\ UNCHANGED vars

Next ==
  \/ Fork \/ Leave \/ Reap \/ Expire \/ Interrupt
  \/ ReadTerminal \/ ReaderSends \/ Typing \/ Sampling \/ Watching
  \/ \E c \in Client : Ask(c)
  \/ Control
  \/ Coordinate
  \/ Over

Spec == Init /\ [][Next]_vars

\* Every thread runs, time passes and SIGKILL works; no process under the
\* terminal, no user and no client has to do anything.
FairSpec ==
  /\ Spec
  /\ WF_vars(Coordinate) /\ WF_vars(ReadTerminal) /\ WF_vars(ReaderSends)
  /\ WF_vars(Sampling) /\ WF_vars(Watching) /\ WF_vars(Control) /\ SF_vars(ServerSends)
  /\ WF_vars(Expire) /\ WF_vars(Reap)

-----------------------------------------------------------------------------
(* Properties.                                                             *)

\* When a capture that met no failure records its exit, every chunk that was
\* read from the terminal has been recorded, however the exit, the end of the
\* output and the shutdown were ordered; else the tail was abandoned.
NoOutputLost ==
  pc \in {"final", "server", "done"} /\ ~fatal /\ ~abandoned => recorded = taken

\* The final checkpoint is taken only when the process group is empty: what is
\* left of it was killed and seen to be gone (docs/architecture.md, 7).
FinalScanAlone ==
  pc = "final" /\ stopped => alive \cap Group = {}

\* A client is told that its checkpoint exists only if it does, and is refused
\* one that exists only because the run is stopping.
AnswersHonest ==
  \A c \in Client :
    /\ client[c] = "accepted" => c \in committed
    /\ client[c] = "rejected" /\ c \in committed => Stopping("server")

\* No signal, failure or exit leaves the capture waiting: not for a terminal
\* that somebody keeps open, nor for producers that wait for room.
SupervisionEnds ==
  (interrupted \/ fatal \/ "root" \notin alive) ~> pc = "done"

\* Every client of the control socket gets an answer or is cut off.
ClientsAnswered == \A c \in Client : client[c] = "waiting" ~> client[c] # "waiting"
=============================================================================
