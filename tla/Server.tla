------------------------------- MODULE Server -------------------------------
(***************************************************************************)
(* lib/server.py: the connections of the SMD daemon.  The main thread      *)
(* accepts clients, reads their requests and closes them; the dispatcher   *)
(* and executer threads send replies and broadcasts at the same time.      *)
(*                                                                         *)
(* A Conn keeps the list _queue of messages not yet written.  Any thread   *)
(* may append to it, and every thread that has sent something empties the  *)
(* queues of ALL connections, so that two threads often empty the same     *)
(* queue, and one may empty a queue that close() is taking apart.  Nothing *)
(* is locked: a test and the use of what was tested are separate actions.  *)
(*                                                                         *)
(* A message is written in two parts, its header with the length and its   *)
(* payload, by two calls of sendall().                                     *)
(***************************************************************************)
EXTENDS Naturals, Sequences, FiniteSets, SequencesExt

CONSTANTS
    Conn,        \* the Conn objects of a behaviour (bounds the accepts)
    Fd,          \* file descriptors: the keys of _clients, and the eid of a request
    Msg,         \* messages sent (bounds the sends)
    Sender,      \* the threads that call send()
    Main,        \* the main thread
    MaxBatch,    \* the longest reply list
    Slow,        \* connections whose client may leave the socket buffer full
    None         \* no client, no message, no addressee

ASSUME ServerAssumption == /\ None \notin Conn \cup Fd \cup Msg
                           /\ MaxBatch \in Nat \ {0}
                           /\ Main \notin Sender
                           /\ Slow \subseteq Conn

Thread == Sender \cup {Main}

VARIABLES
    clients,     \* _clients, a dict by descriptor: its values, in insertion order
    fd,          \* the descriptor each Conn was accepted on
    sock,        \* _sock: "new", "open", "closed", or "none" after close()
    queue,       \* _queue
    peer,        \* is the client program still connected?
    asked,       \* connections a request was read from, and not yet answered
    got,         \* the parts of messages written to each connection
    tpc,         \* where each thread is in send()
    batch,       \* the messages it has still to route
    todo,        \* the connections it has still to visit, the one it works on first
    hold,        \* the message it has popped
    fresh,       \* messages not created yet
    owner,       \* the connection whose request a message answers, None: multicast
    mpc,         \* where the main thread is
    closing,     \* the connection it closes
    failed       \* history: a send() has ended in an exception

tableVars == <<clients, fd, peer, asked>>
connVars == <<tableVars, sock, queue>>
mainVars == <<mpc, closing>>
msgVars == <<fresh, owner>>
sendVars == <<tpc, batch, todo, hold>>
vars == <<connVars, got, sendVars, msgVars, mainVars, failed>>

Clients == Range(clients)

Client(f) == {c \in Clients : fd[c] = f}     \* _clients[f], empty for a KeyError

Init ==
    /\ clients = <<>>
    /\ fd = [c \in Conn |-> None]
    /\ sock = [c \in Conn |-> "new"]
    /\ queue = [c \in Conn |-> <<>>]
    /\ peer = [c \in Conn |-> FALSE]
    /\ asked = {}
    /\ got = [c \in Conn |-> {}]
    /\ tpc = [t \in Thread |-> "idle"]
    /\ batch = [t \in Thread |-> <<>>]
    /\ todo = [t \in Thread |-> <<>>]
    /\ hold = [t \in Thread |-> None]
    /\ fresh = Msg
    /\ owner = [m \in Msg |-> None]
    /\ mpc = "poll"
    /\ closing = None
    /\ failed = FALSE

-----------------------------------------------------------------------------
(* The main thread: _poll, _read, Conn.close, _stop.                       *)

Accept(c, f) ==
    /\ mpc = "poll"
    /\ sock[c] = "new"
    /\ \A d \in Conn : fd[d] = f => sock[d] \in {"closed", "none"}
    /\ sock' = [sock EXCEPT ![c] = "open"]
    /\ fd' = [fd EXCEPT ![c] = f]
    /\ peer' = [peer EXCEPT ![c] = TRUE]
    /\ clients' = Append(clients, c)
    /\ UNCHANGED <<asked, queue, got, sendVars, msgVars, mainVars, failed>>

ReadRequest(c) ==     \* handed to the dispatcher with eid fd[c]
    /\ mpc = "poll"
    /\ c \in Clients
    /\ peer[c]
    /\ asked' = asked \cup {c}
    /\ UNCHANGED <<clients, fd, peer, sock, queue, got, sendVars, msgVars, mainVars, failed>>

Disconnect(c) ==     \* the client program goes away
    /\ peer[c]
    /\ peer' = [peer EXCEPT ![c] = FALSE]
    /\ UNCHANGED <<clients, fd, asked, sock, queue, got, sendVars, msgVars, mainVars, failed>>

ReadEof(c) ==     \* end of file or EPOLLHUP: close() the Conn, step by step
    /\ mpc = "poll"
    /\ c \in Clients
    /\ ~peer[c]
    /\ mpc' = "close"
    /\ closing' = c
    /\ UNCHANGED <<connVars, got, sendVars, msgVars, failed>>

CloseSocket ==
    /\ mpc \in {"close", "stopclose"}
    /\ closing # None
    /\ sock[closing] = "open"
    /\ sock' = [sock EXCEPT ![closing] = "closed"]
    /\ peer' = [peer EXCEPT ![closing] = FALSE]
    /\ UNCHANGED <<clients, fd, asked, queue, got, sendVars, msgVars, mainVars, failed>>

ClearQueue ==
    /\ mpc \in {"close", "stopclose"}
    /\ closing # None
    /\ sock[closing] = "closed"
    /\ queue' = [queue EXCEPT ![closing] = <<>>]
    /\ mpc' = IF mpc = "close" THEN "drop" ELSE "stopdrop"
    /\ UNCHANGED <<tableVars, sock, got, sendVars, msgVars, closing, failed>>

DropFields ==     \* _sock, _queue = None, None; then del _clients[file]
    /\ mpc = "drop"
    /\ sock' = [sock EXCEPT ![closing] = "none"]
    /\ queue' = [queue EXCEPT ![closing] = <<>>]
    /\ mpc' = "forget"
    /\ UNCHANGED <<tableVars, got, sendVars, msgVars, closing, failed>>

Forget ==
    /\ mpc = "forget"
    /\ clients' = RemoveFirst(clients, closing)
    /\ mpc' = "poll"
    /\ closing' = None
    /\ UNCHANGED <<fd, peer, asked, sock, queue, got, sendVars, msgVars, failed>>

StopBegin(m) ==     \* _stop(): broadcast HOOK_SHUTDOWN ...
    /\ mpc = "poll"
    /\ m \in fresh
    /\ fresh' = fresh \ {m}
    /\ mpc' = "stop"
    /\ tpc' = [tpc EXCEPT ![Main] = "route"]
    /\ batch' = [batch EXCEPT ![Main] = <<m>>]
    /\ UNCHANGED <<connVars, got, todo, hold, owner, closing, failed>>

StopClose ==     \* ... then close every connection in turn
    /\ \/ mpc = "stop" /\ tpc[Main] = "idle"
       \/ mpc = "stopclose" /\ closing = None
    /\ IF \E c \in Clients : sock[c] = "open"
       THEN /\ mpc' = "stopclose"
            /\ \E c \in Clients : sock[c] = "open" /\ closing' = c
            /\ UNCHANGED clients
       ELSE /\ mpc' = "stopped"
            /\ clients' = <<>>
            /\ UNCHANGED closing
    /\ UNCHANGED <<fd, peer, asked, sock, queue, got, sendVars, msgVars, failed>>

StopDropFields ==
    /\ mpc = "stopdrop"
    /\ sock' = [sock EXCEPT ![closing] = "none"]
    /\ queue' = [queue EXCEPT ![closing] = <<>>]
    /\ mpc' = "stopclose"
    /\ closing' = None
    /\ UNCHANGED <<tableVars, got, sendVars, msgVars, failed>>

-----------------------------------------------------------------------------
(* send(): route every message of the list to the queues, then flush all.  *)

\* The replies to a request, some of them multicast (all), or (c = None) a broadcast.
SendBegin(t, c, ms, all) ==
    /\ tpc[t] = "idle"
    /\ c \in asked \cup {None}
    /\ Range(ms) \subseteq fresh
    /\ fresh' = fresh \ Range(ms)
    /\ owner' = [m \in Msg |-> IF m \in Range(ms) \ all THEN c ELSE owner[m]]
    /\ asked' = asked \ {c}
    /\ batch' = [batch EXCEPT ![t] = ms]
    /\ tpc' = [tpc EXCEPT ![t] = "route"]
    /\ UNCHANGED <<clients, fd, peer, sock, queue, got, todo, hold, mainVars, failed>>

\* _send_one() of a reply that is no list, to a client that is gone: nothing is flushed.
DropReply(t, c, m) ==
    /\ tpc[t] = "idle"
    /\ c \in asked
    /\ m \in fresh
    /\ Client(fd[c]) = {}
    /\ fresh' = fresh \ {m}
    /\ asked' = asked \ {c}
    /\ UNCHANGED <<clients, fd, peer, sock, queue, got, sendVars, owner, mainVars, failed>>

Goto(t, place) == tpc' = [tpc EXCEPT ![t] = place]

Local(t, place) == Goto(t, place) /\ UNCHANGED <<connVars, got, hold, msgVars, mainVars, failed>>

\* _send_one(): for everyone, the connections there are now ...
RouteAll(t) ==
    /\ tpc[t] = "route"
    /\ batch[t] # <<>>
    /\ owner[Head(batch[t])] = None
    /\ todo' = [todo EXCEPT ![t] = clients]
    /\ Local(t, "add") /\ UNCHANGED batch

\* ... for one, "eid in self._clients" or this message of the list is dropped ...
RouteOne(t) ==
    /\ tpc[t] = "route"
    /\ batch[t] # <<>>
    /\ owner[Head(batch[t])] # None
    /\ IF Client(fd[owner[Head(batch[t])]]) = {}
       THEN batch' = [batch EXCEPT ![t] = Tail(@)] /\ Local(t, "route")
       ELSE Local(t, "lookup") /\ UNCHANGED batch
    /\ UNCHANGED todo

Addressee(f) == SetToSeq(Client(f))

\* ... and then self._clients[eid], a KeyError if it has been deleted meanwhile.
Lookup(t) ==
    /\ tpc[t] = "lookup"
    /\ LET f == fd[owner[Head(batch[t])]] IN
         IF Client(f) = {}
         THEN Local(t, "raised") /\ UNCHANGED todo
         ELSE Local(t, "add") /\ todo' = [todo EXCEPT ![t] = Addressee(f)]
    /\ UNCHANGED batch

At(t) == Head(todo[t])

Advance(t) == todo' = [todo EXCEPT ![t] = Tail(@)]

\* Conn.add(): return when _sock is None, else append to _queue.
AddTest(t) ==
    /\ tpc[t] = "add"
    /\ todo[t] # <<>>
    /\ IF sock[At(t)] = "none"
       THEN Local(t, "add") /\ Advance(t)
       ELSE Local(t, "append") /\ UNCHANGED todo
    /\ UNCHANGED batch

\* The _queue of a Conn closed since the test is None: AttributeError.
AddAppend(t) ==
    /\ tpc[t] = "append"
    /\ IF sock[At(t)] = "none"
       THEN Goto(t, "raised") /\ UNCHANGED <<queue, todo>>
       ELSE /\ queue' = [queue EXCEPT ![At(t)] = Append(@, Head(batch[t]))]
            /\ Goto(t, "add")
            /\ Advance(t)
    /\ UNCHANGED <<tableVars, sock, got, batch, hold, msgVars, mainVars, failed>>

AddEnd(t) ==
    /\ tpc[t] = "add"
    /\ todo[t] = <<>>
    /\ batch' = [batch EXCEPT ![t] = Tail(@)]
    /\ Local(t, "route") /\ UNCHANGED todo

\* Mutated: not when another thread is flushing already.
FlushBeginAlone(t) ==
    /\ tpc[t] = "route"
    /\ batch[t] = <<>>
    /\ todo' = [todo EXCEPT ![t] = IF \E u \in Thread : tpc[u] = "flush" THEN <<>> ELSE clients]
    /\ Local(t, "flush") /\ UNCHANGED batch

\* _flush(): visit the connections there are now.
FlushBegin(t) ==
    /\ tpc[t] = "route"
    /\ batch[t] = <<>>
    /\ todo' = [todo EXCEPT ![t] = clients]
    /\ Local(t, "flush") /\ UNCHANGED batch

\* Conn.flush(): return when _sock is None; while len(self._queue) > 0, where the
\* TypeError of len(None) is caught.
FlushLen(t) ==
    /\ tpc[t] = "flush"
    /\ todo[t] # <<>>
    /\ IF sock[At(t)] = "none" \/ queue[At(t)] = <<>>
       THEN Local(t, "flush") /\ Advance(t)
       ELSE Local(t, "pop") /\ UNCHANGED todo
    /\ UNCHANGED batch

\* Mutated: the message is looked at and left in the list.
PeekLast(s) == s

PopLast(s) == Front(s)

\* self._queue.pop() takes the last message.  On None it is an AttributeError,
\* which is caught; on a list emptied since the test an IndexError, which is not.
FlushPop(t) ==
    /\ tpc[t] = "pop"
    /\ LET c == At(t) IN
       \/ sock[c] = "none" /\ Goto(t, "flush") /\ Advance(t) /\ UNCHANGED <<queue, hold>>
       \/ /\ sock[c] # "none"
          /\ queue[c] = <<>>
          /\ Goto(t, "raised") /\ UNCHANGED <<queue, hold, todo>>
       \/ /\ sock[c] # "none"
          /\ queue[c] # <<>>
          /\ hold' = [hold EXCEPT ![t] = Last(queue[c])]
          /\ queue' = [queue EXCEPT ![c] = PopLast(@)]
          /\ Goto(t, "send") /\ UNCHANGED todo
    /\ UNCHANGED <<tableVars, sock, got, batch, msgVars, mainVars, failed>>

Writable(c) == sock[c] = "open" /\ peer[c]

\* m.send() of one part: an exception that _flush() only logs when the client or
\* the socket is gone, or when the buffer is full.
Write(t, part, next) ==
    LET c == At(t)
    IN  \/ /\ Writable(c)
           /\ got' = [got EXCEPT ![c] = @ \cup {<<part, hold[t]>>}]
           /\ Goto(t, next)
        \/ /\ ~Writable(c) \/ c \in Slow
           /\ Goto(t, "flush")
           /\ UNCHANGED got

SendHead(t) ==
    /\ tpc[t] = "send"
    /\ Write(t, "head", "body")
    /\ hold' = [hold EXCEPT ![t] = IF tpc'[t] = "body" THEN @ ELSE None]
    /\ UNCHANGED <<connVars, batch, todo, msgVars, mainVars, failed>>

\* Mutated: one message is written, then the next connection is visited.
SendBodyOnce(t) ==
    /\ tpc[t] = "body"
    /\ Write(t, "body", "flush")
    /\ hold' = [hold EXCEPT ![t] = None]
    /\ Advance(t)
    /\ UNCHANGED <<connVars, batch, msgVars, mainVars, failed>>

\* Mutated: the thread still holds the message it has written.
SendBodyHolds(t) ==
    /\ tpc[t] = "body"
    /\ Write(t, "body", "flush")
    /\ UNCHANGED <<connVars, batch, todo, hold, msgVars, mainVars, failed>>

SendBody(t) ==
    /\ tpc[t] = "body"
    /\ Write(t, "body", "flush")
    /\ hold' = [hold EXCEPT ![t] = None]
    /\ UNCHANGED <<connVars, batch, todo, msgVars, mainVars, failed>>

FlushEnd(t) ==
    /\ tpc[t] = "flush"
    /\ todo[t] = <<>>
    /\ Local(t, "idle") /\ UNCHANGED <<batch, todo>>

\* The exception leaves send(): the hook, callback or task that replied is given
\* up, and its thread goes on (when it was a log request or a task, it ends, as
\* does _stop() of the main thread).
Unwind(t) ==
    /\ tpc[t] = "raised"
    /\ t # Main
    /\ Goto(t, "idle")
    /\ batch' = [batch EXCEPT ![t] = <<>>]
    /\ todo' = [todo EXCEPT ![t] = <<>>]
    /\ failed' = TRUE
    /\ UNCHANGED <<connVars, got, hold, msgVars, mainVars>>

-----------------------------------------------------------------------------
SendStep(t) ==
    \/ RouteAll(t) \/ RouteOne(t) \/ Lookup(t)
    \/ AddTest(t) \/ AddAppend(t) \/ AddEnd(t)
    \/ FlushBegin(t) \/ FlushLen(t) \/ FlushPop(t)
    \/ SendHead(t) \/ SendBody(t) \/ FlushEnd(t) \/ Unwind(t)

CloseStep == \/ CloseSocket \/ ClearQueue \/ DropFields \/ Forget
             \/ StopClose \/ StopDropFields

Next ==
    \/ \E t \in Thread : SendStep(t)
    \/ CloseStep
    \/ \E c \in Conn : \/ ReadRequest(c) \/ Disconnect(c) \/ ReadEof(c)
                       \/ \E f \in Fd : Accept(c, f)
    \/ \E t \in Sender, c \in Conn \cup {None}, n \in 1..MaxBatch :
         \E ms \in {s \in [1..n -> fresh] : IsInjective(s)} :
           \E all \in IF c = None THEN {Range(ms)} ELSE SUBSET Range(ms) :
             SendBegin(t, c, ms, all)
    \/ \E t \in Sender, c \in Conn, m \in Msg : DropReply(t, c, m)
    \/ \E m \in Msg : StopBegin(m)

Spec == Init /\ [][Next]_vars

\* Threads inside send() and close() are scheduled.  No client has to ask, to
\* read or to leave.
FairSpec == Spec /\ (\A t \in Thread : WF_vars(SendStep(t))) /\ WF_vars(CloseStep)

-----------------------------------------------------------------------------
(* Properties.                                                             *)

TypeOK ==
    /\ clients \in Seq(Conn)
    /\ fd \in [Conn -> Fd \cup {None}]
    /\ sock \in [Conn -> {"new", "open", "closed", "none"}]
    /\ queue \in [Conn -> Seq(Msg)]
    /\ peer \in [Conn -> BOOLEAN]
    /\ asked \in SUBSET Conn
    /\ got \in [Conn -> SUBSET ({"head", "body"} \X Msg)]
    /\ tpc \in [Thread -> {"idle", "route", "lookup", "add", "append", "flush",
                           "pop", "send", "body", "raised"}]
    /\ batch \in [Thread -> Seq(Msg)]
    /\ todo \in [Thread -> Seq(Conn)]
    /\ hold \in [Thread -> Msg \cup {None}]
    /\ \A t \in Thread : /\ hold[t] # None <=> tpc[t] \in {"send", "body"}
                         /\ tpc[t] \in {"append", "pop", "send", "body"} => todo[t] # <<>>
    /\ fresh \in SUBSET Msg
    /\ owner \in [Msg -> Conn \cup {None}]
    /\ mpc \in {"poll", "close", "drop", "forget", "stop", "stopclose", "stopdrop",
                "stopped"}
    /\ closing \in Conn \cup {None}
    /\ failed \in BOOLEAN

\* However many threads flush one connection, each part of a message is written
\* to it once at most, and a message is in its queue once and no longer when it
\* is being written.
Sending(c) == {hold[t] : t \in {u \in Thread : tpc[u] \in {"send", "body"} /\ At(u) = c}}

Written(c) == {p[2] : p \in got[c]}

WrittenOnce ==
    \A c \in Conn :
        /\ IsInjective(queue[c])
        /\ Range(queue[c]) \cap (Sending(c) \cup Written(c)) = {}
        /\ \A t \in {u \in Thread : tpc[u] \in {"send", "body"} /\ At(u) = c} :
             /\ tpc[t] = "send" => hold[t] \notin Written(c)
             /\ <<"body", hold[t]>> \notin got[c]

\* A reply reaches the connection that asked.  It reaches another one only when
\* that one was accepted on the descriptor of the first after its close: a
\* client never sees the reply to a client that is still connected.
ReplyToAsker ==
    \A c \in Conn : \A m \in Written(c) :
        owner[m] \in {None, c} \/ (/\ fd[owner[m]] = fd[c]
                                   /\ sock[owner[m]] \in {"closed", "none"})

\* What is written is written once, and to the client it is for.
Delivered == WrittenOnce /\ ReplyToAsker

\* A message waits in the queue of an open connection only while a thread is on
\* its way to flush that connection, or after a send has raised.
WillFlush(t, c) ==
    \/ tpc[t] \in {"route", "lookup", "add", "append"}
    \/ tpc[t] \in {"flush", "pop", "send", "body"} /\ c \in Range(todo[t])

Raised == failed \/ \E t \in Thread : tpc[t] = "raised"

NoneStranded ==
    \A c \in Clients :
        (sock[c] = "open" /\ queue[c] # <<>>)
            => (Raised \/ \E t \in Thread : WillFlush(t, c))

\* A message queued for a client that stays connected and reads is written to it
\* completely, unless a send raises.
QueuedIsWritten ==
    \A c \in Conn \ Slow, m \in Msg :
        (m \in Range(queue[c]) /\ sock[c] = "open")
            ~> (<<"body", m>> \in got[c] \/ ~peer[c] \/ Raised)
=============================================================================
