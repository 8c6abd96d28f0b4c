----------------------------- MODULE ServerProofs -----------------------------
(***************************************************************************)
(* Proofs about Server, for any number of connections, descriptors,        *)
(* messages and threads: its types; that what is written to a connection   *)
(* is written once and is for it; and that no message is left in the queue *)
(* of an open connection. The invariant follows a message from the batch   *)
(* of the thread that sends it, through the list of connections it is due  *)
(* at, the queue, and the thread that has popped it, to what is written:   *)
(* at each connection it is in one of these places.                        *)
(***************************************************************************)
EXTENDS Server, ListLemmas, FiniteSetTheorems, TLAPS

Gone == {"closed", "none"}

Closes == {"close", "drop", "forget"}

\* The connections of the table: each is there once, under a descriptor of its own, and none
\* that uses the same descriptor is still open.
Table ==
    /\ IsInjective(clients)
    /\ \A c \in Conn : sock[c] = "new" <=> fd[c] = None
    /\ \A c \in Clients : sock[c] # "new"
    /\ \A c \in Clients : \A d \in Clients : fd[c] = fd[d] => c = d
    /\ \A c \in Clients : \A d \in Conn \ {c} : fd[d] = fd[c] => sock[d] \in Gone

\* While the main thread polls every connection of the table is open.
Polls ==
    /\ mpc \in {"poll", "stop"} \cup Closes =>
         \A c \in Clients : sock[c] = "open" \/ (c = closing /\ mpc \in Closes)
    /\ mpc \in {"poll", "stop"} => closing = None
    /\ mpc \in Closes \cup {"stopdrop"} => closing # None
    /\ closing # None => sock[closing] # "new"

\* Nobody works on a connection that was not accepted yet, which is empty.
Known ==
    /\ \A c \in asked : sock[c] # "new"
    /\ \A m \in Msg : owner[m] # None => sock[owner[m]] # "new"
    /\ \A t \in Thread : \A c \in Range(todo[t]) : sock[c] # "new"
    /\ \A c \in Conn : sock[c] = "new" => queue[c] = <<>> /\ got[c] = {}

\* The messages a thread has still to route are its own and wait there once.
Batches ==
    /\ \A t \in Thread :
        /\ IsInjective(batch[t]) /\ IsInjective(todo[t])
        /\ Range(batch[t]) \cap fresh = {}
        /\ tpc[t] \in {"idle", "flush", "pop", "send", "body"} => batch[t] = <<>>
        /\ tpc[t] \in {"lookup", "add", "append"} => batch[t] # <<>>
    /\ \A t, u \in Thread : t # u => Range(batch[t]) \cap Range(batch[u]) = {}
    /\ mpc # "stop" => tpc[Main] = "idle"

\* The steps of the main thread, but for the beginning of its last broadcast.
MainStep == \/ \E c \in Conn : \/ ReadRequest(c) \/ Disconnect(c) \/ ReadEof(c)
                               \/ \E f \in Fd : Accept(c, f)
            \/ CloseStep

\* A thread is given the messages M to send.
Given(t, M) == \/ t \in Sender /\ \E c \in asked \cup {None}, ms \in Seq(Msg), all \in SUBSET Msg :
                    M = Range(ms) /\ IsInjective(ms) /\ SendBegin(t, c, ms, all)
               \/ t = Main /\ \E m \in Msg : M = {m} /\ StopBegin(m)

\* A reply is dropped: it is not fresh any more, and its client has not asked any more.
Dropped ==
    /\ fresh' \subseteq fresh /\ asked' \subseteq asked
    /\ UNCHANGED <<clients, fd, peer, sock, queue, got, sendVars, owner, mainVars, failed>>

-----------------------------------------------------------------------------
\* The empty list.
LEMMA NoElems ==
    ASSUME NEW S
    PROVE  <<>> \in Seq(S) /\ Range(<<>>) = {} /\ IsInjective(<<>>)
BY DEF Range, IsInjective

\* The list of a set of one element.
LEMMA SingleToSeq == ASSUME NEW c PROVE SetToSeq({c}) = <<c>>
<1>1. Cardinality({c}) = 1
  BY FS_Singleton
<1>2. <<c>> \in [1..1 -> {c}] /\ IsInjective(<<c>>)
  BY DEF IsInjective
<1>3. \A f \in [1..1 -> {c}] : f = <<c>>
  OBVIOUS
<1> QED
  BY <1>1, <1>2, <1>3 DEF SetToSeq

\* At most one connection of the table has a descriptor.
LEMMA OneAddressee ==
    ASSUME TypeOK, Table, NEW f, Client(f) # {}
    PROVE  \E c \in Clients : fd[c] = f /\ Client(f) = {c} /\ Addressee(f) = <<c>>
<1>1. PICK c \in Clients : fd[c] = f
  BY DEF Client
<1>2. Client(f) = {c}
  BY <1>1 DEF Client, Table
<1> QED
  BY <1>1, <1>2, SingleToSeq DEF Addressee

\* The table holds connections.
LEMMA ClientsAreConns == TypeOK => Clients \subseteq Conn /\ None \notin Conn
BY RangeOfSeq, ServerAssumption DEF TypeOK, Clients

-----------------------------------------------------------------------------
(* Types.                                                                  *)

\* A step of a thread in send() keeps the types.
LEMMA SenderTypes ==
    ASSUME TypeOK, Table, Batches, NEW t \in Thread, SendStep(t)
    PROVE  TypeOK'
<1> USE DEF TypeOK, connVars, tableVars, mainVars, msgVars, Goto, At, Advance
<1>0. /\ batch[t] # <<>> => Head(batch[t]) \in Msg /\ Tail(batch[t]) \in Seq(Msg)
      /\ todo[t] # <<>> => Head(todo[t]) \in Conn /\ Tail(todo[t]) \in Seq(Conn)
  OBVIOUS
<1>1. CASE RouteAll(t)
  BY <1>1 DEF RouteAll, Local
<1>2. CASE RouteOne(t)
  BY <1>0, <1>2 DEF RouteOne, Local
<1>3. CASE Lookup(t)
  <2>1. PICK f : /\ Lookup(t)
                 /\ \/ tpc' = [tpc EXCEPT ![t] = "raised"] /\ UNCHANGED todo
                    \/ /\ Client(f) # {} /\ tpc' = [tpc EXCEPT ![t] = "add"]
                       /\ todo' = [todo EXCEPT ![t] = Addressee(f)]
                 /\ tpc[t] = "lookup"
                 /\ UNCHANGED <<batch, connVars, got, hold, msgVars, mainVars, failed>>
    BY <1>3 DEF Lookup, Local
  <2>2. Client(f) # {} => Addressee(f) \in Seq(Conn)
    <3>1. ASSUME NEW c \in Conn PROVE <<c>> \in Seq(Conn)
      OBVIOUS
    <3>2. ASSUME Client(f) # {} PROVE \E c \in Conn : Addressee(f) = <<c>>
      BY <3>2, OneAddressee, ClientsAreConns
    <3> QED
      BY <3>1, <3>2
  <2>3. CASE UNCHANGED todo
    BY <2>1, <2>3
  <2>4. CASE /\ Client(f) # {} /\ tpc' = [tpc EXCEPT ![t] = "add"]
             /\ todo' = [todo EXCEPT ![t] = Addressee(f)]
    <3>1. todo' \in [Thread -> Seq(Conn)]
      BY <2>2, <2>4
    <3>2. tpc' \in [Thread -> {"idle", "route", "lookup", "add", "append",
                               "flush", "pop", "send", "body", "raised"}]
      BY <2>4
    <3> QED
      BY <2>1, <3>1, <3>2
  <2> QED
    BY <2>1, <2>3, <2>4
<1>4. CASE AddTest(t)
  BY <1>0, <1>4 DEF AddTest, Local
<1>5. CASE AddAppend(t)
  <2>1. batch[t] # <<>> /\ todo[t] # <<>>
    BY <1>5 DEF AddAppend, Batches
  <2>2. Append(queue[At(t)], Head(batch[t])) \in Seq(Msg)
    BY <1>0, <2>1, AppendProperties
  <2> QED
    BY <1>0, <1>5, <2>1, <2>2 DEF AddAppend
<1>6. CASE AddEnd(t)
  <2>1. batch[t] # <<>>
    BY <1>6 DEF AddEnd, Batches
  <2> QED
    BY <1>0, <1>6, <2>1 DEF AddEnd, Local
<1>7. CASE FlushBegin(t)
  BY <1>7 DEF FlushBegin, Local
<1>8. CASE FlushLen(t)
  BY <1>0, <1>8 DEF FlushLen, Local
<1>9. CASE FlushPop(t)
  <2>1. todo[t] # <<>> /\ At(t) \in Conn /\ tpc[t] = "pop"
    BY <1>0, <1>9 DEF FlushPop
  <2>2. queue[At(t)] # <<>> => /\ Last(queue[At(t)]) \in Msg
                               /\ Front(queue[At(t)]) \in Seq(Msg)
    BY <2>1, FrontType
  <2>3. None \notin Msg
    BY ServerAssumption
  <2>4. CASE /\ tpc' = [tpc EXCEPT ![t] = "flush"] /\ todo' = [todo EXCEPT ![t] = Tail(@)]
             /\ UNCHANGED <<queue, hold>>
    BY <1>0, <1>9, <2>1, <2>4 DEF FlushPop
  <2>5. CASE tpc' = [tpc EXCEPT ![t] = "raised"] /\ UNCHANGED <<queue, hold, todo>>
    BY <1>9, <2>1, <2>5 DEF FlushPop
  <2>6. CASE /\ queue[At(t)] # <<>>
             /\ hold' = [hold EXCEPT ![t] = Last(queue[At(t)])]
             /\ queue' = [queue EXCEPT ![At(t)] = Front(@)]
             /\ tpc' = [tpc EXCEPT ![t] = "send"] /\ UNCHANGED todo
    <3>1. queue' \in [Conn -> Seq(Msg)] /\ hold' \in [Thread -> Msg \cup {None}]
      BY <2>1, <2>2, <2>6
    <3>2. hold'[t] # None
      BY <2>2, <2>3, <2>6
    <3> QED
      BY <1>9, <2>1, <2>6, <3>1, <3>2 DEF FlushPop
  <2> QED
    BY <1>9, <2>4, <2>5, <2>6 DEF FlushPop, PopLast
<1>10. CASE SendHead(t) \/ SendBody(t)
  <2>1. /\ todo[t] # <<>> /\ At(t) \in Conn /\ hold[t] \in Msg
        /\ tpc[t] \in {"send", "body"}
    BY <1>0, <1>10 DEF SendHead, SendBody
  <2>2. /\ UNCHANGED <<connVars, batch, todo, msgVars, mainVars, failed>>
        /\ \/ UNCHANGED got
           \/ \E part \in {"head", "body"} :
                got' = [got EXCEPT ![At(t)] = @ \cup {<<part, hold[t]>>}]
        /\ \/ tpc' = [tpc EXCEPT ![t] = "body"] /\ UNCHANGED hold
           \/ tpc' = [tpc EXCEPT ![t] = "flush"] /\ hold' = [hold EXCEPT ![t] = None]
    <3>1. CASE SendHead(t)
      <4>1. CASE tpc' = [tpc EXCEPT ![t] = "body"]
        <5>1. tpc'[t] = "body"
          BY <4>1
        <5>2. hold' = [hold EXCEPT ![t] = hold[t]]
          BY <3>1, <5>1 DEF SendHead
        <5>3. UNCHANGED hold
          BY <5>2
        <5> QED
          BY <3>1, <4>1, <5>3 DEF SendHead, Write
      <4>2. CASE tpc' = [tpc EXCEPT ![t] = "flush"]
        <5>1. tpc'[t] = "flush"
          BY <4>2
        <5>2. hold' = [hold EXCEPT ![t] = None]
          BY <3>1, <5>1 DEF SendHead
        <5> QED
          BY <3>1, <4>2, <5>2 DEF SendHead, Write
      <4> QED
        BY <3>1, <4>1, <4>2 DEF SendHead, Write
    <3>2. CASE SendBody(t)
      BY <3>2 DEF SendBody, Write
    <3> QED
      BY <1>10, <3>1, <3>2
  <2>3. got' \in [Conn -> SUBSET ({"head", "body"} \X Msg)]
    <3>1. ASSUME NEW part \in {"head", "body"},
                 got' = [got EXCEPT ![At(t)] = @ \cup {<<part, hold[t]>>}]
          PROVE  got' \in [Conn -> SUBSET ({"head", "body"} \X Msg)]
      <4>1. got[At(t)] \cup {<<part, hold[t]>>} \in SUBSET ({"head", "body"} \X Msg)
        BY <2>1
      <4> QED
        BY <2>1, <3>1, <4>1
    <3> QED
      BY <2>2, <3>1
  <2>4. /\ tpc' \in [Thread -> {"idle", "route", "lookup", "add", "append", "flush",
                                "pop", "send", "body", "raised"}]
        /\ hold' \in [Thread -> Msg \cup {None}]
        /\ \A u \in Thread : /\ hold'[u] # None <=> tpc'[u] \in {"send", "body"}
                             /\ tpc'[u] \in {"append", "pop", "send", "body"} => todo[u] # <<>>
    BY <2>1, <2>2
  <2> QED
    BY <2>2, <2>3, <2>4
<1>12. CASE FlushEnd(t)
  BY <1>12 DEF FlushEnd, Local
<1>13. CASE Unwind(t)
  BY <1>13, NoElems DEF Unwind
<1> QED
  BY <1>1, <1>2, <1>3, <1>4, <1>5, <1>6, <1>7, <1>8, <1>9, <1>10, <1>12, <1>13
     DEF SendStep

\* So does one of the main thread,
LEMMA MainTypes ==
    ASSUME TypeOK, Table, Batches,
           MainStep \/ \E m \in Msg : StopBegin(m)
    PROVE  TypeOK'
<1> USE DEF TypeOK, connVars, tableVars, mainVars, msgVars, sendVars
<1>1. ASSUME NEW c \in Conn, NEW f \in Fd, Accept(c, f) PROVE TypeOK'
  <2>1. Append(clients, c) \in Seq(Conn)
    BY AppendProperties
  <2> QED
    BY <1>1, <2>1 DEF Accept
<1>2. ASSUME NEW c \in Conn, ReadRequest(c) \/ Disconnect(c) \/ ReadEof(c) PROVE TypeOK'
  BY <1>2 DEF ReadRequest, Disconnect, ReadEof
<1>3. CASE CloseSocket \/ ClearQueue \/ DropFields \/ StopDropFields
  <2>1. /\ sock' \in [Conn -> {"new", "open", "closed", "none"}]
        /\ peer' \in [Conn -> BOOLEAN]
    BY <1>3 DEF CloseSocket, ClearQueue, DropFields, StopDropFields
  <2>2. queue' \in [Conn -> Seq(Msg)]
    <3>1. <<>> \in Seq(Msg)
      OBVIOUS
    <3>2. queue' = queue \/ queue' = [queue EXCEPT ![closing] = <<>>]
      BY <1>3 DEF CloseSocket, ClearQueue, DropFields, StopDropFields
    <3> QED
      BY <3>1, <3>2
  <2>3. /\ mpc' \in {mpc, "drop", "stopdrop", "forget", "stopclose"}
        /\ closing' \in {closing, None}
        /\ UNCHANGED <<clients, fd, asked, got, sendVars, msgVars, failed>>
    BY <1>3 DEF CloseSocket, ClearQueue, DropFields, StopDropFields
  <2>4. closing' \in Conn \cup {None} /\ mpc' \in {"poll", "close", "drop", "forget", "stop", "stopclose",
                                                    "stopdrop", "stopped"}
    BY <2>3
  <2> QED
    BY <2>1, <2>2, <2>3, <2>4
<1>4. CASE Forget
  <2>1. RemoveFirst(clients, closing) \in Seq(Conn)
    BY RemoveFirstElems DEF Table
  <2> QED
    BY <1>4, <2>1 DEF Forget
<1>5. CASE StopClose
  <2>1. /\ clients' \in {clients, <<>>} /\ mpc' \in {"stopclose", "stopped"}
        /\ closing' = closing \/ closing' \in Clients
        /\ UNCHANGED <<fd, peer, asked, sock, queue, got, sendVars, msgVars, failed>>
    BY <1>5 DEF StopClose
  <2>2. clients' \in Seq(Conn)
    <3>1. <<>> \in Seq(Conn)
      OBVIOUS
    <3> QED
      BY <2>1, <3>1
  <2>3. closing' \in Conn \cup {None}
    BY <2>1, ClientsAreConns
  <2>4. mpc' \in {"poll", "close", "drop", "forget", "stop", "stopclose",
                                                    "stopdrop", "stopped"}
    BY <2>1
  <2> QED
    BY <2>1, <2>2, <2>3, <2>4
<1>6. ASSUME NEW m \in Msg, StopBegin(m) PROVE TypeOK'
  <2>1. <<m>> \in Seq(Msg) /\ Main \in Thread
    BY DEF Thread
  <2>2. /\ batch' \in [Thread -> Seq(Msg)] /\ fresh' \in SUBSET Msg
        /\ mpc' \in {"poll", "close", "drop", "forget", "stop", "stopclose",
                                                    "stopdrop", "stopped"}
    BY <1>6, <2>1 DEF StopBegin
  <2>3. /\ tpc' \in [Thread -> {"idle", "route", "lookup", "add", "append", "flush",
                           "pop", "send", "body", "raised"}]
        /\ UNCHANGED <<connVars, got, todo, hold, owner, closing, failed>>
        /\ \A u \in Thread : u # Main => tpc'[u] = tpc[u]
        /\ tpc'[Main] = "route"
    BY <1>6, <2>1 DEF StopBegin
  <2>4. hold[Main] = None
    BY <1>6, <2>1 DEF StopBegin, Batches
  <2> QED
    BY <2>2, <2>3, <2>4
<1> QED
  BY <1>1, <1>2, <1>3, <1>4, <1>5, <1>6 DEF MainStep, CloseStep

\* and the beginning of a send.
LEMMA BeginTypes ==
    ASSUME TypeOK, NEW t \in Sender, NEW c \in asked \cup {None}, NEW ms \in Seq(Msg),
           NEW all, SendBegin(t, c, ms, all)
    PROVE  TypeOK'
<1>1. t \in Thread /\ c \in Conn \cup {None}
  BY DEF Thread, TypeOK
<1> QED
  BY <1>1 DEF TypeOK, SendBegin, mainVars

-----------------------------------------------------------------------------
(* The table of connections.                                               *)

TableInv == Table /\ Polls /\ Known

\* A thread that sends leaves the table alone, and visits only connections that are in it.
LEMMA TableFrame ==
    ASSUME TypeOK, TableInv,
           UNCHANGED <<clients, fd, sock, mpc, closing, owner>>,
           asked' \subseteq asked,
           \A t \in Thread :
              todo'[t] = todo[t] \/ Range(todo'[t]) \subseteq Range(todo[t]) \cup Clients,
           \A c \in Conn : sock[c] = "new" => /\ queue'[c] = queue[c] \/ queue'[c] = <<>>
                                              /\ got'[c] = got[c]
    PROVE  TableInv'
<1>1. Table' /\ Polls'
  BY DEF TableInv, Table, Polls, Clients
<1>2. \A c \in Clients : sock[c] # "new"
  BY DEF TableInv, Table
<1>3. Known'
  BY <1>2 DEF TableInv, Known
<1> QED
  BY <1>1, <1>3 DEF TableInv

\* A thread in send() never touches the table, and queues for, visits and writes to only what
\* was accepted.
LEMMA SenderTable ==
    ASSUME TypeOK, TableInv, Batches, NEW t \in Thread, SendStep(t)
    PROVE  TableInv'
<1> USE DEF connVars, tableVars, mainVars, msgVars, Goto, At, Advance
<1>1. /\ UNCHANGED <<clients, fd, sock, mpc, closing, owner>>
      /\ asked' = asked
  BY DEF SendStep, RouteAll, RouteOne, Lookup, AddTest, AddAppend, AddEnd, FlushBegin,
         FlushLen, FlushPop, SendHead, SendBody, FlushEnd, Unwind, Local
<1>2. \/ UNCHANGED todo
      \/ todo' = [todo EXCEPT ![t] = clients]
      \/ todo' = [todo EXCEPT ![t] = <<>>]
      \/ todo[t] # <<>> /\ todo' = [todo EXCEPT ![t] = Tail(@)]
      \/ \E f : Client(f) # {} /\ todo' = [todo EXCEPT ![t] = Addressee(f)]
  <2>1. CASE AddAppend(t) \/ FlushPop(t)
    BY <2>1 DEF TypeOK, AddAppend, FlushPop
  <2>2. CASE RouteAll(t) \/ RouteOne(t) \/ AddTest(t) \/ AddEnd(t) \/ FlushBegin(t)
    BY <2>2 DEF RouteAll, RouteOne, AddTest, AddEnd, FlushBegin
  <2>3. CASE Lookup(t)
    BY <2>3 DEF Lookup
  <2>4. CASE FlushLen(t) \/ SendHead(t) \/ SendBody(t) \/ FlushEnd(t) \/ Unwind(t)
    BY <2>4 DEF FlushLen, SendHead, SendBody, FlushEnd, Unwind
  <2> QED
    BY <2>1, <2>2, <2>3, <2>4 DEF SendStep
<1>3. \A u \in Thread : todo'[u] = todo[u] \/ Range(todo'[u]) \subseteq Range(todo[u]) \cup Clients
  <2>1. Range(clients) = Clients /\ Range(<<>>) = {}
    BY NoElems DEF Clients
  <2>2. todo[t] # <<>> => Range(Tail(todo[t])) \subseteq Range(todo[t])
    BY TailElems DEF TypeOK, Batches
  <2>3. \A f : Client(f) # {} => Range(Addressee(f)) \subseteq Clients
    <3>1. ASSUME NEW f, Client(f) # {} PROVE Range(Addressee(f)) \subseteq Clients
      <4>1. PICK c \in Clients : Addressee(f) = <<c>>
        BY <3>1, OneAddressee DEF TableInv
      <4> QED
        BY <4>1, OneElem
    <3> QED
      BY <3>1
  <2> SUFFICES ASSUME NEW u \in Thread
               PROVE  todo'[u] = todo[u] \/ Range(todo'[u]) \subseteq Range(todo[u]) \cup Clients
    OBVIOUS
  <2>4. todo \in [Thread -> Seq(Conn)]
    BY DEF TypeOK
  <2>5. CASE UNCHANGED todo
    BY <2>5
  <2>6. CASE todo' = [todo EXCEPT ![t] = clients] \/ todo' = [todo EXCEPT ![t] = <<>>]
    BY <2>1, <2>4, <2>6
  <2>7. CASE todo[t] # <<>> /\ todo' = [todo EXCEPT ![t] = Tail(@)]
    BY <2>2, <2>4, <2>7
  <2>8. ASSUME NEW f, Client(f) # {}, todo' = [todo EXCEPT ![t] = Addressee(f)]
        PROVE  todo'[u] = todo[u] \/ Range(todo'[u]) \subseteq Clients
    BY <2>3, <2>4, <2>8
  <2> QED
    BY <1>2, <2>5, <2>6, <2>7, <2>8
<1>4. \A c \in Conn : sock[c] = "new" => queue'[c] = queue[c] \/ queue'[c] = <<>>
  <2>1. CASE UNCHANGED queue
    BY <2>1
  <2>2. CASE AddAppend(t)
    <3>1. todo[t] # <<>>
      BY <2>2 DEF AddAppend, TypeOK
    <3>2. At(t) \in Conn /\ sock[At(t)] # "new"
      BY <3>1, TailElems DEF TypeOK, Batches, TableInv, Known
    <3> QED
      BY <2>2, <3>2 DEF AddAppend, TypeOK
  <2>3. CASE FlushPop(t)
    <3>1. todo[t] # <<>>
      BY <2>3 DEF FlushPop, TypeOK
    <3>2. At(t) \in Conn /\ sock[At(t)] # "new"
      BY <3>1, TailElems DEF TypeOK, Batches, TableInv, Known
    <3> QED
      BY <2>3, <3>2 DEF FlushPop, TypeOK
  <2> QED
    BY <2>1, <2>2, <2>3 DEF SendStep, RouteAll, RouteOne, Lookup, AddTest, AddEnd,
       FlushBegin, FlushLen, SendHead, SendBody, FlushEnd, Unwind, Local
<1>5. \A c \in Conn : sock[c] = "new" => got'[c] = got[c]
  <2>1. CASE SendHead(t) \/ SendBody(t)
    <3>1. todo[t] # <<>>
      BY <2>1 DEF SendHead, SendBody, TypeOK
    <3>2. At(t) \in Conn /\ sock[At(t)] # "new"
      BY <3>1, TailElems DEF TypeOK, Batches, TableInv, Known
    <3> QED
      BY <2>1, <3>2 DEF SendHead, SendBody, Write, TypeOK
  <2> QED
    BY <2>1 DEF SendStep, RouteAll, RouteOne, Lookup, AddTest, AddAppend, AddEnd,
       FlushBegin, FlushLen, FlushPop, FlushEnd, Unwind, Local
<1> QED
  BY <1>1, <1>3, <1>4, <1>5, TableFrame

\* Accepting puts a connection into the table under a descriptor that no open connection has;
\* closing takes it out once it is closed.
LEMMA MainTable ==
    ASSUME TypeOK, TableInv,
           MainStep \/ \E m \in Msg : StopBegin(m)
    PROVE  TableInv'
<1> USE DEF connVars, tableVars, mainVars, msgVars, sendVars
<1>0. /\ clients \in Seq(Conn) /\ Clients \subseteq Conn /\ None \notin Conn
      /\ sock \in [Conn -> {"new", "open", "closed", "none"}] /\ queue \in [Conn -> Seq(Msg)]
      /\ fd \in [Conn -> Fd \cup {None}] /\ closing \in Conn \cup {None} /\ None \notin Fd
      /\ owner \in [Msg -> Conn \cup {None}] /\ asked \subseteq Conn
      /\ todo \in [Thread -> Seq(Conn)]
      /\ \A t \in Thread : Range(todo[t]) \subseteq Conn
  BY ClientsAreConns, RangeOfSeq, ServerAssumption DEF TypeOK
<1>1. ASSUME NEW c \in Conn, NEW f \in Fd, Accept(c, f) PROVE TableInv'
  <2>1. /\ mpc = "poll" /\ sock[c] = "new" /\ \A d \in Conn : fd[d] = f => sock[d] \in Gone
        /\ sock' = [sock EXCEPT ![c] = "open"] /\ fd' = [fd EXCEPT ![c] = f]
        /\ clients' = Append(clients, c)
        /\ UNCHANGED <<asked, queue, got, owner, mpc, closing, todo>>
    BY <1>1 DEF Accept, Gone
  <2>2. c \notin Clients /\ \A d \in Clients : fd[d] # f
    BY <1>0, <2>1 DEF TableInv, Table, Polls, Gone
  <2>3. Clients' = Clients \cup {c} /\ IsInjective(clients')
    BY <1>0, <2>1, <2>2, AppendElems DEF Clients, TableInv, Table
  <2>4. Table'
    BY <1>0, <2>1, <2>2, <2>3 DEF TableInv, Table, Gone
  <2>5. Polls'
    BY <1>0, <2>1, <2>3 DEF TableInv, Polls, Closes
  <2>6. Known'
    BY <1>0, <2>1 DEF TableInv, Known
  <2> QED
    BY <2>4, <2>5, <2>6 DEF TableInv
<1>2. ASSUME NEW c \in Conn, ReadRequest(c) \/ Disconnect(c) \/ ReadEof(c) PROVE TableInv'
  <2>1. /\ UNCHANGED <<clients, fd, sock, queue, got, owner, todo>>
        /\ asked' = asked \/ (c \in Clients /\ asked' = asked \cup {c})
        /\ \/ UNCHANGED <<mpc, closing>>
           \/ c \in Clients /\ mpc = "poll" /\ mpc' = "close" /\ closing' = c
    BY <1>2 DEF ReadRequest, Disconnect, ReadEof
  <2>2. Table' /\ Clients' = Clients
    BY <2>1 DEF TableInv, Table, Clients
  <2>3. Polls'
    BY <1>0, <2>1, <2>2 DEF TableInv, Table, Polls, Closes
  <2>4. Known'
    BY <2>1 DEF TableInv, Table, Known
  <2> QED
    BY <2>2, <2>3, <2>4 DEF TableInv
<1>3. CASE CloseSocket \/ ClearQueue \/ DropFields \/ StopDropFields
  <2>1. /\ UNCHANGED <<clients, fd, asked, got, owner, todo>>
        /\ closing \in Conn /\ sock[closing] # "new"
        /\ \/ UNCHANGED sock
           \/ sock' = [sock EXCEPT ![closing] = "closed"]
           \/ sock' = [sock EXCEPT ![closing] = "none"]
        /\ UNCHANGED queue \/ queue' = [queue EXCEPT ![closing] = <<>>]
        /\ \/ mpc' = mpc /\ closing' = closing /\ mpc \in {"close", "stopclose"}
           \/ mpc \in Closes /\ mpc' \in Closes /\ closing' = closing
           \/ mpc' = "stopdrop" /\ closing' = closing
           \/ mpc' = "stopclose" /\ closing' = None
    BY <1>0, <1>3 DEF CloseSocket, ClearQueue, DropFields, StopDropFields, TableInv, Polls, Closes
  <2>2. sock'[closing] # "new" /\ \A d \in Conn \ {closing} : sock'[d] = sock[d]
    BY <1>0, <2>1
  <2>3. \A d \in Conn : sock[d] \in Gone => sock'[d] \in Gone
    BY <1>0, <2>1 DEF Gone
  <2>4. Table' /\ Clients' = Clients
    BY <1>0, <2>1, <2>2, <2>3 DEF TableInv, Table, Clients
  <2>5. Polls'
    BY <1>0, <2>1, <2>2, <2>4 DEF TableInv, Polls, Closes
  <2>6. Known'
    BY <1>0, <2>1, <2>2 DEF TableInv, Known
  <2> QED
    BY <2>4, <2>5, <2>6 DEF TableInv
<1>4. CASE Forget
  <2>1. /\ clients' = RemoveFirst(clients, closing) /\ mpc = "forget" /\ mpc' = "poll"
        /\ closing' = None /\ UNCHANGED <<fd, asked, sock, queue, got, owner, todo>>
    BY <1>4 DEF Forget
  <2>2. Clients' = Clients \ {closing} /\ IsInjective(clients')
    BY <1>0, <2>1, RemoveFirstElems DEF Clients, TableInv, Table
  <2>3. Table'
    BY <2>1, <2>2 DEF TableInv, Table
  <2>4. Polls'
    BY <2>1, <2>2 DEF TableInv, Polls, Closes
  <2>5. Known'
    BY <2>1 DEF TableInv, Known
  <2> QED
    BY <2>3, <2>4, <2>5 DEF TableInv
<1>5. CASE StopClose
  <2>1. /\ UNCHANGED <<fd, asked, sock, queue, got, owner, todo>>
        /\ \/ mpc' = "stopclose" /\ closing' \in Clients /\ UNCHANGED clients
           \/ mpc' = "stopped" /\ clients' = <<>> /\ UNCHANGED closing
    BY <1>5 DEF StopClose
  <2>2. IsInjective(clients') /\ Clients' \subseteq Clients
    BY <2>1, NoElems DEF TableInv, Table, Clients
  <2>3. Table'
    BY <2>1, <2>2 DEF TableInv, Table
  <2>4. Polls'
    BY <2>1 DEF TableInv, Table, Polls, Closes
  <2>5. Known'
    BY <2>1 DEF TableInv, Known
  <2> QED
    BY <2>3, <2>4, <2>5 DEF TableInv
<1>6. ASSUME NEW m \in Msg, StopBegin(m) PROVE TableInv'
  <2>1. /\ UNCHANGED <<clients, fd, asked, sock, queue, got, owner, todo, closing>>
        /\ mpc = "poll" /\ mpc' = "stop"
    BY <1>6 DEF StopBegin
  <2>2. Table' /\ Clients' = Clients /\ Known'
    BY <2>1 DEF TableInv, Table, Clients, Known
  <2>3. Polls'
    BY <2>1, <2>2 DEF TableInv, Polls, Closes
  <2> QED
    BY <2>2, <2>3 DEF TableInv
<1> QED
  BY <1>1, <1>2, <1>3, <1>4, <1>5, <1>6 DEF MainStep, CloseStep

\* The beginning of a send makes only an accepted connection the owner of messages.
LEMMA BeginTable ==
    ASSUME TypeOK, TableInv, NEW t \in Sender, NEW c \in asked \cup {None}, NEW ms,
           NEW all, SendBegin(t, c, ms, all)
    PROVE  TableInv'
<1>1. /\ UNCHANGED <<clients, fd, sock, queue, got, mpc, closing, todo>>
      /\ asked' = asked \ {c}
      /\ owner' = [m \in Msg |-> IF m \in Range(ms) \ all THEN c ELSE owner[m]]
  BY DEF SendBegin, mainVars
<1>2. Table' /\ Polls'
  BY <1>1 DEF TableInv, Table, Polls, Clients
<1>3. Known'
  BY <1>1 DEF TableInv, Known
<1> QED
  BY <1>2, <1>3 DEF TableInv

-----------------------------------------------------------------------------
(* The messages still to route.                                            *)

\* Routing takes the first message off the batch of the thread, and its list of connections is
\* the table, one addressee, or what is left of either.
LEMMA SenderBatches ==
    ASSUME TypeOK, TableInv, Batches, NEW t \in Thread, SendStep(t)
    PROVE  Batches'
<1> USE DEF connVars, tableVars, mainVars, msgVars, Goto, At, Advance
<1>1. /\ UNCHANGED <<fresh, mpc>>
      /\ tpc' = [tpc EXCEPT ![t] = tpc'[t]]
      /\ tpc[t] # "idle"
      /\ batch' = [batch EXCEPT ![t] = batch'[t]]
      /\ todo' = [todo EXCEPT ![t] = todo'[t]]
  <2> USE DEF TypeOK
  <2>1. CASE AddAppend(t) \/ FlushPop(t)
    BY <2>1 DEF AddAppend, FlushPop
  <2>2. CASE RouteAll(t) \/ RouteOne(t) \/ AddTest(t) \/ AddEnd(t) \/ FlushBegin(t)
    BY <2>2 DEF RouteAll, RouteOne, AddTest, AddEnd, FlushBegin, Local
  <2>3. CASE Lookup(t)
    BY <2>3 DEF Lookup, Local
  <2>4. CASE FlushLen(t) \/ SendHead(t) \/ SendBody(t) \/ FlushEnd(t) \/ Unwind(t)
    BY <2>4 DEF FlushLen, SendHead, SendBody, FlushEnd, Unwind, Local, Write
  <2> QED
    BY <2>1, <2>2, <2>3, <2>4 DEF SendStep
<1>2. /\ IsInjective(batch'[t]) /\ Range(batch'[t]) \subseteq Range(batch[t])
      /\ tpc'[t] \in {"idle", "flush", "pop", "send", "body"} => batch'[t] = <<>>
      /\ tpc'[t] \in {"lookup", "add", "append"} => batch'[t] # <<>>
  <2>1. /\ IsInjective(batch[t]) /\ batch[t] \in Seq(Msg) /\ batch'[t] = batch'[t]
        /\ tpc[t] \in {"idle", "flush", "pop", "send", "body"} => batch[t] = <<>>
        /\ tpc[t] \in {"lookup", "add", "append"} => batch[t] # <<>>
    BY DEF Batches, TypeOK
  <2>2. batch[t] # <<>> => /\ IsInjective(Tail(batch[t]))
                           /\ Range(Tail(batch[t])) \subseteq Range(batch[t])
    BY <2>1, TailElems
  <2>3. IsInjective(<<>>) /\ Range(<<>>) = {}
    BY NoElems
  <2> USE DEF TypeOK
  <2>4. CASE AddAppend(t) \/ FlushPop(t) \/ SendHead(t) \/ SendBody(t)
    BY <2>1, <2>4 DEF AddAppend, FlushPop, SendHead, SendBody, Write
  <2>5. CASE RouteAll(t) \/ RouteOne(t) \/ Lookup(t)
    BY <2>1, <2>2, <2>5 DEF RouteAll, RouteOne, Lookup, Local
  <2>6. CASE AddTest(t) \/ AddEnd(t) \/ FlushBegin(t)
    BY <2>1, <2>2, <2>6 DEF AddTest, AddEnd, FlushBegin, Local
  <2>7. CASE FlushLen(t) \/ FlushEnd(t) \/ Unwind(t)
    BY <2>1, <2>3, <2>7 DEF FlushLen, FlushEnd, Unwind, Local
  <2> QED
    BY <2>4, <2>5, <2>6, <2>7 DEF SendStep
<1>3. IsInjective(todo'[t])
  <2>1. IsInjective(todo[t]) /\ todo[t] \in Seq(Conn) /\ IsInjective(clients)
    BY DEF Batches, TypeOK, TableInv, Table
  <2>2. todo[t] # <<>> => IsInjective(Tail(todo[t]))
    BY <2>1, TailElems
  <2>3. IsInjective(<<>>) /\ \A f : Client(f) # {} => IsInjective(Addressee(f))
    <3>1. ASSUME NEW f, Client(f) # {} PROVE IsInjective(Addressee(f))
      BY <3>1, OneAddressee, OneElem DEF TableInv
    <3> QED
      BY <3>1, NoElems
  <2> USE DEF TypeOK
  <2>4. CASE AddAppend(t) \/ FlushPop(t) \/ SendHead(t) \/ SendBody(t)
    BY <2>1, <2>2, <2>4 DEF AddAppend, FlushPop, SendHead, SendBody, Write
  <2>5. CASE RouteAll(t) \/ RouteOne(t) \/ Lookup(t)
    BY <2>1, <2>3, <2>5 DEF RouteAll, RouteOne, Lookup, Local
  <2>6. CASE AddTest(t) \/ AddEnd(t) \/ FlushBegin(t)
    BY <2>1, <2>2, <2>6 DEF AddTest, AddEnd, FlushBegin, Local
  <2>7. CASE FlushLen(t) \/ FlushEnd(t) \/ Unwind(t)
    BY <2>1, <2>2, <2>3, <2>7 DEF FlushLen, FlushEnd, Unwind, Local
  <2> QED
    BY <2>4, <2>5, <2>6, <2>7 DEF SendStep
<1>4. /\ tpc \in [Thread -> {"idle", "route", "lookup", "add", "append", "flush",
                             "pop", "send", "body", "raised"}]
      /\ batch \in [Thread -> Seq(Msg)] /\ todo \in [Thread -> Seq(Conn)]
  BY DEF TypeOK
<1>5. mpc' # "stop" => tpc'[Main] = "idle"
  <2>1. Main \in Thread
    BY DEF Thread
  <2> QED
    BY <1>1, <1>4, <2>1 DEF Batches
<1>6. \A u \in Thread \ {t} : tpc'[u] = tpc[u] /\ batch'[u] = batch[u] /\ todo'[u] = todo[u]
  BY <1>1, <1>4
<1> QED
  BY <1>1, <1>2, <1>3, <1>5, <1>6 DEF Batches

\* A thread that is given new messages, which are no longer fresh.
LEMMA GivenBatch ==
    ASSUME Batches, NEW t \in Thread, NEW M \in SUBSET fresh,
           fresh' = fresh \ M, UNCHANGED todo,
           tpc'[t] = "route", IsInjective(batch'[t]), Range(batch'[t]) = M,
           \A u \in Thread \ {t} : tpc'[u] = tpc[u] /\ batch'[u] = batch[u],
           mpc' # "stop" => tpc'[Main] = "idle"
    PROVE  Batches'
<1>1. \A u \in Thread :
        /\ IsInjective(batch'[u]) /\ IsInjective(todo'[u])
        /\ Range(batch'[u]) \cap fresh' = {}
        /\ tpc'[u] \in {"idle", "flush", "pop", "send", "body"} => batch'[u] = <<>>
        /\ tpc'[u] \in {"lookup", "add", "append"} => batch'[u] # <<>>
  BY DEF Batches
<1>2. \A u \in Thread \ {t} : Range(batch'[u]) \cap M = {}
  BY DEF Batches
<1>3. \A u, v \in Thread : u # v => Range(batch'[u]) \cap Range(batch'[v]) = {}
  BY <1>2 DEF Batches
<1> QED
  BY <1>1, <1>3 DEF Batches

\* The main thread sends only when it stops.
LEMMA MainBatches ==
    ASSUME TypeOK, Batches,
           MainStep \/ \E m \in Msg : StopBegin(m)
    PROVE  Batches'
<1> USE DEF connVars, tableVars, mainVars, msgVars, sendVars
<1>1. CASE MainStep
  <2>1. /\ UNCHANGED <<tpc, batch, todo, fresh>>
        /\ mpc' # "stop" => mpc # "stop" \/ tpc[Main] = "idle"
    BY <1>1 DEF MainStep, ReadRequest, Disconnect, ReadEof, Accept, CloseStep, CloseSocket,
                ClearQueue, DropFields, Forget, StopClose, StopDropFields
  <2> QED
    BY <2>1 DEF Batches
<1>2. ASSUME NEW m \in Msg, StopBegin(m) PROVE Batches'
  <2>1. /\ m \in fresh /\ fresh' = fresh \ {m} /\ mpc' = "stop"
        /\ tpc' = [tpc EXCEPT ![Main] = "route"] /\ batch' = [batch EXCEPT ![Main] = <<m>>]
        /\ UNCHANGED todo
    BY <1>2 DEF StopBegin
  <2>2. Range(<<m>>) = {m} /\ IsInjective(<<m>>)
    BY OneElem
  <2>3. /\ Main \in Thread /\ tpc'[Main] = "route" /\ batch'[Main] = <<m>>
        /\ \A u \in Thread \ {Main} : tpc'[u] = tpc[u] /\ batch'[u] = batch[u]
    BY <2>1 DEF TypeOK, Thread
  <2>4. Range(batch'[Main]) = {m} /\ IsInjective(batch'[Main])
    BY <2>2, <2>3
  <2> QED
    BY <2>1, <2>3, <2>4, GivenBatch
<1> QED
  BY <1>1, <1>2

\* The messages of a new send are in no other batch: they were fresh.
LEMMA BeginBatches ==
    ASSUME TypeOK, Batches, NEW t \in Sender, NEW c, NEW ms, NEW all,
           IsInjective(ms), Range(ms) \subseteq fresh, SendBegin(t, c, ms, all)
    PROVE  Batches'
<1>1. /\ fresh' = fresh \ Range(ms) /\ tpc' = [tpc EXCEPT ![t] = "route"]
      /\ batch' = [batch EXCEPT ![t] = ms] /\ UNCHANGED <<todo, mpc>>
  BY DEF SendBegin, mainVars
<1>2. t \in Thread /\ t # Main
  BY ServerAssumption DEF Thread
<1>3. \A u \in Thread \ {t} : tpc'[u] = tpc[u] /\ batch'[u] = batch[u]
  BY <1>1 DEF TypeOK
<1>4. tpc'[t] = "route" /\ batch'[t] = ms /\ tpc'[Main] = tpc[Main]
  BY <1>1, <1>2 DEF TypeOK, Thread
<1>5. IsInjective(batch'[t]) /\ Range(batch'[t]) = Range(ms)
  BY <1>4
<1> QED
  BY <1>1, <1>2, <1>3, <1>4, <1>5, GivenBatch DEF Batches

-----------------------------------------------------------------------------
(* The invariant every theorem below rests on.                             *)

\* What a step is: one of a thread in send(), one of the main thread, the beginning of a send
\* of fresh messages, or the dropping of one.
LEMMA StepKinds ==
    ASSUME TypeOK, [Next]_vars
    PROVE  \/ \E t \in Thread : SendStep(t)
           \/ MainStep
           \/ \E t \in Thread, M \in SUBSET fresh : Given(t, M)
           \/ Dropped
           \/ UNCHANGED vars
<1>1. ASSUME NEW t \in Sender, NEW c \in Conn \cup {None}, NEW n \in 1..MaxBatch,
             NEW ms \in {s \in [1..n -> fresh] : IsInjective(s)},
             NEW all \in IF c = None THEN {Range(ms)} ELSE SUBSET Range(ms),
             SendBegin(t, c, ms, all)
      PROVE  \E u \in Thread, M \in SUBSET fresh : Given(u, M)
  <2>1. t \in Thread /\ n \in Nat
    BY ServerAssumption DEF Thread
  <2>2. ms \in Seq(fresh) /\ IsInjective(ms) /\ Range(ms) \subseteq fresh
    BY <2>1, SeqDef DEF Range
  <2>3. fresh \subseteq Msg
    BY DEF TypeOK
  <2>4. ms \in Seq(Msg) /\ all \in SUBSET Msg
    BY <2>1, <2>2, <2>3
  <2>5. c \in asked \cup {None}
    BY <1>1 DEF SendBegin
  <2>6. Given(t, Range(ms))
    BY <1>1, <2>2, <2>4, <2>5 DEF Given
  <2> QED
    BY <2>1, <2>2, <2>6
<1>2. ASSUME NEW m \in Msg, StopBegin(m) PROVE \E u \in Thread, M \in SUBSET fresh : Given(u, M)
  <2>1. Main \in Thread /\ {m} \in SUBSET fresh /\ Given(Main, {m})
    BY <1>2 DEF Thread, StopBegin, Given
  <2> QED
    BY <2>1
<1>3. ASSUME NEW t \in Sender, NEW c \in Conn, NEW m \in Msg, DropReply(t, c, m) PROVE Dropped
  BY <1>3 DEF DropReply, Dropped
<1> QED
  BY <1>1, <1>2, <1>3 DEF Next, MainStep

TInv == TypeOK /\ TableInv /\ Batches

\* No connection, and nothing to send.
LEMMA TInvInit == Init => TInv
<1> SUFFICES ASSUME Init PROVE TInv
  OBVIOUS
<1> USE DEF Init
<1>1. TypeOK
  <2>1. <<>> \in Seq(Conn) /\ <<>> \in Seq(Msg)
    OBVIOUS
  <2> QED
    BY <2>1 DEF TypeOK
<1>2. Clients = {} /\ \A t \in Thread : Range(todo[t]) = {}
  BY NoElems DEF Clients
<1>3. TableInv
  <2>1. IsInjective(clients) /\ \A c \in Conn : sock[c] = "new" <=> fd[c] = None
    BY NoElems
  <2> QED
    BY <1>2, <2>1 DEF TableInv, Table, Polls, Known, Closes
<1>4. Batches
  <2>1. /\ \A t \in Thread : batch[t] = <<>> /\ todo[t] = <<>> /\ tpc[t] = "idle"
        /\ Main \in Thread
    BY DEF Thread
  <2> QED
    BY <2>1, NoElems DEF Batches
<1> QED
  BY <1>1, <1>3, <1>4 DEF TInv

\* Every step keeps the types, the table and the batches.
LEMMA TInvStep == TInv /\ [Next]_vars => TInv'
<1> SUFFICES ASSUME TInv, [Next]_vars PROVE TInv'
  OBVIOUS
<1>0. TypeOK /\ TableInv /\ Batches /\ Table
  BY DEF TInv, TableInv
<1>1. ASSUME NEW t \in Thread, SendStep(t) PROVE TInv'
  BY <1>0, <1>1, SenderTypes, SenderTable, SenderBatches DEF TInv
<1>2. CASE MainStep
  BY <1>0, <1>2, MainTypes, MainTable, MainBatches DEF TInv
<1>3. ASSUME NEW t \in Thread, NEW M \in SUBSET fresh, Given(t, M) PROVE TInv'
  <2>1. ASSUME NEW c \in asked \cup {None}, NEW ms \in Seq(Msg), NEW all \in SUBSET Msg,
               t \in Sender, M = Range(ms), IsInjective(ms), SendBegin(t, c, ms, all)
        PROVE  TInv'
    <3>1. TypeOK'
      BY <1>0, <2>1, BeginTypes
    <3>2. TableInv'
      BY <1>0, <2>1, BeginTable
    <3>3. Batches'
      BY <1>0, <2>1, BeginBatches
    <3> QED
      BY <3>1, <3>2, <3>3 DEF TInv
  <2>2. ASSUME NEW m \in Msg, StopBegin(m) PROVE TInv'
    BY <1>0, <2>2, MainTypes, MainTable, MainBatches DEF TInv
  <2> QED
    BY <1>3, <2>1, <2>2 DEF Given
<1>4. CASE UNCHANGED vars
  <2>1. TypeOK'
    BY <1>0, <1>4 DEF TypeOK, vars, connVars, tableVars, mainVars, msgVars, sendVars
  <2>2. TableInv'
    BY <1>0, <1>4 DEF TableInv, Table, Polls, Known, Clients, vars, connVars,
                      tableVars, mainVars, msgVars, sendVars
  <2>3. Batches'
    BY <1>0, <1>4 DEF Batches, vars, connVars, tableVars, mainVars, msgVars, sendVars
  <2> QED
    BY <2>1, <2>2, <2>3 DEF TInv
<1>5. CASE Dropped
  <2>1. TypeOK'
    BY <1>0, <1>5 DEF TypeOK, Dropped, mainVars, sendVars
  <2>2. TableInv'
    BY <1>0, <1>5 DEF TableInv, Table, Polls, Known, Clients, Dropped, mainVars, sendVars
  <2>3. Batches'
    BY <1>0, <1>5 DEF Batches, Dropped, mainVars, sendVars
  <2> QED
    BY <2>1, <2>2, <2>3 DEF TInv
<1> QED
  BY <1>0, <1>1, <1>2, <1>3, <1>4, <1>5, StepKinds

\* TypeOK: every variable keeps its type, for any connections, descriptors, messages and threads.
THEOREM ServerTyping == Spec => []TypeOK
<1>1. TInv => TypeOK
  BY DEF TInv
<1> QED
  BY <1>1, TInvInit, TInvStep, PTL DEF Spec

-----------------------------------------------------------------------------
(* Delivery.                                                               *)

Holds(t, c, m) == tpc[t] \in {"send", "body"} /\ At(t) = c /\ hold[t] = m

\* m is on its way to c: queued for it, popped, or written.
Reached(c, m) ==
    \/ m \in Range(queue[c])
    \/ m \in Written(c)
    \/ \E t \in Thread : Holds(t, c, m)

\* t has not looked up yet whom m is for.
Unspread(t, m) == m \in Range(batch[t]) /\ (tpc[t] \in {"route", "lookup"} \/ m # Head(batch[t]))

\* t is about to queue m for c.
Due(t, c, m) == tpc[t] \in {"add", "append"} /\ m = Head(batch[t]) /\ c \in Range(todo[t])

\* c may be written m.
For(c, m) == owner[m] \in {None, c} \/ (fd[owner[m]] = fd[c] /\ sock[owner[m]] \in Gone)

\* What is on its way to a connection nobody is going to queue for it again.
Spread ==
    \A c \in Conn, m \in Msg :
        Reached(c, m) => m \notin fresh /\ \A t \in Thread : ~Unspread(t, m) /\ ~Due(t, c, m)

\* It is in one place only: once in the queue, with one thread, or written.
Unique ==
    \A c \in Conn :
        /\ IsInjective(queue[c])
        /\ \A m \in Range(queue[c]) : m \notin Written(c) /\ \A t \in Thread : ~Holds(t, c, m)
        /\ \A t, u \in Thread, m \in Msg : Holds(t, c, m) /\ Holds(u, c, m) => t = u
        /\ \A t \in Thread, m \in Msg :
             Holds(t, c, m) => /\ tpc[t] = "send" => m \notin Written(c)
                               /\ <<"body", m>> \notin got[c]

Routed ==
    \A c \in Conn, m \in Msg :
        Reached(c, m) \/ (\E t \in Thread : Due(t, c, m)) => For(c, m)

DInv == Spread /\ Unique /\ Routed

\* Only to an accepted connection is anything on its way, or due.
LEMMA ReachedKnown ==
    ASSUME TInv, NEW c \in Conn, NEW m \in Msg,
           Reached(c, m) \/ \E t \in Thread : Due(t, c, m)
    PROVE  sock[c] # "new"
<1>1. CASE m \in Range(queue[c]) \/ m \in Written(c)
  <2>1. queue[c] # <<>> \/ got[c] # {}
    BY <1>1, NoElems DEF Written
  <2> QED
    BY <2>1 DEF TInv, TableInv, Known
<1>2. ASSUME NEW t \in Thread, Holds(t, c, m) PROVE sock[c] # "new"
  <2>1. todo[t] # <<>> /\ todo[t] \in Seq(Conn) /\ IsInjective(todo[t])
    BY <1>2 DEF Holds, TInv, TypeOK, Batches
  <2>2. c \in Range(todo[t])
    BY <1>2, <2>1, TailElems DEF Holds, At
  <2> QED
    BY <2>2 DEF TInv, TableInv, Known
<1>3. ASSUME NEW t \in Thread, Due(t, c, m) PROVE sock[c] # "new"
  BY <1>3 DEF Due, TInv, TableInv, Known
<1> QED
  BY <1>1, <1>2, <1>3 DEF Reached

\* What a thread has in its batch is not fresh.
LEMMA NotFresh ==
    ASSUME TInv, NEW t \in Thread
    PROVE  /\ \A m : Unspread(t, m) => m \in Range(batch[t]) /\ m \notin fresh
           /\ \A c, m : Due(t, c, m) => m \in Range(batch[t]) /\ m \notin fresh
<1>1. /\ IsInjective(batch[t]) /\ batch[t] \in Seq(Msg)
      /\ Range(batch[t]) \cap fresh = {}
      /\ tpc[t] \in {"add", "append"} => batch[t] # <<>>
  BY DEF TInv, TypeOK, Batches
<1>2. batch[t] # <<>> => Head(batch[t]) \in Range(batch[t])
  BY <1>1, TailElems
<1> QED
  BY <1>1, <1>2 DEF Unspread, Due

\* A connection does not stop being the right one for a message that was sent.
LEMMA ForKeeps ==
    ASSUME TInv, NEW c \in Conn, NEW m \in Msg, For(c, m), owner'[m] = owner[m],
           sock[c] # "new",
           \A d \in Conn : sock[d] # "new" =>
               fd'[d] = fd[d] /\ (sock[d] \in Gone => sock'[d] \in Gone)
    PROVE  For(c, m)'
<1>1. owner[m] # None => owner[m] \in Conn /\ sock[owner[m]] # "new"
  BY DEF TInv, TypeOK, TableInv, Known
<1> QED
  BY <1>1 DEF For

\* Spread and Routed, over every step but the one that queues a message.
LEMMA Carry ==
    ASSUME TInv, Spread, Routed, fresh' \subseteq fresh,
           \A c \in Conn, m \in Msg : Reached(c, m)' => Reached(c, m),
           \A t \in Thread, m \in Msg : Unspread(t, m)' => Unspread(t, m) \/ m \in fresh,
           \A t \in Thread, c \in Conn, m \in Msg :
               Due(t, c, m)' => Due(t, c, m) \/ (Unspread(t, m) /\ For(c, m)),
           \A t \in Thread, c \in Conn, m \in Msg : Due(t, c, m)' => sock[c] # "new",
           \A d \in Conn : sock[d] # "new" =>
               fd'[d] = fd[d] /\ (sock[d] \in Gone => sock'[d] \in Gone),
           \A m \in Msg \ fresh : owner'[m] = owner[m]
    PROVE  Spread' /\ Routed'
<1>1. ASSUME NEW c \in Conn, NEW m \in Msg, Reached(c, m)'
      PROVE  m \notin fresh' /\ \A t \in Thread : ~Unspread(t, m)' /\ ~Due(t, c, m)'
  BY <1>1 DEF Spread
<1>2. ASSUME NEW c \in Conn, NEW m \in Msg, Reached(c, m)' PROVE For(c, m)'
  <2>1. Reached(c, m) /\ m \notin fresh /\ For(c, m)
    BY <1>2 DEF Spread, Routed
  <2> QED
    BY <2>1, ForKeeps, ReachedKnown
<1>3. ASSUME NEW c \in Conn, NEW m \in Msg, NEW t \in Thread, Due(t, c, m)' PROVE For(c, m)'
  <2>1. For(c, m) /\ m \notin fresh
    BY <1>3, NotFresh DEF Routed
  <2> QED
    BY <1>3, <2>1, ForKeeps
<1>4. Spread'
  BY <1>1 DEF Spread
<1>5. Routed'
  BY <1>2, <1>3 DEF Routed
<1> QED
  BY <1>4, <1>5

\* Unique, over every step that neither queues nor pops nor writes.
LEMMA UniqueKeeps ==
    ASSUME Unique, UNCHANGED got,
           \A c \in Conn : queue'[c] = queue[c] \/ queue'[c] = <<>>,
           \A t \in Thread, c \in Conn, m \in Msg :
               Holds(t, c, m)' => Holds(t, c, m) /\ tpc'[t] = tpc[t],
           \A c \in Conn : Range(queue[c]) \subseteq Msg
    PROVE  Unique'
<1>1. \A c \in Conn : Written(c)' = Written(c)
  BY DEF Written
<1>2. \A c \in Conn : /\ IsInjective(queue'[c])
                      /\ Range(queue'[c]) \subseteq Range(queue[c])
  BY NoElems DEF Unique
<1>3. \A c \in Conn : \A m \in Range(queue'[c]) :
          m \notin Written(c)' /\ \A t \in Thread : ~Holds(t, c, m)'
  BY <1>1, <1>2 DEF Unique
<1>4. \A c \in Conn : \A t, u \in Thread, m \in Msg : Holds(t, c, m)' /\ Holds(u, c, m)' => t = u
  BY DEF Unique
<1>5. \A c \in Conn : \A t \in Thread, m \in Msg :
        Holds(t, c, m)' => /\ tpc'[t] = "send" => m \notin Written(c)'
                           /\ <<"body", m>> \notin got'[c]
  BY <1>1 DEF Unique
<1> QED
  BY <1>2, <1>3, <1>4, <1>5 DEF Unique

\* What t does leaves the messages of every other thread alone.
Alone(t) == \A u \in Thread \ {t} : /\ tpc'[u] = tpc[u] /\ batch'[u] = batch[u]
                                    /\ todo'[u] = todo[u] /\ hold'[u] = hold[u]

\* Then what it routes, queues and holds is what it was.
LEMMA AloneSame ==
    ASSUME NEW t \in Thread, Alone(t), NEW u \in Thread \ {t}
    PROVE  /\ \A m : Unspread(u, m)' <=> Unspread(u, m)
           /\ \A c, m : Due(u, c, m)' <=> Due(u, c, m)
           /\ \A c, m : Holds(u, c, m)' <=> Holds(u, c, m)
BY DEF Alone, Unspread, Due, Holds, At

\* A step of send() that works on the thread's own variables only.
LEMMA MoveKeeps ==
    ASSUME TInv, DInv, NEW t \in Thread, Alone(t),
           UNCHANGED <<fd, sock, queue, got, fresh, owner>>,
           tpc'[t] \notin {"send", "body"},
           \A m : Unspread(t, m)' => Unspread(t, m),
           \A c, m : Due(t, c, m)' => \/ Due(t, c, m)
                                      \/ Unspread(t, m) /\ For(c, m) /\ sock[c] # "new"
    PROVE  DInv'
<1>1. \A c, m : ~Holds(t, c, m)'
  BY DEF Holds
<1>2. \A u \in Thread, c \in Conn, m \in Msg :
        Holds(u, c, m)' => Holds(u, c, m) /\ tpc'[u] = tpc[u]
  BY <1>1, AloneSame DEF Alone
<1>3. \A c \in Conn : Written(c)' = Written(c)
  BY DEF Written
<1>4. \A c \in Conn, m \in Msg : Reached(c, m)' => Reached(c, m)
  BY <1>2, <1>3 DEF Reached
<1>5. \A u \in Thread, m \in Msg : Unspread(u, m)' => Unspread(u, m)
  BY AloneSame
<1>6. \A u \in Thread, c \in Conn, m \in Msg :
        Due(u, c, m)' => \/ Due(u, c, m)
                         \/ Unspread(u, m) /\ For(c, m) /\ sock[c] # "new"
  BY AloneSame
<1>7. \A u \in Thread, c \in Conn, m \in Msg : Due(u, c, m)' => sock[c] # "new"
  BY <1>6, ReachedKnown
<1>8. Spread' /\ Routed'
  BY <1>4, <1>5, <1>6, <1>7, Carry DEF DInv
<1>9. \A c \in Conn : Range(queue[c]) \subseteq Msg
  BY RangeOfSeq DEF TInv, TypeOK
<1>10. Unique'
  BY <1>2, <1>9, UniqueKeeps DEF DInv
<1> QED
  BY <1>8, <1>10 DEF DInv

\* The main thread reads requests, accepts and closes.
LEMMA MainKeeps ==
    ASSUME TInv, DInv, MainStep
    PROVE  DInv'
<1> USE DEF connVars, tableVars, mainVars, msgVars, sendVars
<1> DEFINE Quiet == /\ UNCHANGED <<tpc, batch, todo, hold, got, fresh, owner>>
                    /\ \A c \in Conn : queue'[c] = queue[c] \/ queue'[c] = <<>>
                    /\ \A d \in Conn : sock[d] # "new" =>
                         fd'[d] = fd[d] /\ (sock[d] \in Gone => sock'[d] \in Gone)
<1>1. Quiet
  <2> USE DEF TInv, TypeOK, Gone
  <2>1. ASSUME NEW c \in Conn, NEW f \in Fd, Accept(c, f) PROVE Quiet
    BY <2>1 DEF Accept
  <2>2. ASSUME NEW c \in Conn, ReadRequest(c) \/ Disconnect(c) \/ ReadEof(c) PROVE Quiet
    BY <2>2 DEF ReadRequest, Disconnect, ReadEof
  <2>3. CASE CloseSocket \/ ClearQueue \/ DropFields
    BY <2>3 DEF CloseSocket, ClearQueue, DropFields
  <2>4. CASE Forget \/ StopClose \/ StopDropFields
    BY <2>4 DEF Forget, StopClose, StopDropFields
  <2> QED
    BY <2>1, <2>2, <2>3, <2>4 DEF MainStep, CloseStep
<1>2. /\ \A u \in Thread, c \in Conn, m \in Msg :
           Holds(u, c, m)' => Holds(u, c, m) /\ tpc'[u] = tpc[u]
      /\ \A u \in Thread, m \in Msg : Unspread(u, m)' => Unspread(u, m)
      /\ \A u \in Thread, c \in Conn, m \in Msg : Due(u, c, m)' => Due(u, c, m)
  BY <1>1 DEF Holds, Unspread, Due, At
<1>3. \A c \in Conn, m \in Msg : Reached(c, m)' => Reached(c, m)
  BY <1>1, <1>2, NoElems DEF Reached, Written
<1>4. \A u \in Thread, c \in Conn, m \in Msg : Due(u, c, m)' => sock[c] # "new"
  BY <1>2, ReachedKnown
<1>5. Spread' /\ Routed'
  BY <1>1, <1>2, <1>3, <1>4, Carry DEF DInv
<1>6. \A c \in Conn : Range(queue[c]) \subseteq Msg
  BY RangeOfSeq DEF TInv, TypeOK
<1>7. Unique'
  BY <1>1, <1>2, <1>6, UniqueKeeps DEF DInv
<1> QED
  BY <1>5, <1>7 DEF DInv

\* A thread gets fresh messages to send.
LEMMA GivenKeeps ==
    ASSUME TInv, DInv, NEW t \in Thread, NEW M \in SUBSET fresh, Given(t, M)
    PROVE  DInv'
<1> DEFINE Begun == /\ UNCHANGED <<todo, hold, queue, got, fd, sock>>
                    /\ tpc'[t] = "route" /\ Range(batch'[t]) = M /\ fresh' \subseteq fresh
                    /\ \A m \in Msg \ fresh : owner'[m] = owner[m]
                    /\ Alone(t)
<1>1. Begun
  <2> USE DEF TInv, TypeOK, connVars, tableVars
  <2>1. ASSUME NEW c \in asked \cup {None}, NEW ms \in Seq(Msg), NEW all \in SUBSET Msg,
               M = Range(ms), SendBegin(t, c, ms, all)
        PROVE  Begun
    BY <2>1 DEF SendBegin, Alone
  <2>2. ASSUME NEW m \in Msg, t = Main, M = {m}, StopBegin(m) PROVE Begun
    <3>1. Range(<<m>>) = {m}
      BY OneElem
    <3> QED
      BY <2>2, <3>1 DEF StopBegin, Alone
  <2> QED
    BY <2>1, <2>2 DEF Given
<1>2. /\ \A u \in Thread, c \in Conn, m \in Msg :
           Holds(u, c, m)' => Holds(u, c, m) /\ tpc'[u] = tpc[u]
      /\ \A u \in Thread, m \in Msg : Unspread(u, m)' => Unspread(u, m) \/ m \in fresh
      /\ \A u \in Thread, c \in Conn, m \in Msg : Due(u, c, m)' => Due(u, c, m)
  <2>1. /\ \A c, m : ~Holds(t, c, m)' /\ ~Due(t, c, m)'
        /\ \A m : Unspread(t, m)' => m \in fresh
    <3>1. tpc'[t] = "route" /\ Range(batch'[t]) \subseteq fresh
      BY <1>1
    <3> QED
      BY <3>1 DEF Holds, Due, Unspread
  <2> QED
    BY <1>1, <2>1, AloneSame DEF Alone
<1>3. \A c \in Conn, m \in Msg : Reached(c, m)' => Reached(c, m)
  BY <1>1, <1>2 DEF Reached, Written
<1>4. \A u \in Thread, c \in Conn, m \in Msg : Due(u, c, m)' => sock[c] # "new"
  BY <1>2, ReachedKnown
<1>5. Spread' /\ Routed'
  BY <1>1, <1>2, <1>3, <1>4, Carry DEF DInv
<1>6. \A c \in Conn : Range(queue[c]) \subseteq Msg
  BY RangeOfSeq DEF TInv, TypeOK
<1>7. Unique'
  BY <1>1, <1>2, <1>6, UniqueKeeps DEF DInv
<1> QED
  BY <1>5, <1>7 DEF DInv

\* The steps of send() that neither queue, nor pop, nor write.
LEMMA MovesKeep ==
    ASSUME TInv, DInv, NEW t \in Thread,
           \/ RouteAll(t) \/ RouteOne(t) \/ Lookup(t) \/ AddTest(t) \/ AddEnd(t)
           \/ FlushBegin(t) \/ FlushLen(t) \/ FlushEnd(t) \/ Unwind(t)
    PROVE  DInv'
<1> USE DEF connVars, tableVars, msgVars, Goto, Advance
<1>0. /\ tpc \in [Thread -> {"idle", "route", "lookup", "add", "append", "flush",
                             "pop", "send", "body", "raised"}]
      /\ batch \in [Thread -> Seq(Msg)] /\ todo \in [Thread -> Seq(Conn)]
      /\ clients \in Seq(Conn)
      /\ hold \in [Thread -> Msg \cup {None}] /\ owner \in [Msg -> Conn \cup {None}]
      /\ IsInjective(batch[t]) /\ IsInjective(todo[t])
      /\ tpc[t] \in {"lookup", "add", "append"} => batch[t] # <<>>
  BY DEF TInv, TypeOK, Batches
<1>1. /\ batch[t] # <<>> => /\ Head(batch[t]) \in Range(batch[t]) /\ Head(batch[t]) \in Msg
                            /\ Range(Tail(batch[t])) = Range(batch[t]) \ {Head(batch[t])}
      /\ todo[t] # <<>> => Range(Tail(todo[t])) \subseteq Range(todo[t])
      /\ Range(<<>>) = {}
  BY <1>0, TailElems, NoElems
<1> DEFINE Still == /\ Alone(t)
                    /\ UNCHANGED <<fd, sock, queue, got, fresh, owner>>
                    /\ tpc'[t] \notin {"send", "body"}
<1>2. Still
  <2>1. CASE RouteAll(t) \/ RouteOne(t) \/ Lookup(t)
    BY <1>0, <2>1 DEF RouteAll, RouteOne, Lookup, Local, Alone
  <2>2. CASE AddTest(t) \/ AddEnd(t) \/ FlushBegin(t)
    BY <1>0, <2>2 DEF AddTest, AddEnd, FlushBegin, Local, Alone
  <2>3. CASE FlushLen(t) \/ FlushEnd(t) \/ Unwind(t)
    BY <1>0, <2>3 DEF FlushLen, FlushEnd, Unwind, Local, Alone
  <2> QED
    BY <2>1, <2>2, <2>3
<1> DEFINE NoNewUnspread == \A m : Unspread(t, m)' => Unspread(t, m)
           NoNewDue == \A c, m : Due(t, c, m)' =>
                         \/ Due(t, c, m)
                         \/ Unspread(t, m) /\ For(c, m) /\ sock[c] # "new"
<1>3. CASE RouteAll(t)
  <2>1. /\ tpc[t] = "route" /\ batch[t] # <<>> /\ owner[Head(batch[t])] = None
        /\ todo'[t] = clients /\ tpc'[t] = "add" /\ batch'[t] = batch[t]
    BY <1>0, <1>3 DEF RouteAll, Local
  <2>2. \A c \in Range(clients) : sock[c] # "new"
    BY DEF TInv, TableInv, Table, Clients
  <2>3. NoNewUnspread
    BY <2>1 DEF Unspread
  <2>4. NoNewDue
    BY <1>1, <2>1, <2>2 DEF Due, Unspread, For
  <2> QED
    BY <1>2, <2>3, <2>4, MoveKeeps
<1>4. CASE RouteOne(t) \/ AddEnd(t)
  <2>1. /\ tpc'[t] \in {"route", "lookup"}
        /\ \/ tpc[t] = "route" /\ batch'[t] = batch[t]
           \/ batch[t] # <<>> /\ batch'[t] = Tail(batch[t])
    BY <1>0, <1>4 DEF RouteOne, AddEnd, Local
  <2>2. NoNewUnspread
    BY <1>1, <2>1, <1>4 DEF Unspread, RouteOne
  <2>3. NoNewDue
    BY <2>1 DEF Due
  <2> QED
    BY <1>2, <2>2, <2>3, MoveKeeps
<1>5. CASE Lookup(t)
  <2>1. /\ tpc[t] = "lookup" /\ batch'[t] = batch[t]
        /\ \/ tpc'[t] = "raised"
           \/ \E f : /\ f = fd[owner[Head(batch[t])]] /\ Client(f) # {}
                     /\ tpc'[t] = "add" /\ todo'[t] = Addressee(f)
    BY <1>0, <1>5 DEF Lookup, Local
  <2>2. NoNewUnspread
    BY <2>1 DEF Unspread
  <2>3. CASE tpc'[t] = "raised"
    BY <1>2, <2>2, <2>3, MoveKeeps DEF Due
  <2>4. ASSUME NEW f, f = fd[owner[Head(batch[t])]], Client(f) # {},
               tpc'[t] = "add", todo'[t] = Addressee(f)
        PROVE  NoNewDue
    <3>1. PICK c \in Clients : fd[c] = f /\ Addressee(f) = <<c>>
      BY <2>4, OneAddressee DEF TInv, TableInv
    <3>2. Range(todo'[t]) = {c} /\ sock[c] # "new" /\ c \in Conn
      BY <2>4, <3>1, OneElem, ClientsAreConns DEF TInv, TableInv, Table
    <3>3. Unspread(t, Head(batch[t]))
      BY <1>0, <1>1, <2>1 DEF Unspread
    <3>4. For(c, Head(batch[t]))
      <4>1. owner[Head(batch[t])] \in Conn \cup {None}
        BY <1>0, <1>1, <2>1
      <4> QED
        BY <2>4, <3>1, <4>1 DEF For, TInv, TableInv, Table
    <3> QED
      BY <2>1, <3>2, <3>3, <3>4 DEF Due
  <2> QED
    BY <1>2, <2>1, <2>2, <2>3, <2>4, MoveKeeps
<1>6. CASE AddTest(t)
  <2>1. /\ tpc[t] = "add" /\ tpc'[t] \in {"add", "append"} /\ batch'[t] = batch[t]
        /\ Range(todo'[t]) \subseteq Range(todo[t])
    BY <1>0, <1>1, <1>6 DEF AddTest, Local
  <2>2. NoNewUnspread /\ NoNewDue
    BY <2>1 DEF Unspread, Due
  <2> QED
    BY <1>2, <2>2, MoveKeeps
<1>7. CASE FlushBegin(t) \/ FlushLen(t) \/ FlushEnd(t) \/ Unwind(t)
  <2>1. /\ tpc'[t] \in {"flush", "pop", "idle"}
        /\ batch'[t] = batch[t] \/ batch'[t] = <<>>
        /\ tpc[t] = "raised" \/ batch[t] = <<>>
    BY <1>0, <1>7 DEF FlushBegin, FlushLen, FlushEnd, Unwind, Local, TInv, Batches
  <2>2. tpc[t] = "raised" => batch'[t] = <<>>
    BY <1>0, <1>7 DEF FlushBegin, FlushLen, FlushEnd, Unwind
  <2>3. NoNewUnspread /\ NoNewDue
    BY <1>1, <2>1, <2>2 DEF Unspread, Due
  <2> QED
    BY <1>2, <2>3, MoveKeeps
<1> QED
  BY <1>3, <1>4, <1>5, <1>6, <1>7

\* The connection that a thread works on is in its list.
LEMMA AtElems ==
    ASSUME TInv, NEW t \in Thread, todo[t] # <<>>
    PROVE  /\ At(t) \in Conn /\ At(t) \in Range(todo[t]) /\ sock[At(t)] # "new"
           /\ Range(Tail(todo[t])) = Range(todo[t]) \ {At(t)}
<1>1. todo[t] \in Seq(Conn) /\ IsInjective(todo[t])
  BY DEF TInv, TypeOK, Batches
<1>2. At(t) \in Range(todo[t]) /\ Range(Tail(todo[t])) = Range(todo[t]) \ {At(t)}
  BY <1>1, TailElems DEF At
<1> QED
  BY <1>1, <1>2, RangeOfSeq DEF TInv, TableInv, Known

\* Conn.add() queues a message that is nowhere on its way to that connection.
LEMMA AppendKeeps ==
    ASSUME TInv, DInv, NEW t \in Thread, AddAppend(t)
    PROVE  DInv'
<1> USE DEF connVars, tableVars, msgVars, Goto, Advance
<1>0. /\ tpc \in [Thread -> {"idle", "route", "lookup", "add", "append", "flush",
                             "pop", "send", "body", "raised"}]
      /\ batch \in [Thread -> Seq(Msg)] /\ todo \in [Thread -> Seq(Conn)]
      /\ queue \in [Conn -> Seq(Msg)]
      /\ IsInjective(batch[t]) /\ IsInjective(todo[t])
      /\ tpc[t] = "append" /\ batch[t] # <<>> /\ todo[t] # <<>>
  BY DEF TInv, TypeOK, Batches, AddAppend
<1> DEFINE c == At(t)
           m == Head(batch[t])
<1>1. /\ m \in Range(batch[t]) /\ m \in Msg
      /\ c \in Conn /\ c \in Range(todo[t]) /\ sock[c] # "new"
      /\ Range(Tail(todo[t])) = Range(todo[t]) \ {c}
  BY <1>0, TailElems, AtElems
<1>2. Due(t, c, m)
  BY <1>0, <1>1 DEF Due
<1>3. CASE sock[c] = "none"
  <2>1. /\ Alone(t) /\ UNCHANGED <<fd, sock, queue, got, fresh, owner>> /\ tpc'[t] = "raised"
        /\ batch'[t] = batch[t]
    BY <1>0, <1>3 DEF AddAppend, Alone
  <2>2. (\A x : Unspread(t, x)' => Unspread(t, x)) /\ \A d, x : ~Due(t, d, x)'
    BY <1>0, <2>1 DEF Unspread, Due
  <2> QED
    BY <2>1, <2>2, MoveKeeps
<1>4. CASE sock[c] # "none"
  <2>1. /\ Alone(t) /\ UNCHANGED <<fd, sock, got, fresh, owner, batch, hold>>
        /\ queue' = [queue EXCEPT ![c] = Append(queue[c], m)]
        /\ tpc'[t] = "add" /\ todo'[t] = Tail(todo[t])
    BY <1>0, <1>4 DEF AddAppend, Alone
  <2>2. ~Reached(c, m) /\ m \notin fresh /\ For(c, m)
    BY <1>1, <1>2, NotFresh DEF DInv, Spread, Routed
  <2>3. queue[c] \in Seq(Msg) /\ IsInjective(queue[c]) /\ m \notin Range(queue[c])
    BY <1>0, <1>1, <2>2 DEF DInv, Unique, Reached
  <2>4. /\ Range(queue'[c]) = Range(queue[c]) \cup {m} /\ IsInjective(queue'[c])
        /\ \A d \in Conn \ {c} : queue'[d] = queue[d]
    BY <1>0, <1>1, <2>1, <2>3, AppendElems
  <2>5. /\ \A u \in Thread : \A d, x : Holds(u, d, x)' <=> Holds(u, d, x)
        /\ \A d, x : ~Holds(t, d, x) /\ ~Holds(t, d, x)'
    <3>1. \A d, x : ~Holds(t, d, x) /\ ~Holds(t, d, x)'
      BY <1>0, <2>1 DEF Holds
    <3> QED
      BY <2>1, <3>1, AloneSame
  <2>6. \A u \in Thread : \A d, x : Unspread(u, x)' => Unspread(u, x)
    <3>1. \A x : Unspread(t, x)' => Unspread(t, x)
      BY <1>0, <2>1 DEF Unspread
    <3> QED
      BY <2>1, <3>1, AloneSame
  <2>7. \A u \in Thread : \A d, x : Due(u, d, x)' => Due(u, d, x) /\ ~(d = c /\ x = m)
    <3>1. \A d, x : Due(t, d, x)' => Due(t, d, x) /\ d # c
      BY <1>0, <1>1, <2>1 DEF Due
    <3>2. \A u \in Thread \ {t} : \A d : ~Due(u, d, m)
      BY <1>1, NotFresh DEF TInv, Batches
    <3> QED
      BY <2>1, <3>1, <3>2, AloneSame
  <2>8. \A u \in Thread : ~Unspread(u, m)
    <3>1. ~Unspread(t, m)
      BY <1>0 DEF Unspread
    <3>2. \A u \in Thread \ {t} : ~Unspread(u, m)
      BY <1>1, NotFresh DEF TInv, Batches
    <3> QED
      BY <3>1, <3>2
  <2>9. \A d \in Conn : Written(d)' = Written(d)
    BY <2>1 DEF Written
  <2>10. \A d \in Conn, x \in Msg : Reached(d, x)' => Reached(d, x) \/ (d = c /\ x = m)
    BY <2>4, <2>5, <2>9 DEF Reached
  <2>11. \A d, x : For(d, x)' <=> For(d, x)
    BY <2>1 DEF For
  <2>12. Spread'
    BY <2>1, <2>2, <2>6, <2>7, <2>8, <2>10 DEF DInv, Spread
  <2>13. Routed'
    BY <2>2, <2>7, <2>10, <2>11 DEF DInv, Routed
  <2>14. Unique'
    <3>1. \A u \in Thread : \A d, x : Holds(u, d, x)' => Holds(u, d, x) /\ tpc'[u] = tpc[u]
      BY <2>1, <2>5 DEF Alone
    <3>2. ASSUME NEW d \in Conn
          PROVE  /\ IsInjective(queue'[d])
                 /\ \A x \in Range(queue'[d]) :
                      x \notin Written(d)' /\ \A u \in Thread : ~Holds(u, d, x)'
      <4>1. CASE d = c
        BY <2>2, <2>4, <2>5, <2>9, <4>1 DEF DInv, Unique, Reached
      <4>2. CASE d # c
        BY <2>4, <2>5, <2>9, <4>2 DEF DInv, Unique
      <4> QED
        BY <4>1, <4>2
    <3>3. ASSUME NEW d \in Conn
          PROVE  /\ \A u, v \in Thread, x \in Msg : Holds(u, d, x)' /\ Holds(v, d, x)' => u = v
                 /\ \A u \in Thread, x \in Msg :
                      Holds(u, d, x)' => /\ tpc'[u] = "send" => x \notin Written(d)'
                                         /\ <<"body", x>> \notin got'[d]
      BY <2>1, <2>9, <3>1 DEF DInv, Unique
    <3> QED
      BY <3>2, <3>3 DEF Unique
  <2> QED
    BY <2>12, <2>13, <2>14 DEF DInv
<1> QED
  BY <1>3, <1>4

\* Conn.flush() pops a message: from then on one thread has it, and the queue has not.
LEMMA PopKeeps ==
    ASSUME TInv, DInv, NEW t \in Thread, FlushPop(t)
    PROVE  DInv'
<1> USE DEF connVars, tableVars, msgVars, Goto, Advance
<1>0. /\ tpc \in [Thread -> {"idle", "route", "lookup", "add", "append", "flush",
                             "pop", "send", "body", "raised"}]
      /\ batch \in [Thread -> Seq(Msg)] /\ todo \in [Thread -> Seq(Conn)]
      /\ queue \in [Conn -> Seq(Msg)] /\ hold \in [Thread -> Msg \cup {None}]
      /\ tpc[t] = "pop" /\ batch[t] = <<>> /\ todo[t] # <<>>
  BY DEF TInv, TypeOK, Batches, FlushPop
<1> DEFINE c == At(t)
           m == Last(queue[c])
<1>1. /\ c \in Conn /\ Range(Tail(todo[t])) = Range(todo[t]) \ {c}
      /\ \A x : x \notin Range(batch[t])
  BY <1>0, AtElems, NoElems
<1>2. /\ Alone(t) /\ UNCHANGED <<fd, sock, got, fresh, owner, batch>>
      /\ \A d, x : ~Holds(t, d, x) /\ ~Due(t, d, x)
  BY <1>0 DEF FlushPop, Alone, Holds, Due
<1>3. CASE tpc'[t] \in {"flush", "raised"} /\ UNCHANGED queue
  <2>1. (\A x : Unspread(t, x)' => Unspread(t, x)) /\ \A d, x : ~Due(t, d, x)'
    BY <1>1, <1>2, <1>3 DEF Unspread, Due
  <2> QED
    BY <1>2, <1>3, <2>1, MoveKeeps
<1>4. CASE /\ queue[c] # <<>> /\ hold' = [hold EXCEPT ![t] = m]
           /\ queue' = [queue EXCEPT ![c] = Front(@)]
           /\ tpc' = [tpc EXCEPT ![t] = "send"] /\ UNCHANGED todo
  <2>1. queue[c] \in Seq(Msg) /\ IsInjective(queue[c])
    BY <1>0, <1>1 DEF DInv, Unique
  <2>2. /\ m \in Range(queue[c]) /\ m \in Msg
        /\ queue'[c] = Front(queue[c]) /\ IsInjective(queue'[c])
        /\ Range(queue'[c]) = Range(queue[c]) \ {m}
        /\ \A d \in Conn \ {c} : queue'[d] = queue[d]
    BY <1>0, <1>1, <1>4, <2>1, FrontElems, FrontType
  <2>3. tpc'[t] = "send" /\ hold'[t] = m /\ todo'[t] = todo[t]
    BY <1>0, <1>4
  <2>4. \A d, x : Holds(t, d, x)' <=> d = c /\ x = m
    BY <2>3 DEF Holds, At
  <2>5. \A u \in Thread \ {t} : \A d, x : Holds(u, d, x)' <=> Holds(u, d, x)
    BY <1>2, AloneSame
  <2>6. \A d \in Conn : Written(d)' = Written(d)
    BY <1>2 DEF Written
  <2>7. \A d \in Conn, x \in Msg : Reached(d, x)' => Reached(d, x)
    BY <2>2, <2>4, <2>5, <2>6 DEF Reached
  <2>8. /\ \A u \in Thread : \A x : Unspread(u, x)' => Unspread(u, x)
        /\ \A u \in Thread : \A d, x : Due(u, d, x)' => Due(u, d, x)
    <3>1. \A d, x : ~Unspread(t, x)' /\ ~Due(t, d, x)'
      BY <1>1, <1>2, <2>3 DEF Unspread, Due
    <3> QED
      BY <1>2, <3>1, AloneSame
  <2>9. \A u \in Thread, d \in Conn, x \in Msg : Due(u, d, x)' => sock[d] # "new"
    BY <2>8, ReachedKnown
  <2>10. Spread' /\ Routed'
    BY <1>2, <2>7, <2>8, <2>9, Carry DEF DInv
  <2>11. /\ m \notin Written(c) /\ \A u \in Thread : ~Holds(u, c, m)
         /\ <<"body", m>> \notin got[c]
    <3>1. m \notin Written(c) /\ \A u \in Thread : ~Holds(u, c, m)
      BY <1>1, <2>2 DEF DInv, Unique
    <3>2. <<"body", m>>[2] = m
      OBVIOUS
    <3> QED
      BY <3>1, <3>2 DEF Written
  <2>12. ASSUME NEW d \in Conn
         PROVE  /\ IsInjective(queue'[d])
                /\ \A x \in Range(queue'[d]) :
                     x \notin Written(d)' /\ \A u \in Thread : ~Holds(u, d, x)'
    <3>1. CASE d = c
      BY <2>2, <2>4, <2>5, <2>6, <3>1 DEF DInv, Unique
    <3>2. CASE d # c
      BY <2>2, <2>4, <2>5, <2>6, <3>2 DEF DInv, Unique
    <3> QED
      BY <3>1, <3>2
  <2>13. ASSUME NEW d \in Conn
         PROVE  \A u, v \in Thread, x \in Msg : Holds(u, d, x)' /\ Holds(v, d, x)' => u = v
    BY <2>4, <2>5, <2>11 DEF DInv, Unique
  <2>14. ASSUME NEW d \in Conn, NEW u \in Thread, NEW x \in Msg, Holds(u, d, x)'
         PROVE  /\ tpc'[u] = "send" => x \notin Written(d)'
                /\ <<"body", x>> \notin got'[d]
    <3>1. CASE u = t
      BY <1>2, <2>4, <2>6, <2>11, <2>14, <3>1
    <3>2. CASE u # t
      BY <1>2, <2>5, <2>6, <2>14, <3>2 DEF DInv, Unique, Alone
    <3> QED
      BY <3>1, <3>2
  <2>15. Unique'
    BY <2>12, <2>13, <2>14 DEF Unique
  <2> QED
    BY <2>10, <2>15 DEF DInv
<1> QED
  BY <1>0, <1>3, <1>4 DEF FlushPop, PopLast

\* m.send() writes one part of the message the thread holds, or fails.
LEMMA WriteKeeps ==
    ASSUME TInv, DInv, NEW t \in Thread, SendHead(t) \/ SendBody(t)
    PROVE  DInv'
<1> USE DEF connVars, tableVars, msgVars, mainVars, Goto, Advance
<1>0. /\ tpc \in [Thread -> {"idle", "route", "lookup", "add", "append", "flush",
                             "pop", "send", "body", "raised"}]
      /\ batch \in [Thread -> Seq(Msg)] /\ todo \in [Thread -> Seq(Conn)]
      /\ got \in [Conn -> SUBSET ({"head", "body"} \X Msg)]
      /\ queue \in [Conn -> Seq(Msg)] /\ hold \in [Thread -> Msg \cup {None}]
      /\ tpc[t] \in {"send", "body"} /\ batch[t] = <<>> /\ todo[t] # <<>> /\ hold[t] \in Msg
  BY DEF TInv, TypeOK, Batches, SendHead, SendBody
<1>8. PICK c \in Conn, m \in Msg : c = At(t) /\ m = hold[t]
  BY <1>0, AtElems
<1>1. \A x : x \notin Range(batch[t])
  BY <1>0, NoElems
<1> USE <1>8
<1>2. /\ Alone(t) /\ UNCHANGED <<fd, sock, queue, fresh, owner, batch, todo>>
      /\ Holds(t, c, m) /\ \A d, x : ~Due(t, d, x)
  BY <1>0 DEF SendHead, SendBody, Write, Alone, Holds, Due
<1>3. /\ \A u \in Thread : \A x : Unspread(u, x)' => Unspread(u, x)
      /\ \A u \in Thread : \A d, x : Due(u, d, x)' => Due(u, d, x)
  <2>1. tpc'[t] \in {"body", "flush"} /\ batch'[t] = batch[t]
    BY <1>0, <1>2 DEF SendHead, SendBody, Write
  <2>2. \A d, x : ~Unspread(t, x)' /\ ~Due(t, d, x)'
    BY <1>1, <2>1 DEF Unspread, Due
  <2> QED
    BY <1>2, <2>2, AloneSame
<1>4. CASE tpc'[t] = "flush" /\ UNCHANGED got
  BY <1>2, <1>3, <1>4, MoveKeeps
<1>5. ASSUME NEW part \in {"head", "body"},
             got' = [got EXCEPT ![c] = @ \cup {<<part, m>>}],
             \/ part = "head" /\ tpc'[t] = "body" /\ hold'[t] = m
             \/ part = "body" /\ tpc'[t] = "flush"
      PROVE  DInv'
  <2>1. /\ got'[c] = got[c] \cup {<<part, m>>}
        /\ \A d \in Conn \ {c} : got'[d] = got[d]
    BY <1>0, <1>1, <1>5
  <2>2. /\ Written(c)' = Written(c) \cup {m}
        /\ \A d \in Conn \ {c} : Written(d)' = Written(d)
    <3>1. <<part, m>>[2] = m
      OBVIOUS
    <3> QED
      BY <2>1, <3>1 DEF Written
  <2>3. /\ \A d, x : Holds(t, d, x)' => d = c /\ x = m /\ part = "head"
        /\ \A u \in Thread : \A d, x : Holds(u, d, x)' => Holds(u, d, x)
    <3>1. \A d, x : Holds(t, d, x)' => d = c /\ x = m /\ part = "head" /\ Holds(t, d, x)
      BY <1>2, <1>5 DEF Holds, At
    <3> QED
      BY <1>2, <3>1, AloneSame
  <2>4. \A d \in Conn, x \in Msg : Reached(d, x)' => Reached(d, x)
    <3>1. Reached(c, m)
      BY <1>2 DEF Reached
    <3>2. UNCHANGED queue
      BY <1>2
    <3> QED
      BY <2>2, <2>3, <3>1, <3>2 DEF Reached
  <2>5. \A u \in Thread, d \in Conn, x \in Msg : Due(u, d, x)' => sock[d] # "new"
    BY <1>3, ReachedKnown
  <2>6. Spread' /\ Routed'
    BY <1>2, <1>3, <2>4, <2>5, Carry DEF DInv
  <2>7. /\ \A u \in Thread \ {t} : ~Holds(u, c, m)
        /\ m \notin Range(queue[c]) /\ <<"body", m>> \notin got[c]
    BY <1>0, <1>1, <1>2 DEF DInv, Unique
  <2>8. ASSUME NEW d \in Conn
        PROVE  /\ IsInjective(queue'[d])
               /\ \A x \in Range(queue'[d]) :
                    x \notin Written(d)' /\ \A u \in Thread : ~Holds(u, d, x)'
    <3>1. queue'[d] = queue[d]
      BY <1>2
    <3>2. CASE d = c
      BY <2>2, <2>3, <2>7, <3>1, <3>2 DEF DInv, Unique
    <3>3. CASE d # c
      BY <2>2, <2>3, <3>1, <3>3 DEF DInv, Unique
    <3> QED
      BY <3>2, <3>3
  <2>9. ASSUME NEW d \in Conn
        PROVE  \A u, v \in Thread, x \in Msg : Holds(u, d, x)' /\ Holds(v, d, x)' => u = v
    BY <2>3 DEF DInv, Unique
  <2>10. ASSUME NEW d \in Conn, NEW u \in Thread, NEW x \in Msg, Holds(u, d, x)'
         PROVE  /\ tpc'[u] = "send" => x \notin Written(d)'
                /\ <<"body", x>> \notin got'[d]
    <3>1. CASE u = t
      <4>1. d = c /\ x = m /\ part = "head" /\ tpc'[u] = "body"
        BY <1>5, <2>3, <2>10, <3>1
      <4> QED
        BY <2>1, <2>7, <4>1
    <3>2. CASE u # t
      <4>1. tpc'[u] = tpc[u] /\ Holds(u, d, x)
        BY <1>2, <2>3, <2>10, <3>2 DEF Alone
      <4>2. ~(d = c /\ x = m)
        BY <2>7, <3>2, <4>1
      <4>3. <<"body", x>> # <<part, m>> \/ d # c
        BY <4>2
      <4> QED
        BY <2>1, <2>2, <4>1, <4>2, <4>3 DEF DInv, Unique
    <3> QED
      BY <3>1, <3>2
  <2>11. Unique'
    BY <2>8, <2>9, <2>10 DEF Unique
  <2> QED
    BY <2>6, <2>11 DEF DInv
<1>6. CASE SendHead(t)
  <2>1. CASE got' = [got EXCEPT ![c] = @ \cup {<<"head", m>>}] /\ tpc' = [tpc EXCEPT ![t] = "body"]
    <3>1. tpc'[t] = "body"
      BY <1>0, <2>1
    <3>2. hold'[t] = m
      BY <1>0, <1>6, <3>1 DEF SendHead
    <3> QED
      BY <1>5, <2>1, <3>1, <3>2
  <2>2. CASE tpc' = [tpc EXCEPT ![t] = "flush"] /\ UNCHANGED got
    BY <1>0, <1>4, <2>2
  <2> QED
    BY <1>6, <2>1, <2>2 DEF SendHead, Write
<1>7. CASE SendBody(t)
  <2>1. CASE got' = [got EXCEPT ![c] = @ \cup {<<"body", m>>}] /\ tpc' = [tpc EXCEPT ![t] = "flush"]
    BY <1>0, <1>5, <2>1
  <2>2. CASE tpc' = [tpc EXCEPT ![t] = "flush"] /\ UNCHANGED got
    BY <1>0, <1>4, <2>2
  <2> QED
    BY <1>7, <2>1, <2>2 DEF SendBody, Write
<1> QED
  BY <1>6, <1>7

\* Nothing was sent.
LEMMA DInvInit == Init => DInv
<1> SUFFICES ASSUME Init PROVE DInv
  OBVIOUS
<1>1. /\ \A t \in Thread : \A c, m : ~Holds(t, c, m) /\ ~Due(t, c, m)
      /\ \A c \in Conn : queue[c] = <<>> /\ Range(queue[c]) = {} /\ IsInjective(queue[c])
      /\ \A c \in Conn : Written(c) = {}
  BY NoElems DEF Init, Holds, Due, Written
<1>2. \A c \in Conn : \A m : ~Reached(c, m)
  BY <1>1 DEF Reached
<1>3. Spread /\ Routed
  BY <1>1, <1>2 DEF Spread, Routed
<1>4. Unique
  BY <1>1 DEF Unique
<1> QED
  BY <1>3, <1>4 DEF DInv

\* Every step keeps the invariant of delivery.
LEMMA DInvStep == TInv /\ DInv /\ [Next]_vars => DInv'
<1> SUFFICES ASSUME TInv, DInv, [Next]_vars PROVE DInv'
  OBVIOUS
<1>1. ASSUME NEW t \in Thread, SendStep(t) PROVE DInv'
  BY <1>1, MovesKeep, AppendKeeps, PopKeeps, WriteKeeps DEF SendStep
<1>2. CASE MainStep
  BY <1>2, MainKeeps
<1>3. ASSUME NEW t \in Thread, NEW M \in SUBSET fresh, Given(t, M) PROVE DInv'
  BY <1>3, GivenKeeps
<1>4. CASE UNCHANGED vars \/ Dropped
  <2>1. /\ UNCHANGED <<fd, sock, queue, got, tpc, batch, todo, hold, owner>>
        /\ fresh' \subseteq fresh
    BY <1>4 DEF vars, connVars, tableVars, sendVars, msgVars, Dropped
  <2>2. /\ \A t, c, m : Holds(t, c, m)' <=> Holds(t, c, m)
        /\ \A t, c, m : Due(t, c, m)' <=> Due(t, c, m)
        /\ \A t, m : Unspread(t, m)' <=> Unspread(t, m)
        /\ \A c, m : For(c, m)' <=> For(c, m)
        /\ \A c : Written(c)' = Written(c)
    BY <2>1 DEF Holds, At, Due, Unspread, For, Written
  <2>3. \A c, m : Reached(c, m)' <=> Reached(c, m)
    BY <2>1, <2>2 DEF Reached
  <2>4. Spread' /\ Routed'
    BY <2>1, <2>2, <2>3 DEF DInv, Spread, Routed
  <2>5. Unique'
    BY <2>1, <2>2 DEF DInv, Unique
  <2> QED
    BY <2>4, <2>5 DEF DInv
<1> QED
  BY <1>1, <1>2, <1>3, <1>4, StepKinds DEF TInv

\* What the invariant says of the way of a message implies what Delivered says of what is written.
LEMMA DInvDelivers == TInv /\ DInv => Delivered
<1> SUFFICES ASSUME TInv, DInv PROVE Delivered
  OBVIOUS
<1>1. \A t \in Thread : tpc[t] \in {"send", "body"} => hold[t] \in Msg
  BY DEF TInv, TypeOK
<1>2. \A c \in Conn : Written(c) \subseteq Msg
  <2>1. got \in [Conn -> SUBSET ({"head", "body"} \X Msg)]
    BY DEF TInv, TypeOK
  <2>2. ASSUME NEW c \in Conn, NEW p \in got[c] PROVE p[2] \in Msg
    BY <2>1
  <2> QED
    BY <2>2 DEF Written
<1>3. WrittenOnce
  <2>1. ASSUME NEW c \in Conn, NEW m \in Range(queue[c]) PROVE m \notin Sending(c) \cup Written(c)
    BY DEF DInv, Unique, Sending, Holds
  <2>2. ASSUME NEW c \in Conn, NEW t \in Thread, tpc[t] \in {"send", "body"}, At(t) = c
        PROVE  /\ tpc[t] = "send" => hold[t] \notin Written(c)
               /\ <<"body", hold[t]>> \notin got[c]
    <3>1. Holds(t, c, hold[t]) /\ hold[t] \in Msg
      BY <1>1, <2>2 DEF Holds
    <3> QED
      BY <3>1 DEF DInv, Unique
  <2> QED
    BY <2>1, <2>2 DEF WrittenOnce, DInv, Unique
<1>4. ReplyToAsker
  <2>1. ASSUME NEW c \in Conn, NEW m \in Written(c) PROVE For(c, m)
    <3>1. m \in Msg /\ Reached(c, m)
      BY <1>2, <2>1 DEF Reached
    <3> QED
      BY <3>1 DEF DInv, Routed
  <2> QED
    BY <2>1 DEF ReplyToAsker, For, Gone
<1> QED
  BY <1>3, <1>4 DEF Delivered

\* Delivered: however many threads flush one connection without a lock, and whenever it is closed,
\* each part of a message is written to it once at most, and only to the connection that asked, or
\* to one accepted on its descriptor after it was closed.
THEOREM WhatIsWrittenIsRight == Spec => []Delivered
<1>1. Init => TInv /\ DInv
  BY TInvInit, DInvInit
<1>2. (TInv /\ DInv) /\ [Next]_vars => (TInv /\ DInv)'
  BY TInvStep, DInvStep
<1>3. TInv /\ DInv => Delivered
  BY DInvDelivers
<1> QED
  BY <1>1, <1>2, <1>3, PTL DEF Spec

-----------------------------------------------------------------------------
(* Nothing is left in a queue.                                             *)

\* A queue that a step of t leaves as it is, or shorter, stays attended to.
LEMMA AttendedKeeps ==
    ASSUME TInv, NoneStranded, NEW t \in Thread, SendStep(t)
    PROVE  NoneStranded'
<1> USE DEF connVars, tableVars, msgVars, mainVars, Goto, Advance
<1>0. /\ tpc \in [Thread -> {"idle", "route", "lookup", "add", "append", "flush",
                             "pop", "send", "body", "raised"}]
      /\ todo \in [Thread -> Seq(Conn)] /\ queue \in [Conn -> Seq(Msg)]
      /\ batch \in [Thread -> Seq(Msg)]
      /\ Clients \subseteq Conn
      /\ tpc[t] \in {"append", "pop", "send", "body"} => todo[t] # <<>>
  BY ClientsAreConns DEF TInv, TypeOK
<1>1. todo[t] # <<>> => At(t) \in Conn /\ Range(Tail(todo[t])) = Range(todo[t]) \ {At(t)}
  BY AtElems
<1>2. /\ UNCHANGED <<clients, sock>>
      /\ \A u \in Thread \ {t} : tpc'[u] = tpc[u] /\ todo'[u] = todo[u]
      /\ failed => failed'
  <2>1. CASE AddAppend(t) \/ FlushPop(t)
    BY <1>0, <2>1 DEF AddAppend, FlushPop
  <2>2. CASE RouteAll(t) \/ RouteOne(t) \/ AddTest(t) \/ AddEnd(t) \/ FlushBegin(t)
    BY <1>0, <2>2 DEF RouteAll, RouteOne, AddTest, AddEnd, FlushBegin, Local
  <2>3. CASE Lookup(t) \/ FlushLen(t) \/ FlushEnd(t) \/ Unwind(t)
    BY <1>0, <2>3 DEF Lookup, FlushLen, FlushEnd, Unwind, Local
  <2>4. CASE SendHead(t) \/ SendBody(t)
    BY <1>0, <2>4 DEF SendHead, SendBody, Write
  <2> QED
    BY <2>1, <2>2, <2>3, <2>4 DEF SendStep
<1>3. \A u \in Thread \ {t} : \A c : WillFlush(u, c)' <=> WillFlush(u, c)
  BY <1>2 DEF WillFlush
<1>4. (\E u \in Thread \ {t} : tpc[u] = "raised") => Raised'
  BY <1>2 DEF Raised
<1>5. ASSUME Raised PROVE Raised'
  <2>1. CASE failed
    BY <1>2, <2>1 DEF Raised
  <2>2. CASE tpc[t] = "raised"
    <3>1. failed'
      BY <2>2 DEF SendStep, RouteAll, RouteOne, Lookup, AddTest, AddAppend, AddEnd, FlushBegin,
                  FlushLen, FlushPop, SendHead, SendBody, FlushEnd, Unwind
    <3> QED
      BY <3>1 DEF Raised
  <2> QED
    BY <1>4, <1>5, <2>1, <2>2 DEF Raised
<1>6. ASSUME NEW c \in Clients, sock[c] = "open", queue'[c] # <<>>,
             WillFlush(t, c) \/ queue[c] = <<>>
      PROVE  Raised' \/ WillFlush(t, c)'
  <2>1. CASE RouteAll(t) \/ RouteOne(t) \/ Lookup(t)
    BY <1>0, <2>1 DEF RouteAll, RouteOne, Lookup, Local, WillFlush, Raised
  <2>2. CASE AddTest(t) \/ AddAppend(t) \/ AddEnd(t)
    BY <1>0, <2>2 DEF AddTest, AddAppend, AddEnd, Local, WillFlush, Raised
  <2>3. CASE FlushBegin(t)
    BY <1>0, <2>3 DEF FlushBegin, Local, WillFlush, Clients
  <2>4. CASE FlushLen(t)
    <3>1. queue[c] # <<>> /\ tpc[t] = "flush" /\ todo[t] # <<>>
      BY <1>6, <2>4 DEF FlushLen, Local
    <3>2. c \in Range(todo[t])
      BY <1>6, <3>1 DEF WillFlush
    <3>3. \/ tpc'[t] = "pop" /\ todo'[t] = todo[t]
          \/ At(t) # c /\ tpc'[t] = "flush" /\ todo'[t] = Tail(todo[t])
      BY <1>0, <1>6, <2>4, <3>1 DEF FlushLen, Local
    <3> QED
      BY <1>1, <3>1, <3>2, <3>3 DEF WillFlush
  <2>5. CASE FlushPop(t)
    <3>1. queue[c] # <<>> /\ tpc[t] = "pop" /\ todo[t] # <<>>
      BY <1>0, <1>1, <1>6, <2>5, NoElems DEF FlushPop
    <3>2. c \in Range(todo[t])
      BY <1>6, <3>1 DEF WillFlush
    <3>3. \/ tpc'[t] = "raised"
          \/ tpc'[t] = "send" /\ todo'[t] = todo[t]
          \/ At(t) # c /\ tpc'[t] = "flush" /\ todo'[t] = Tail(todo[t])
      BY <1>0, <1>6, <2>5, <3>1 DEF FlushPop
    <3> QED
      BY <1>1, <3>1, <3>2, <3>3 DEF WillFlush, Raised
  <2>6. CASE SendHead(t) \/ SendBody(t)
    BY <1>0, <1>6, <2>6 DEF SendHead, SendBody, Write, WillFlush
  <2>7. CASE FlushEnd(t)
    <3>1. queue[c] # <<>> /\ tpc[t] = "flush" /\ todo[t] = <<>>
      BY <1>6, <2>7 DEF FlushEnd, Local
    <3> QED
      BY <1>6, <3>1, NoElems DEF WillFlush
  <2>8. CASE Unwind(t)
    BY <2>8 DEF Unwind, Raised
  <2> QED
    BY <2>1, <2>2, <2>3, <2>4, <2>5, <2>6, <2>7, <2>8 DEF SendStep
<1>7. ASSUME NEW c \in Clients, sock[c] = "open", queue'[c] # <<>>
      PROVE  Raised' \/ \E u \in Thread : WillFlush(u, c)'
  <2>1. CASE WillFlush(t, c) \/ queue[c] = <<>>
    BY <1>6, <1>7, <2>1
  <2>2. CASE queue[c] # <<>> /\ ~WillFlush(t, c)
    BY <1>3, <1>5, <1>7, <2>2 DEF NoneStranded
  <2> QED
    BY <2>1, <2>2
<1>8. Clients' = Clients
  BY <1>2 DEF Clients
<1> QED
  BY <1>2, <1>7, <1>8 DEF NoneStranded

\* The other steps queue nothing, and make no open connection of one that was not new.
LEMMA OthersAttend ==
    ASSUME TInv, NoneStranded,
           \/ MainStep \/ \E t \in Thread, M \in SUBSET fresh : Given(t, M)
           \/ Dropped \/ UNCHANGED vars
    PROVE  NoneStranded'
<1> USE DEF connVars, tableVars, mainVars, msgVars, sendVars
<1>0. /\ tpc \in [Thread -> {"idle", "route", "lookup", "add", "append", "flush",
                             "pop", "send", "body", "raised"}]
      /\ sock \in [Conn -> {"new", "open", "closed", "none"}] /\ clients \in Seq(Conn)
      /\ queue \in [Conn -> Seq(Msg)] /\ Clients \subseteq Conn
      /\ closing # None => sock[closing] # "new"
  BY ClientsAreConns DEF TInv, TypeOK, TableInv, Polls
<1> DEFINE Kept == /\ UNCHANGED <<todo, failed>>
                   /\ \A t \in Thread : tpc'[t] = tpc[t] \/ (tpc[t] = "idle" /\ tpc'[t] = "route")
                   /\ \A c \in Clients' : \/ c \in Clients
                                          \/ queue'[c] = <<>>
                   /\ \A c \in Clients : /\ sock'[c] = "open" => sock[c] = "open"
                                         /\ queue'[c] = queue[c] \/ queue'[c] = <<>>
<1>1. Kept
  <2>1. ASSUME NEW c \in Conn, NEW f \in Fd, Accept(c, f) PROVE Kept
    <3>1. Clients' = Clients \cup {c}
      BY <1>0, <2>1, AppendElems DEF Accept, Clients
    <3>2. c \notin Clients /\ queue[c] = <<>>
      BY <2>1 DEF Accept, TInv, TableInv, Table, Known
    <3> QED
      BY <1>0, <2>1, <3>1, <3>2 DEF Accept
  <2>2. ASSUME NEW c \in Conn, ReadRequest(c) \/ Disconnect(c) \/ ReadEof(c) PROVE Kept
    BY <2>2 DEF ReadRequest, Disconnect, ReadEof, Clients
  <2>3. CASE CloseSocket \/ ClearQueue \/ DropFields \/ StopDropFields
    BY <1>0, <2>3 DEF CloseSocket, ClearQueue, DropFields, StopDropFields, Clients
  <2>4. CASE Forget
    <3>1. Clients' \subseteq Clients
      BY <1>0, <2>4, RemoveFirstElems DEF Forget, Clients, TInv, TableInv, Table
    <3> QED
      BY <2>4, <3>1 DEF Forget
  <2>5. CASE StopClose
    <3>1. Clients' \subseteq Clients
      BY <2>5, NoElems DEF StopClose, Clients
    <3> QED
      BY <2>5, <3>1 DEF StopClose
  <2>6. ASSUME NEW t \in Thread, NEW M \in SUBSET fresh, Given(t, M) PROVE Kept
    <3>1. tpc[t] = "idle" /\ tpc' = [tpc EXCEPT ![t] = "route"]
          /\ UNCHANGED <<todo, failed, clients, sock, queue>>
      <4>1. ASSUME NEW m \in Msg, t = Main, StopBegin(m) PROVE tpc[Main] = "idle"
        BY <4>1 DEF StopBegin, TInv, Batches
      <4> QED
        BY <2>6, <4>1 DEF Given, SendBegin, StopBegin
    <3> QED
      BY <1>0, <3>1 DEF Clients
  <2>7. CASE Dropped \/ UNCHANGED vars
    BY <2>7 DEF vars, Clients, Dropped
  <2> QED
    BY <2>1, <2>2, <2>3, <2>4, <2>5, <2>6, <2>7 DEF MainStep, CloseStep
<1>2. Raised => Raised'
  BY <1>1 DEF Raised
<1>3. \A t \in Thread, c \in Conn : WillFlush(t, c) => WillFlush(t, c)'
  BY <1>1 DEF WillFlush
<1>4. ASSUME NEW c \in Clients', sock'[c] = "open", queue'[c] # <<>>
      PROVE  Raised' \/ \E t \in Thread : WillFlush(t, c)'
  <2>1. c \in Clients /\ sock[c] = "open" /\ queue[c] # <<>>
    BY <1>1, <1>4
  <2> QED
    BY <1>0, <1>2, <1>3, <2>1 DEF NoneStranded
<1> QED
  BY <1>4 DEF NoneStranded

\* NoneStranded: a message waits in the queue of an open connection only while some thread is
\* still to flush that connection, unless a send has raised.
THEOREM NothingStranded == Spec => []NoneStranded
<1>1. Init => TInv /\ NoneStranded
  <2>1. Init => NoneStranded
    BY NoElems DEF Init, NoneStranded, Clients
  <2> QED
    BY <2>1, TInvInit
<1>2. (TInv /\ NoneStranded) /\ [Next]_vars => (TInv /\ NoneStranded)'
  <2> SUFFICES ASSUME TInv, NoneStranded, [Next]_vars PROVE TInv' /\ NoneStranded'
    OBVIOUS
  <2>1. NoneStranded'
    BY AttendedKeeps, OthersAttend, StepKinds DEF TInv
  <2> QED
    BY <2>1, TInvStep
<1>3. TInv /\ NoneStranded => NoneStranded
  OBVIOUS
<1> QED
  BY <1>1, <1>2, <1>3, PTL DEF Spec
===============================================================================
