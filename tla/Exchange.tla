------------------------------- MODULE Exchange -------------------------------
(***************************************************************************)
(* lib/structs/message.py and hook.py: a tool sends the daemon a request   *)
(* and waits for an answer (send_message, _wait_for).  The dispatcher runs *)
(* the hooks of the request and makes messages of what they return; they   *)
(* are written to the connection, last first (Server), a header and a      *)
(* payload each, while the executer may write messages for every client to *)
(* it.                                                                     *)
(***************************************************************************)
EXTENDS Naturals, Sequences, SequencesExt

CONSTANTS
    Hooks,       \* how many hooks a request has
    Result,      \* what a hook may return: see Reply
    Stray,       \* headers of the messages for every client, at most one each
    Disp, Exec   \* the two threads of the daemon that write

VARIABLES
    results,     \* what the hooks of this request return
    want,        \* what the tool waits for: see Wanted
    handled,     \* have the hooks been run?
    told,        \* headers of the messages for every client that were sent
    queue,       \* _queue of the connection
    writer,      \* what each thread writes: <<>> or the message
    half,        \* has it written the header?
    stream,      \* what the connection holds
    waiter,      \* the tool: "waiting", "done", "broken" or "expired"
    answer,      \* what it returned
    mixed        \* history: a payload was written after the header of another message

daemonVars == <<handled, told, queue, writer, half>>
toolVars == <<waiter, answer>>
exchangeVars == <<results, want, daemonVars, stream, toolVars, mixed>>

Thread == {Disp, Exec}

\* A message: its header, "own" for that of the request, whether it has the key that the tool
\* looks for, and whether it answers the request.
Reply1(head, key) == <<[head |-> head, key |-> key, mine |-> TRUE]>>

\* Mutated: an exception is only logged.
ReplyQuiet(r) ==
    CASE r = "true"  -> Reply1("ok", FALSE)
      [] r = "false" -> Reply1("error", FALSE)
      [] r = "dict"  -> Reply1("own", TRUE)
      [] r = "str"   -> Reply1("own", FALSE)
      [] r = "list"  -> Reply1("own", FALSE) \o Reply1("own", TRUE)
      [] OTHER -> <<>>

\* run() and _exec() of a Hook: nothing is said of None and of what cannot be converted.
Reply(r) ==
    CASE r = "true" -> Reply1("ok", FALSE)
      [] r \in {"false", "raise"} -> Reply1("error", FALSE)
      [] r = "dict" -> Reply1("own", TRUE)
      [] r = "str"  -> Reply1("own", FALSE)
      [] r = "list" -> Reply1("own", FALSE) \o Reply1("own", TRUE)
      [] r \in {"none", "odd"} -> <<>>

\* run() of a HookList: every hook, also after one that fails.
Replies == FlattenSeq([n \in 1..Hooks |-> Reply(results[n])])

\* What a tool may wait for: any message or a header, with a key or without; or, for another
\* header than HOOK_OK, that one too; and, for a header, whether it wants errors.
Wanted == {w \in [head : {"any", "own", "ok"}, key : BOOLEAN, ok : BOOLEAN, errors : BOOLEAN] :
               /\ w.ok => ~w.key /\ w.head = "own"
               /\ w.head = "any" => w.errors}

\* _wait_for()
Match(m) ==
    \/ want.ok /\ m.head = "ok"
    \/ want.head # "any" /\ m.head = "error" /\ want.errors
    \/ want.head \in {"any", m.head} /\ (want.key => m.key)

ExchangeInit ==
    /\ results \in [1..Hooks -> Result]
    /\ want \in Wanted
    /\ handled = FALSE /\ told = {} /\ queue = <<>>
    /\ writer = [t \in Thread |-> <<>>] /\ half = [t \in Thread |-> FALSE]
    /\ stream = <<>>
    /\ waiter = "waiting" /\ answer = <<>> /\ mixed = FALSE

-----------------------------------------------------------------------------
(* The daemon.                                                             *)

HandleRequest ==
    /\ ~handled /\ handled' = TRUE
    /\ queue' = queue \o Replies
    /\ UNCHANGED <<results, want, told, writer, half, stream, toolVars, mixed>>

\* A tool that has its answer, or gives up, closes its connection, which takes nothing more.
Connected == waiter = "waiting"

Broadcast(head) ==
    /\ Connected
    /\ told' = told \cup {head} /\ head \notin told
    /\ queue' = Append(queue, [head |-> head, key |-> FALSE, mine |-> FALSE])
    /\ UNCHANGED <<results, want, handled, writer, half, stream, toolVars, mixed>>

Pop(t) ==     \* each of them flushes the queue
    /\ Connected
    /\ writer[t] = <<>> /\ queue # <<>>
    /\ writer' = [writer EXCEPT ![t] = <<Last(queue)>>]
    /\ queue' = Front(queue)
    /\ UNCHANGED <<results, want, handled, told, half, stream, toolVars, mixed>>

\* Two writes for every message: that of an empty payload, which the code leaves out, counts
\* as one.
SendHeader(t) ==
    /\ Connected /\ writer[t] # <<>> /\ ~half[t]
    /\ half' = [half EXCEPT ![t] = TRUE]
    /\ stream' = Append(stream, [msg |-> writer[t][1], part |-> "header"])
    /\ mixed' = (mixed \/ \E o \in Thread \ {t} : half[o])
    /\ UNCHANGED <<results, want, handled, told, queue, writer, toolVars>>

SendPayload(t) ==
    /\ Connected /\ half[t]
    /\ half' = [half EXCEPT ![t] = FALSE]
    /\ writer' = [writer EXCEPT ![t] = <<>>]
    /\ stream' = Append(stream, [msg |-> writer[t][1], part |-> "payload"])
    /\ UNCHANGED <<results, want, handled, told, queue, toolVars, mixed>>

-----------------------------------------------------------------------------
(* The tool: recv() of a Message, then _wait_for().                        *)

Whole == stream[1].part = "header" /\ stream[2].part = "payload" /\ stream[1].msg = stream[2].msg

\* A message is taken and looked at; another one's part in its place is an OSError.
Receive ==
    /\ Connected /\ Len(stream) >= 2
    /\ stream' = Tail(Tail(stream))
    /\ \/ Whole /\ Match(stream[1].msg) /\ waiter' = "done" /\ answer' = <<stream[1].msg>>
       \/ Whole /\ ~Match(stream[1].msg) /\ UNCHANGED toolVars
       \/ ~Whole /\ waiter' = "broken" /\ UNCHANGED answer
    /\ UNCHANGED <<results, want, daemonVars, mixed>>

\* The timeout, if there is one.
Expire ==
    /\ Connected /\ Len(stream) < 2
    /\ waiter' = "expired"
    /\ UNCHANGED <<results, want, daemonVars, stream, answer, mixed>>

ExchangeNext ==
    \/ HandleRequest \/ Receive \/ Expire
    \/ \E head \in Stray : Broadcast(head)
    \/ \E t \in Thread : Pop(t) \/ SendHeader(t) \/ SendPayload(t)

-----------------------------------------------------------------------------
(* Properties.                                                             *)

\* Does what a hook returns answer the tool?
Answers(r) ==
    \/ r = "true" /\ (want.ok \/ (want.head # "own" /\ ~want.key))
    \/ r \in {"false", "raise"} /\ (IF want.head = "any" THEN ~want.key ELSE want.errors)
    \/ r = "str" /\ want.head # "ok" /\ ~want.key
    \/ r \in {"dict", "list"} /\ want.head # "ok"

Quiet == handled /\ queue = <<>> /\ stream = <<>> /\ \A t \in Thread : writer[t] = <<>>

\* A tool whose connection held all there was has an answer if a hook has one for it, and
\* one that has an answer was given it by a hook, unless a message for every client looked
\* like one; except when two threads have mixed up their messages.
AnswersArrive ==
    ~mixed =>
        /\ waiter # "broken"
        /\ waiter = "waiting" /\ Quiet => ~\E n \in 1..Hooks : Answers(results[n])
        /\ waiter = "done" => ~answer[1].mine \/ \E n \in 1..Hooks : Answers(results[n])
===============================================================================
