----------------------------- MODULE HttpServer -----------------------------
(***************************************************************************)
(* The GSI endpoint (src/src/http_server.cpp): one thread that accepts a   *)
(* connection, receives its request in the parts TCP delivers, answers,    *)
(* closes, and submits the body to the ingress.                            *)
(*                                                                         *)
(* A request is what its bytes say: `head' of them end with the blank      *)
(* line, `lengths' are the values of its Content-Length lines (None for    *)
(* one that does not parse), and `size' bytes are to be sent altogether.   *)
(* Bytes have no content, only a position.                                 *)
(***************************************************************************)
EXTENDS Integers, SequencesExt

CONSTANTS
  Connections, \* how many connections are made, each for one request
  Requests,    \* what a client may send: [method, head, lengths, size]
  MaxHeader,   \* max_header_bytes
  MaxBody,     \* max_body_bytes
  Chunk,       \* the size of the buffer of recv()
  Backlog,     \* the argument of listen()
  None

\* parse_content_length(): the first line whose value parses.
ParseContentLength(lengths) ==
  LET parsed == SelectSeq(lengths, LAMBDA value : value # None)
  IN  IF parsed = <<>> THEN None ELSE Head(parsed)

\* Headers end with a blank line, and the value that is read of Content-Length,
\* a std::size_t, is a number if there is one.
ASSUME HttpAssumption ==
  /\ Connections \in Nat
  /\ MaxHeader \in Nat /\ MaxBody \in Nat
  /\ Chunk \in Nat \ {0} /\ Backlog \in Nat \ {0}
  /\ None \notin Nat
  /\ \A r \in Requests :
       /\ r.head \in Nat \ {0} /\ r.size \in Nat
       /\ ParseContentLength(r.lengths) \in Nat \cup {None}

\* The clients, by the order in which they connect.
Clients == 1 .. Connections

VARIABLES
  pc,          \* where run() is
  client,      \* the connection that is served
  buffer,      \* how many bytes of it were received
  stop,        \* stop_requested_
  backlog,     \* the connections that wait for accept()
  request,     \* what each client sends
  conn,        \* its end: "new", "open", "closed", "reset"
  sent,        \* how many bytes it has sent
  heard,       \* the answer it received
  answered,    \* history: the answer it was given
  acknowledged,   \* history: the connections answered with 200, in order
  submitted       \* history: the connections whose body entered the ingress

serverVars == <<pc, client, buffer>>
clientVars == <<request, conn, sent>>
historyVars == <<answered, acknowledged, submitted>>
vars == <<serverVars, stop, backlog, clientVars, heard, historyVars>>

Init ==
  /\ pc = "loop" /\ client = None /\ buffer = 0
  /\ stop = FALSE /\ backlog = <<>>
  /\ request = [c \in Clients |-> None]
  /\ conn = [c \in Clients |-> "new"]
  /\ sent = [c \in Clients |-> 0]
  /\ heard = [c \in Clients |-> None]
  /\ answered = [c \in Clients |-> None]
  /\ acknowledged = <<>> /\ submitted = <<>>

RequestStop == stop' = TRUE /\ UNCHANGED <<serverVars, backlog, clientVars, heard, historyVars>>

-----------------------------------------------------------------------------
(* The clients.                                                            *)

Connect(c, r) ==
  /\ conn[c] = "new" /\ \A d \in 1 .. c - 1 : conn[d] # "new"
  /\ pc \notin {"closed", "thrown", "killed"}
  /\ Len(backlog) < Backlog
  /\ backlog' = Append(backlog, c)
  /\ request' = [request EXCEPT ![c] = r]
  /\ conn' = [conn EXCEPT ![c] = "open"]
  /\ UNCHANGED <<serverVars, stop, sent, heard, historyVars>>

\* The connection is open at the server's end, or will be.
Pending(c) == c \in Range(backlog) \/ (c = client /\ pc \in {"header", "body", "answer"})

Send(c) ==
  /\ conn[c] = "open" /\ Pending(c)
  /\ sent[c] < request[c].size
  /\ sent' = [sent EXCEPT ![c] = @ + 1]
  /\ UNCHANGED <<serverVars, stop, backlog, request, conn, heard, historyVars>>

\* A client that has no answer yet gives up, by a timeout or by its end.
GiveUp(c, how) ==
  /\ conn[c] = "open" /\ Pending(c)
  /\ conn' = [conn EXCEPT ![c] = how]
  /\ UNCHANGED <<serverVars, stop, backlog, request, sent, heard, historyVars>>

-----------------------------------------------------------------------------
(* The loop of run().                                                      *)

CheckStop ==
  /\ pc = "loop"
  /\ pc' = IF stop THEN "closed" ELSE "select"
  /\ UNCHANGED <<client, buffer, stop, backlog, clientVars, heard, historyVars>>

\* Mutant: select() has no timeout.
SelectBlocks == FALSE

\* select() times out: no connection waits.
SelectTimesOut ==
  /\ pc = "select" /\ backlog = <<>>
  /\ pc' = "loop"
  /\ UNCHANGED <<client, buffer, stop, backlog, clientVars, heard, historyVars>>

\* Mutant: an interrupt is taken for the request to stop.
SelectInterruptedEnds ==
  /\ pc = "select" /\ backlog = <<>>
  /\ pc' = "closed"
  /\ UNCHANGED <<client, buffer, stop, backlog, clientVars, heard, historyVars>>

\* A signal interrupts select(); the loop is left at once if it was the stop.
SelectInterrupted ==
  /\ pc = "select" /\ backlog = <<>>
  /\ pc' = IF stop THEN "closed" ELSE "loop"
  /\ UNCHANGED <<client, buffer, stop, backlog, clientVars, heard, historyVars>>

Accept ==
  /\ pc = "select" /\ backlog # <<>>
  /\ client' = Head(backlog)
  /\ backlog' = Tail(backlog)
  /\ buffer' = 0
  /\ pc' = "header"
  /\ UNCHANGED <<stop, clientVars, heard, historyVars>>

\* A connection that was reset may have left the backlog when it is accepted.
AcceptFails ==
  /\ pc = "select" /\ backlog # <<>> /\ conn[Head(backlog)] = "reset"
  /\ backlog' = Tail(backlog)
  /\ pc' = IF stop THEN "closed" ELSE "loop"
  /\ UNCHANGED <<client, buffer, stop, clientVars, heard, historyVars>>

-----------------------------------------------------------------------------
(* receive_request().                                                      *)

\* The bytes one recv() returns; none while it blocks.
Available == Min({Chunk, sent[client] - buffer})

\* Mutant: an end of the stream is not told from an interrupt.
RecvFailsOnError == conn[client] = "reset"

\* recv() returns 0 or an error.
RecvFails ==
  \/ conn[client] = "reset"
  \/ conn[client] = "closed" /\ Available = 0

\* The request of the client that is served.
Served == request[client]

\* What the loop does with the request it was given; None goes on receiving.
Verdict(r) == IF r.method = "POST" THEN 200 ELSE 405

Answer(code) ==
  /\ answered' = [answered EXCEPT ![client] = code]
  /\ pc' = "answer"

\* The headers are there: whether they can be used, and whether the body is.
HeadersUsable(r) ==
  /\ r.method # None
  /\ ParseContentLength(r.lengths) # None
  /\ ParseContentLength(r.lengths) <= MaxBody

\* Mutant: the limit of the body is applied to the whole buffer.
BodyTooLargeWithHead(r, received) == received > MaxBody
BodyTooLarge(r, received) == received - r.head > MaxBody

BodyComplete(r, received) == received - r.head >= ParseContentLength(r.lengths)

\* Mutant: the header has no limit.
HeaderUnlimited(received) == FALSE
HeaderTooLarge(received) == received > MaxHeader

\* The first loop receives until the blank line; a body that came with it may
\* complete the request at once.
ReceiveHeader ==
  /\ pc = "header"
  /\ ~RecvFails /\ Available > 0
  /\ buffer' = buffer + Available
  /\ CASE HeaderTooLarge(buffer') -> Answer(400)
       [] ~HeaderTooLarge(buffer') /\ buffer' < Served.head ->
            UNCHANGED <<pc, answered>>
       [] OTHER ->
            IF ~HeadersUsable(Served) THEN Answer(400)
            ELSE IF BodyComplete(Served, buffer') THEN Answer(Verdict(Served))
            ELSE pc' = "body" /\ UNCHANGED answered
  /\ UNCHANGED <<client, stop, backlog, clientVars, heard, acknowledged, submitted>>

ReceiveBody ==
  /\ pc = "body"
  /\ ~RecvFails /\ Available > 0
  /\ buffer' = buffer + Available
  /\ CASE BodyTooLarge(Served, buffer') -> Answer(400)
       [] ~BodyTooLarge(Served, buffer') /\ BodyComplete(Served, buffer') ->
            Answer(Verdict(Served))
       [] OTHER -> UNCHANGED <<pc, answered>>
  /\ UNCHANGED <<client, stop, backlog, clientVars, heard, acknowledged, submitted>>

ReceiveFails ==
  /\ pc \in {"header", "body"}
  /\ RecvFails
  /\ Answer(400)
  /\ UNCHANGED <<client, buffer, stop, backlog, clientVars, heard, acknowledged, submitted>>

-----------------------------------------------------------------------------
(* The answer and the submission.                                          *)

\* The client may hear the answer if it is still there.  It may miss it when
\* bytes of its request were not received: closing then resets the connection.
Hears(code) ==
  \/ conn[client] = "open" /\ heard' = [heard EXCEPT ![client] = code]
  \/ (conn[client] # "open" \/ sent[client] > buffer) /\ UNCHANGED heard

\* send_all(), whose result nobody looks at, and close_socket().
SendAnswer ==
  /\ pc = "answer"
  /\ Hears(answered[client])
  /\ IF answered[client] = 200
     THEN pc' = "submit" /\ acknowledged' = Append(acknowledged, client)
     ELSE pc' = "loop" /\ UNCHANGED acknowledged
  /\ UNCHANGED <<client, buffer, stop, backlog, clientVars, answered, submitted>>

\* On a POSIX system, which is not told to ignore SIGPIPE, sending to a
\* connection that was reset may kill the process.
SendKills ==
  /\ pc = "answer" /\ conn[client] = "reset"
  /\ pc' = "killed"
  /\ UNCHANGED <<client, buffer, stop, backlog, clientVars, heard, historyVars>>

\* Mutant: a stop is honoured before the submission.
SubmitUnlessStopped ==
  /\ pc = "submit"
  /\ submitted' = IF stop THEN submitted
                  ELSE Append(submitted, client)
  /\ pc' = "loop"
  /\ UNCHANGED <<client, buffer, stop, backlog, clientVars, heard, answered, acknowledged>>

\* ingress_.enqueue_gsi() returns.
Submit ==
  /\ pc = "submit"
  /\ submitted' = Append(submitted, client)
  /\ pc' = "loop"
  /\ UNCHANGED <<client, buffer, stop, backlog, clientVars, heard, answered, acknowledged>>

\* It throws, and the exception leaves run().
SubmitThrows ==
  /\ pc = "submit"
  /\ pc' = "thrown"
  /\ UNCHANGED <<client, buffer, stop, backlog, clientVars, heard, historyVars>>

-----------------------------------------------------------------------------

Left == pc \in {"closed", "thrown", "killed"}

Serve ==
  \/ CheckStop
  \/ SelectTimesOut
  \/ Accept \/ AcceptFails
  \/ ReceiveHeader \/ ReceiveBody \/ ReceiveFails
  \/ SendAnswer \/ SendKills
  \/ Submit \/ SubmitThrows

Next ==
  \/ RequestStop
  \/ \E c \in Clients, r \in Requests : Connect(c, r)
  \/ \E c \in Clients : Send(c)
  \/ \E c \in Clients, how \in {"closed", "reset"} : GiveUp(c, how)
  \/ Serve
  \/ SelectInterrupted
  \/ Left /\ UNCHANGED vars

Spec == Init /\ [][Next]_vars

\* The thread runs, its select() ends, and a client that gets no answer does not
\* wait for ever: CS2 has a timeout ("timeout" "5.0" in the configuration that
\* comes with the program).  No signal is assumed to interrupt select().
Fairness ==
  /\ WF_vars(Serve)
  /\ \A c \in Clients : WF_vars(GiveUp(c, "closed"))

FairSpec == Spec /\ Fairness

-----------------------------------------------------------------------------
(* Properties.                                                             *)

\* What a request deserves when `total' bytes of it arrive and then no more.
Deserves(r, total) ==
  LET length == ParseContentLength(r.lengths)
  IN  IF /\ r.head <= total /\ r.head <= MaxHeader
         /\ r.method # None
         /\ length # None
         /\ length <= MaxBody /\ r.head + length <= total
      THEN Verdict(r) ELSE 400

\* Bytes after the headers, or after the body, cannot trip a limit, however
\* many of them one recv() returns.
ClearOfLimits(r, total) ==
  LET length == ParseContentLength(r.lengths)
  IN  /\ r.head + Chunk - 1 <= MaxHeader \/ total <= MaxHeader \/ r.head > MaxHeader
      /\ length = None \/ length + Chunk - 1 <= MaxBody \/ total - r.head <= MaxBody
                       \/ length > MaxBody

\* The answer depends on what the client sent and not on the parts in which it
\* arrives nor on when the client gives up (lines 111-168): only a complete
\* request is acknowledged, and every request clear of the limits gets what it
\* deserves.  Near a limit a good request may be refused, because bytes beyond
\* the headers, or beyond the declared length, count when the same recv()
\* returns them (lines 133 and 162).
AnswerIsDeserved ==
  \A c \in Clients : answered[c] # None =>
    /\ answered[c] \in {Deserves(request[c], sent[c]), 400}
    /\ conn[c] # "reset" /\ ClearOfLimits(request[c], sent[c]) =>
         answered[c] = Deserves(request[c], sent[c])

\* A payload that CS2 was told is taken enters the ingress before anything
\* else is looked at, once and in the order of arrival, also when a stop
\* was requested meanwhile; only an exception of the ingress loses one (lines
\* 275-288).
AcknowledgedIsSubmitted ==
  /\ submitted = IF pc \in {"submit", "thrown"} THEN Front(acknowledged) ELSE acknowledged
  /\ \A i \in 2 .. Len(acknowledged) : acknowledged[i - 1] < acknowledged[i]
  /\ \A c \in Clients : heard[c] = 200 => c \in Range(acknowledged)

\* However long a client goes on sending, what is kept of it is bounded while
\* more is received (lines 133 and 162).
BufferIsBounded == pc \in {"header", "body"} => buffer <= MaxHeader + MaxBody

\* Every connection that waits is dealt with, in spite of clients before it
\* that send nothing or in part, unless the loop is left.
ConnectedIsServed ==
  \A c \in Clients : c \in Range(backlog) ~> ~Pending(c) \/ Left

\* A stop request is honoured when clients do not wait for ever (lines 213-238).
StopEndsTheLoop == stop ~> Left

\* Where the loop is, as the threads around it see it.
Phase ==
  CASE pc \in {"loop", "select"} -> "polling"
    [] pc \in {"header", "body", "answer"} -> "receiving"
    [] pc = "submit" -> "submitting"
    [] pc \in {"closed", "thrown"} -> "left"
    [] OTHER -> "killed"

\* What the recording process relies on: the server implements GsiListener.
Listener == INSTANCE GsiListener WITH phase <- Phase

IsListener == Listener!Spec

=============================================================================
