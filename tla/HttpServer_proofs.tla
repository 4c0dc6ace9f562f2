-------------------------- MODULE HttpServer_proofs --------------------------
(***************************************************************************)
(* Proofs about HttpServer, for every number of connections, every set of  *)
(* requests, every limit and every size of the parts in which TCP delivers *)
(* them.                                                                   *)
(***************************************************************************)
EXTENDS HttpServer, SequenceTheorems, TLAPS

(***************************************************************************)
(* The inductive invariant.                                                *)
(***************************************************************************)

Codes == {200, 400, 405}

TypeInv ==
  /\ pc \in {"loop", "select", "header", "body", "answer", "submit", "closed", "thrown", "killed"}
  /\ client \in Clients \cup {None}
  /\ buffer \in Nat
  /\ stop \in BOOLEAN
  /\ backlog \in Seq(Clients)
  /\ conn \in [Clients -> {"new", "open", "closed", "reset"}]
  /\ request \in [Clients -> Requests \cup {None}]
  /\ sent \in [Clients -> Nat]
  /\ heard \in [Clients -> Codes \cup {None}]
  /\ answered \in [Clients -> Codes \cup {None}]
  /\ acknowledged \in Seq(Clients) /\ submitted \in Seq(Clients)

\* Clients connect in order, and are served in that order.
OrderInv ==
  /\ \A c, d \in Clients : d < c /\ conn[c] # "new" => conn[d] # "new"
  /\ \A c \in Clients : conn[c] # "new" => request[c] \in Requests
  /\ \A i \in 1 .. Len(backlog) : conn[backlog[i]] # "new" /\ answered[backlog[i]] = None
  /\ \A i, j \in 1 .. Len(backlog) : i < j => backlog[i] < backlog[j]
  /\ client \in Clients =>
       /\ conn[client] # "new"
       /\ \A i \in 1 .. Len(backlog) : client < backlog[i]
  /\ pc \in {"header", "body", "answer", "submit", "thrown"} => client \in Clients
  /\ pc \in {"header", "body"} => answered[client] = None
  /\ pc \in {"answer", "submit"} => answered[client] \in Codes
  /\ \A c \in Clients : conn[c] = "new" => answered[c] = None /\ heard[c] = None

\* At most one acknowledged request, the one in hand, is not submitted yet.
OwedInv ==
  /\ acknowledged = IF pc \in {"submit", "thrown"} THEN Append(submitted, client) ELSE submitted
  /\ \A i \in 1 .. Len(acknowledged) :
       /\ client \in Clients
       /\ acknowledged[i] <= client
       /\ pc \in {"header", "body", "answer"} => acknowledged[i] < client
  /\ \A i, j \in 1 .. Len(acknowledged) : i < j => acknowledged[i] < acknowledged[j]
  /\ \A c \in Clients : heard[c] = 200 => \E i \in 1 .. Len(acknowledged) : acknowledged[i] = c

\* What is known of a request while it is received.
ReceivingInv ==
  /\ pc \in {"header", "body"} => buffer <= sent[client]
  /\ pc = "header" => buffer <= MaxHeader /\ buffer < request[client].head
  /\ pc = "body" =>
       /\ request[client].head <= MaxHeader /\ request[client].head <= buffer
       /\ HeadersUsable(request[client]) /\ ~BodyComplete(request[client], buffer)

\* An answer stays deserved while the client may go on sending.
AnsweredInv ==
  \A c \in Clients : answered[c] # None =>
    \A total \in Nat :
      \/ answered[c] # 400 /\ (total >= sent[c] => Deserves(request[c], total) = answered[c])
      \/ /\ answered[c] = 400
         /\ \/ conn[c] = "reset"
            \/ total # sent[c] /\ (conn[c] = "open" => total < sent[c])
            \/ ~ClearOfLimits(request[c], total)
            \/ Deserves(request[c], total) = 400

IInv == TypeInv /\ OrderInv /\ OwedInv /\ ReceivingInv /\ AnsweredInv

(***************************************************************************)
(* Helpers.                                                                *)
(***************************************************************************)

LEMMA MinOfTwo ==
  ASSUME NEW a \in Int, NEW b \in Int
  PROVE  Min({a, b}) = IF a <= b THEN a ELSE b
  <1>1. \E x \in {a, b} : \A y \in {a, b} : x <= y
    OBVIOUS
  <1>2. Min({a, b}) \in {a, b} /\ \A y \in {a, b} : Min({a, b}) <= y
    BY <1>1 DEF Min
  <1>3. QED
    BY <1>2

\* What one recv() returns.
LEMMA PartReceived ==
  ASSUME HttpAssumption, TypeInv, client \in Clients, buffer <= sent[client], Available > 0
  PROVE  /\ Available \in 1 .. Chunk
         /\ buffer + Available <= sent[client]
  <1>1. sent[client] \in Nat /\ buffer \in Nat /\ Chunk \in Nat
    BY DEF HttpAssumption, TypeInv
  <1>2. Available = IF Chunk <= sent[client] - buffer THEN Chunk ELSE sent[client] - buffer
    BY <1>1, MinOfTwo DEF Available
  <1>3. QED
    BY <1>1, <1>2

LEMMA NoneIsNothing ==
  ASSUME HttpAssumption
  PROVE  None \notin Clients /\ None \notin Codes
  BY DEF HttpAssumption, Clients, Codes

LEMMA InitInvariant == ASSUME HttpAssumption, Init PROVE IInv
  <1>1. TypeInv
    <2>1. backlog \in Seq(Clients) /\ acknowledged \in Seq(Clients) /\ submitted \in Seq(Clients)
      BY DEF Init
    <2>2. /\ conn \in [Clients -> {"new", "open", "closed", "reset"}]
          /\ request \in [Clients -> Requests \cup {None}]
          /\ sent \in [Clients -> Nat]
      BY DEF Init
    <2>3. /\ heard \in [Clients -> Codes \cup {None}]
          /\ answered \in [Clients -> Codes \cup {None}]
      BY DEF Init
    <2>4. QED
      BY <2>1, <2>2, <2>3 DEF Init, TypeInv
  <1>2. OrderInv
    BY NoneIsNothing DEF Init, OrderInv
  <1>3. OwedInv
    BY NoneIsNothing DEF Init, OwedInv
  <1>4. ReceivingInv
    BY DEF Init, ReceivingInv
  <1>5. AnsweredInv
    BY DEF Init, AnsweredInv
  <1>6. QED
    BY <1>1, <1>2, <1>3, <1>4, <1>5 DEF IInv

(***************************************************************************)
(* What a part of a request leads to.                                      *)
(***************************************************************************)

LEMMA HeaderOutcome ==
  ASSUME HttpAssumption, IInv, ReceiveHeader
  PROVE  /\ buffer' \in Nat /\ buffer < buffer' /\ buffer' <= buffer + Chunk
         /\ buffer' <= sent[client] /\ conn[client] # "reset"
         /\ \/ Answer(400) /\ buffer' > MaxHeader
            \/ Answer(400) /\ ~HeadersUsable(request[client])
            \/ /\ pc' = "header" /\ answered' = answered
               /\ buffer' <= MaxHeader /\ buffer' < request[client].head
            \/ /\ buffer' <= MaxHeader /\ request[client].head <= buffer'
               /\ HeadersUsable(request[client])
               /\ IF BodyComplete(request[client], buffer') THEN Answer(Verdict(request[client]))
                  ELSE pc' = "body" /\ answered' = answered
  <1>1. client \in Clients /\ buffer <= sent[client] /\ TypeInv
    BY DEF IInv, OrderInv, ReceivingInv, ReceiveHeader
  <1>2. Available \in 1 .. Chunk /\ buffer + Available <= sent[client]
    BY <1>1, PartReceived DEF ReceiveHeader
  <1>3. buffer' = buffer + Available /\ buffer \in Nat /\ Chunk \in Nat /\ MaxHeader \in Nat
    BY <1>1 DEF ReceiveHeader, TypeInv, HttpAssumption
  <1>4. request[client].head \in Nat
    BY <1>1 DEF IInv, OrderInv, HttpAssumption
  <1>5. conn[client] # "reset"
    BY DEF ReceiveHeader, RecvFails
  <1>6. CASE HeaderTooLarge(buffer')
    BY <1>2, <1>3, <1>5, <1>6 DEF ReceiveHeader, HeaderTooLarge
  <1>7. CASE ~HeaderTooLarge(buffer') /\ buffer' < request[client].head
    BY <1>2, <1>3, <1>5, <1>7 DEF ReceiveHeader, HeaderTooLarge, Served
  <1>8. CASE ~HeaderTooLarge(buffer') /\ ~(buffer' < request[client].head)
    BY <1>2, <1>3, <1>4, <1>5, <1>8 DEF ReceiveHeader, HeaderTooLarge, Served
  <1>9. QED
    BY <1>6, <1>7, <1>8

LEMMA BodyOutcome ==
  ASSUME HttpAssumption, IInv, ReceiveBody
  PROVE  /\ buffer' \in Nat /\ buffer < buffer' /\ buffer' <= buffer + Chunk
         /\ buffer' <= sent[client] /\ conn[client] # "reset"
         /\ \/ Answer(400) /\ buffer' - request[client].head > MaxBody
            \/ BodyComplete(request[client], buffer') /\ Answer(Verdict(request[client]))
            \/ /\ pc' = "body" /\ answered' = answered
               /\ ~BodyComplete(request[client], buffer')
  <1>1. client \in Clients /\ buffer <= sent[client] /\ TypeInv
    BY DEF IInv, OrderInv, ReceivingInv, ReceiveBody
  <1>2. Available \in 1 .. Chunk /\ buffer + Available <= sent[client]
    BY <1>1, PartReceived DEF ReceiveBody
  <1>3. buffer' = buffer + Available /\ buffer \in Nat /\ Chunk \in Nat
    BY <1>1 DEF ReceiveBody, TypeInv, HttpAssumption
  <1>4. conn[client] # "reset"
    BY DEF ReceiveBody, RecvFails
  <1>5. CASE BodyTooLarge(request[client], buffer')
    BY <1>2, <1>3, <1>4, <1>5 DEF ReceiveBody, BodyTooLarge, Served
  <1>6. CASE ~BodyTooLarge(request[client], buffer') /\ BodyComplete(request[client], buffer')
    BY <1>2, <1>3, <1>4, <1>6 DEF ReceiveBody, Served
  <1>7. CASE ~BodyTooLarge(request[client], buffer') /\ ~BodyComplete(request[client], buffer')
    BY <1>2, <1>3, <1>4, <1>7 DEF ReceiveBody, Served
  <1>8. QED
    BY <1>5, <1>6, <1>7

\* The stream ended before the request did, or the connection was reset.
LEMMA FailureOutcome ==
  ASSUME HttpAssumption, IInv, ReceiveFails
  PROVE  /\ Answer(400)
         /\ conn[client] = "reset" \/ (conn[client] = "closed" /\ sent[client] = buffer)
  <1>1. client \in Clients /\ buffer <= sent[client] /\ TypeInv
    BY DEF IInv, OrderInv, ReceivingInv, ReceiveFails
  <1>2. sent[client] \in Nat /\ buffer \in Nat /\ Chunk \in Nat \ {0}
    BY <1>1 DEF HttpAssumption, TypeInv
  <1>3. Available = IF Chunk <= sent[client] - buffer THEN Chunk ELSE sent[client] - buffer
    BY <1>2, MinOfTwo DEF Available
  <1>4. QED
    BY <1>2, <1>3 DEF ReceiveFails, RecvFails

(***************************************************************************)
(* Types.                                                                  *)
(***************************************************************************)

LEMMA AnswerTypes ==
  ASSUME TypeInv, client \in Clients, NEW code \in Codes, Answer(code)
  PROVE  pc' = "answer" /\ answered' \in [Clients -> Codes \cup {None}]
  BY DEF TypeInv, Answer

LEMMA VerdictIsCode == ASSUME NEW r PROVE Verdict(r) \in {200, 405}
  BY DEF Verdict

LEMMA TypeStep ==
  ASSUME HttpAssumption, IInv, [Next]_vars
  PROVE  TypeInv'
  <1>0. TypeInv /\ 400 \in Codes /\ 200 \in Codes /\ 405 \in Codes
    BY DEF IInv, Codes
  <1> USE <1>0 DEF vars, serverVars, clientVars, historyVars
  <1>1. CASE RequestStop
    BY <1>1 DEF RequestStop, TypeInv
  <1>2. ASSUME NEW c \in Clients, NEW r \in Requests, Connect(c, r) PROVE TypeInv'
    BY <1>2 DEF Connect, TypeInv
  <1>3. ASSUME NEW c \in Clients, Send(c) PROVE TypeInv'
    BY <1>3 DEF Send, TypeInv
  <1>4. ASSUME NEW c \in Clients, NEW how \in {"closed", "reset"}, GiveUp(c, how) PROVE TypeInv'
    BY <1>4 DEF GiveUp, TypeInv
  <1>5. CASE CheckStop \/ SelectTimesOut \/ SelectInterrupted
    BY <1>5 DEF CheckStop, SelectTimesOut, SelectInterrupted, TypeInv
  <1>6. CASE Accept
    BY <1>6 DEF Accept, TypeInv
  <1>7. CASE AcceptFails
    BY <1>7 DEF AcceptFails, TypeInv
  <1>8. CASE ReceiveHeader
    <2>1. client \in Clients
      BY <1>8 DEF IInv, OrderInv, ReceiveHeader
    <2>2. pc' \in {"header", "body", "answer"} /\ answered' \in [Clients -> Codes \cup {None}]
      <3>1. \/ pc' \in {"header", "body"} /\ answered' = answered
            \/ Answer(400) \/ Answer(Verdict(request[client]))
        BY <1>8, HeaderOutcome
      <3>2. Verdict(request[client]) \in Codes
        BY VerdictIsCode
      <3>3. answered \in [Clients -> Codes \cup {None}]
        BY DEF TypeInv
      <3>4. \A code \in Codes : Answer(code) =>
              pc' = "answer" /\ answered' \in [Clients -> Codes \cup {None}]
        BY <2>1, AnswerTypes
      <3>5. QED
        BY <3>1, <3>2, <3>3, <3>4
    <2>3. buffer' \in Nat
      BY <1>8, HeaderOutcome
    <2>4. QED
      BY <1>8, <2>2, <2>3 DEF ReceiveHeader, TypeInv
  <1>9. CASE ReceiveBody
    <2>1. client \in Clients
      BY <1>9 DEF IInv, OrderInv, ReceiveBody
    <2>2. pc' \in {"body", "answer"} /\ answered' \in [Clients -> Codes \cup {None}]
      <3>1. \/ pc' = "body" /\ answered' = answered
            \/ Answer(400) \/ Answer(Verdict(request[client]))
        BY <1>9, BodyOutcome
      <3>2. Verdict(request[client]) \in Codes
        BY VerdictIsCode
      <3>3. answered \in [Clients -> Codes \cup {None}]
        BY DEF TypeInv
      <3>4. \A code \in Codes : Answer(code) =>
              pc' = "answer" /\ answered' \in [Clients -> Codes \cup {None}]
        BY <2>1, AnswerTypes
      <3>5. QED
        BY <3>1, <3>2, <3>3, <3>4
    <2>3. buffer' \in Nat
      BY <1>9, BodyOutcome
    <2>4. QED
      BY <1>9, <2>2, <2>3 DEF ReceiveBody, TypeInv
  <1>10. CASE ReceiveFails
    <2>1. client \in Clients
      BY <1>10 DEF IInv, OrderInv, ReceiveFails
    <2>2. pc' = "answer" /\ answered' \in [Clients -> Codes \cup {None}]
      BY <1>10, <2>1, FailureOutcome, AnswerTypes
    <2>3. QED
      BY <1>10, <2>2 DEF ReceiveFails, TypeInv
  <1>11. CASE SendAnswer
    <2>1. client \in Clients /\ answered[client] \in Codes
      BY <1>11 DEF IInv, OrderInv, SendAnswer
    <2>2. heard' \in [Clients -> Codes \cup {None}]
      <3>1. heard' = heard \/ heard' = [heard EXCEPT ![client] = answered[client]]
        BY <1>11 DEF SendAnswer, Hears
      <3>2. heard \in [Clients -> Codes \cup {None}]
        BY DEF TypeInv
      <3>3. QED
        BY <2>1, <3>1, <3>2
    <2>3. pc' \in {"submit", "loop"} /\ acknowledged' \in Seq(Clients)
      <3>1. acknowledged \in Seq(Clients)
        BY DEF TypeInv
      <3>2. Append(acknowledged, client) \in Seq(Clients)
        BY <2>1, <3>1
      <3>3. QED
        BY <1>11, <3>1, <3>2 DEF SendAnswer
    <2>4. UNCHANGED <<client, buffer, stop, backlog, request, conn, sent, answered, submitted>>
      BY <1>11 DEF SendAnswer
    <2>5. QED
      BY <2>2, <2>3, <2>4 DEF TypeInv
  <1>12. CASE SendKills \/ SubmitThrows
    BY <1>12 DEF SendKills, SubmitThrows, TypeInv
  <1>13. CASE Submit
    <2>1. client \in Clients
      BY <1>13 DEF IInv, OrderInv, Submit
    <2>2. QED
      BY <1>13, <2>1 DEF Submit, TypeInv
  <1>14. CASE UNCHANGED vars
    BY <1>14 DEF TypeInv
  <1>15. QED
    BY <1>1, <1>2, <1>3, <1>4, <1>5, <1>6, <1>7, <1>8, <1>9, <1>10, <1>11, <1>12, <1>13, <1>14
    DEF Next, Serve

(***************************************************************************)
(* The order of the clients.                                               *)
(***************************************************************************)

LEMMA OrderStep ==
  ASSUME HttpAssumption, IInv, [Next]_vars
  PROVE  OrderInv'
  <1>0. TypeInv /\ OrderInv /\ None \notin Clients /\ None \notin Codes
    BY NoneIsNothing DEF IInv
  <1>a. Clients \subseteq Nat
    BY DEF Clients
  <1> USE <1>0, <1>a DEF vars, serverVars, clientVars, historyVars, OrderInv
  <1>1. CASE RequestStop
    BY <1>1 DEF RequestStop
  <1>2. ASSUME NEW c \in Clients, NEW r \in Requests, Connect(c, r) PROVE OrderInv'
    <2>1. /\ conn[c] = "new" /\ conn' = [conn EXCEPT ![c] = "open"]
          /\ request' = [request EXCEPT ![c] = r]
          /\ backlog' = Append(backlog, c)
          /\ UNCHANGED <<pc, client, answered, heard>>
      BY <1>2 DEF Connect
    <2>2. \A d \in Clients : d < c => conn[d] # "new"
      BY <1>2 DEF Connect, Clients
    <2>3. \A d \in Clients : conn[d] # "new" => d < c
      BY <2>1
    <2>4. /\ Len(backlog') = Len(backlog) + 1
          /\ \A i \in 1 .. Len(backlog) : backlog'[i] = backlog[i] /\ backlog[i] \in Clients
          /\ backlog'[Len(backlog) + 1] = c
      BY <2>1 DEF TypeInv
    <2>5. \A d \in Clients : conn'[d] = IF d = c THEN "open" ELSE conn[d]
      BY <2>1 DEF TypeInv
    <2>6. \A d \in Clients : request'[d] = IF d = c THEN r ELSE request[d]
      BY <2>1 DEF TypeInv
    <2>7. \A e, d \in Clients : d < e /\ conn'[e] # "new" => conn'[d] # "new"
      BY <2>2, <2>5
    <2>8. \A i \in 1 .. Len(backlog') : conn'[backlog'[i]] # "new" /\ answered'[backlog'[i]] = None
      BY <2>1, <2>4, <2>5 DEF TypeInv
    <2>9. \A i, j \in 1 .. Len(backlog') : i < j => backlog'[i] < backlog'[j]
      <3>1. Len(backlog) \in Nat /\ c \in Nat
        BY DEF TypeInv
      <3>2. \A i \in 1 .. Len(backlog) : backlog[i] < c
        BY <2>3, <2>4
      <3>3. SUFFICES ASSUME NEW i \in 1 .. Len(backlog'), NEW j \in 1 .. Len(backlog'), i < j
                     PROVE  backlog'[i] < backlog'[j]
        OBVIOUS
      <3>4. i \in 1 .. Len(backlog) /\ (j \in 1 .. Len(backlog) \/ j = Len(backlog) + 1)
        BY <2>4, <3>1, <3>3
      <3>5. CASE j \in 1 .. Len(backlog)
        BY <2>4, <3>3, <3>4, <3>5
      <3>6. CASE j = Len(backlog) + 1
        BY <2>4, <3>2, <3>4, <3>6
      <3>7. QED
        BY <3>4, <3>5, <3>6
    <2>10. client' \in Clients => /\ conn'[client'] # "new"
                                  /\ \A i \in 1 .. Len(backlog') : client' < backlog'[i]
      BY <2>1, <2>3, <2>4, <2>5 DEF TypeInv
    <2>11. QED
      BY <2>1, <2>5, <2>6, <2>7, <2>8, <2>9, <2>10
  <1>3. ASSUME NEW c \in Clients, Send(c) PROVE OrderInv'
    BY <1>3 DEF Send
  <1>4. ASSUME NEW c \in Clients, NEW how \in {"closed", "reset"}, GiveUp(c, how) PROVE OrderInv'
    <2>1. \A d \in Clients : conn'[d] # "new" <=> conn[d] # "new"
      BY <1>4 DEF GiveUp, TypeInv
    <2>2. UNCHANGED <<pc, client, backlog, request, answered, heard>>
      BY <1>4 DEF GiveUp
    <2>3. \A i \in 1 .. Len(backlog) : backlog[i] \in Clients
      BY DEF TypeInv
    <2>4. QED
      BY <2>1, <2>2, <2>3
  <1>5. CASE CheckStop \/ SelectTimesOut \/ SelectInterrupted
    BY <1>5 DEF CheckStop, SelectTimesOut, SelectInterrupted
  <1>6. CASE Accept \/ AcceptFails
    <2>1. backlog # <<>> /\ backlog' = Tail(backlog) /\ UNCHANGED <<conn, request, answered, heard>>
      BY <1>6 DEF Accept, AcceptFails
    <2>2. /\ Len(backlog') = Len(backlog) - 1
          /\ \A i \in 1 .. Len(backlog') : backlog'[i] = backlog[i + 1]
          /\ Head(backlog) = backlog[1] /\ backlog[1] \in Clients
          /\ Len(backlog) \in Nat \ {0}
          /\ \A i \in 1 .. Len(backlog) : backlog[i] \in Clients
      BY <2>1 DEF TypeInv
    <2>3. \A i \in 1 .. Len(backlog') : conn'[backlog'[i]] # "new" /\ answered'[backlog'[i]] = None
      <3>1. \A i \in 1 .. Len(backlog') : i + 1 \in 1 .. Len(backlog) /\ backlog'[i] = backlog[i + 1]
        BY <2>2
      <3>2. \A i \in 1 .. Len(backlog) : conn[backlog[i]] # "new" /\ answered[backlog[i]] = None
        OBVIOUS
      <3>3. conn' = conn /\ answered' = answered
        BY <2>1
      <3>4. QED
        BY <3>1, <3>2, <3>3
    <2>4. \A i, j \in 1 .. Len(backlog') : i < j => backlog'[i] < backlog'[j]
      BY <2>2
    <2>5. CASE Accept
      <3>1. client' = backlog[1] /\ pc' = "header"
        BY <2>2, <2>5 DEF Accept
      <3>2. \A i \in 1 .. Len(backlog') : client' < backlog'[i]
        BY <2>2, <3>1
      <3>3. conn'[client'] # "new" /\ answered'[client'] = None /\ client' \in Clients
        <4>1. 1 \in 1 .. Len(backlog)
          BY <2>2
        <4>2. conn[backlog[1]] # "new" /\ answered[backlog[1]] = None
          BY <4>1
        <4>3. QED
          BY <2>1, <2>2, <3>1, <4>2
      <3>4. QED
        BY <2>1, <2>3, <2>4, <3>1, <3>2, <3>3
    <2>6. CASE AcceptFails
      <3>1. client' = client /\ pc' \in {"loop", "closed"}
        BY <2>6 DEF AcceptFails
      <3>2. client \in Clients => \A i \in 1 .. Len(backlog') : client' < backlog'[i]
        BY <2>2, <3>1
      <3>3. QED
        BY <2>1, <2>3, <2>4, <3>1, <3>2
    <2>7. QED
      BY <1>6, <2>5, <2>6
  <1>7. CASE ReceiveHeader \/ ReceiveBody \/ ReceiveFails
    <2>1. /\ client \in Clients /\ pc \in {"header", "body"}
          /\ UNCHANGED <<client, backlog, conn, request, heard>>
      BY <1>7 DEF ReceiveHeader, ReceiveBody, ReceiveFails
    <2>2. \/ pc' \in {"header", "body"} /\ answered' = answered
          \/ \E code \in Codes : Answer(code)
      BY <1>7, HeaderOutcome, BodyOutcome, FailureOutcome, VerdictIsCode DEF Codes
    <2>3. CASE pc' \in {"header", "body"} /\ answered' = answered
      BY <2>1, <2>3
    <2>4. ASSUME NEW code \in Codes, Answer(code) PROVE OrderInv'
      <3>1. pc' = "answer" /\ \A c \in Clients : answered'[c] = IF c = client THEN code ELSE answered[c]
        BY <2>4 DEF Answer, TypeInv
      <3>2. \A i \in 1 .. Len(backlog) : backlog[i] \in Clients /\ backlog[i] # client
        BY <2>1 DEF TypeInv
      <3>3. QED
        BY <2>1, <3>1, <3>2
    <2>5. QED
      BY <2>2, <2>3, <2>4
  <1>8. CASE SendAnswer
    <2>1. client \in Clients /\ pc' \in {"submit", "loop"} /\ pc = "answer"
          /\ UNCHANGED <<client, backlog, conn, request, answered>>
      BY <1>8 DEF SendAnswer
    <2>2. \A c \in Clients : c # client => heard'[c] = heard[c]
      BY <1>8 DEF SendAnswer, Hears, TypeInv
    <2>3. QED
      BY <2>1, <2>2
  <1>9. CASE SendKills \/ Submit \/ SubmitThrows
    BY <1>9 DEF SendKills, Submit, SubmitThrows
  <1>10. CASE UNCHANGED vars
    BY <1>10
  <1>11. QED
    BY <1>1, <1>2, <1>3, <1>4, <1>5, <1>6, <1>7, <1>8, <1>9, <1>10 DEF Next, Serve

(***************************************************************************)
(* What the server owes the ingress.                                       *)
(***************************************************************************)

LEMMA OwedStep ==
  ASSUME HttpAssumption, IInv, [Next]_vars
  PROVE  OwedInv'
  <1>0. TypeInv /\ OrderInv /\ OwedInv /\ None \notin Clients
    BY NoneIsNothing DEF IInv
  <1>a. Clients \subseteq Nat
    BY DEF Clients
  <1>b. \A i \in 1 .. Len(acknowledged) : acknowledged[i] \in Clients
    BY <1>0 DEF TypeInv
  <1> USE <1>0, <1>a, <1>b DEF vars, serverVars, clientVars, historyVars, OwedInv
  <1>1. CASE RequestStop
    BY <1>1 DEF RequestStop
  <1>2. ASSUME NEW c \in Clients, NEW r \in Requests, Connect(c, r) PROVE OwedInv'
    BY <1>2 DEF Connect
  <1>3. ASSUME NEW c \in Clients, Send(c) PROVE OwedInv'
    BY <1>3 DEF Send
  <1>4. ASSUME NEW c \in Clients, NEW how \in {"closed", "reset"}, GiveUp(c, how) PROVE OwedInv'
    BY <1>4 DEF GiveUp
  <1>5. CASE CheckStop \/ SelectTimesOut \/ SelectInterrupted \/ AcceptFails
    BY <1>5 DEF CheckStop, SelectTimesOut, SelectInterrupted, AcceptFails
  <1>6. CASE Accept
    <2>1. client' = backlog[1] /\ backlog[1] \in Clients /\ Len(backlog) >= 1 /\ Len(backlog) \in Nat
      BY <1>6 DEF Accept, TypeInv
    <2>2. client \in Clients => client < client'
      BY <2>1 DEF OrderInv
    <2>3. \A i \in 1 .. Len(acknowledged) : acknowledged[i] < client'
      <3>1. SUFFICES ASSUME NEW i \in 1 .. Len(acknowledged)
                     PROVE  acknowledged[i] < client'
        OBVIOUS
      <3>2. acknowledged[i] \in Nat /\ client \in Clients /\ acknowledged[i] <= client
        OBVIOUS
      <3>3. client \in Nat /\ client' \in Nat /\ client < client'
        BY <2>1, <2>2, <3>2
      <3>4. QED
        BY <3>2, <3>3
    <2>4. pc = "select" /\ pc' = "header" /\ UNCHANGED <<heard, acknowledged, submitted>>
      BY <1>6 DEF Accept
    <2>5. \A i \in 1 .. Len(acknowledged) : acknowledged[i] <= client' /\ client' \in Clients
      <3>1. \A i \in 1 .. Len(acknowledged) : acknowledged[i] \in Nat
        OBVIOUS
      <3>2. client' \in Clients /\ client' \in Nat
        BY <2>1
      <3>3. QED
        BY <2>3, <3>1, <3>2
    <2>6. acknowledged = submitted
      BY <2>4
    <2>7. QED
      BY <2>3, <2>4, <2>5, <2>6
  <1>7. CASE ReceiveHeader \/ ReceiveBody \/ ReceiveFails
    <2>1. pc \in {"header", "body"} /\ UNCHANGED <<client, heard, acknowledged, submitted>>
      BY <1>7 DEF ReceiveHeader, ReceiveBody, ReceiveFails
    <2>2. pc' \in {"header", "body", "answer"}
      BY <1>7, HeaderOutcome, BodyOutcome, FailureOutcome DEF Answer
    <2>3. QED
      BY <2>1, <2>2
  <1>8. CASE SendAnswer
    <2>1. client \in Clients /\ pc = "answer" /\ acknowledged = submitted
          /\ UNCHANGED <<client, submitted>>
      BY <1>8 DEF SendAnswer, OrderInv
    <2>2. CASE answered[client] = 200
      <3>1. acknowledged' = Append(acknowledged, client) /\ pc' = "submit"
        BY <1>8, <2>2 DEF SendAnswer
      <3>2. /\ Len(acknowledged') = Len(acknowledged) + 1
            /\ acknowledged'[Len(acknowledged) + 1] = client
            /\ \A i \in 1 .. Len(acknowledged) : acknowledged'[i] = acknowledged[i]
            /\ Len(acknowledged) \in Nat
        BY <3>1 DEF TypeInv
      <3>3. \A i \in 1 .. Len(acknowledged') : acknowledged'[i] <= client
        BY <2>1, <3>2
      <3>4. \A i, j \in 1 .. Len(acknowledged') : i < j => acknowledged'[i] < acknowledged'[j]
        BY <2>1, <3>2
      <3>5. \A c \in Clients : heard'[c] = 200 =>
              \E i \in 1 .. Len(acknowledged') : acknowledged'[i] = c
        <4>1. \A c \in Clients : c # client => heard'[c] = heard[c]
          BY <1>8 DEF SendAnswer, Hears, TypeInv
        <4>2. \A c \in Clients : heard[c] = 200 =>
                \E i \in 1 .. Len(acknowledged) : acknowledged[i] = c
          BY <2>1 DEF OwedInv
        <4>3. /\ \A i \in 1 .. Len(acknowledged) : i \in 1 .. Len(acknowledged')
              /\ Len(acknowledged) + 1 \in 1 .. Len(acknowledged')
          BY <3>2
        <4>4. SUFFICES ASSUME NEW c \in Clients, heard'[c] = 200
                       PROVE  \E i \in 1 .. Len(acknowledged') : acknowledged'[i] = c
          OBVIOUS
        <4>5. CASE c = client
          BY ONLY <3>2, <4>3, <4>5
        <4>6. CASE c # client
          <5>1. PICK i \in 1 .. Len(acknowledged) : acknowledged[i] = c
            BY <4>1, <4>2, <4>4, <4>6
          <5>2. QED
            BY ONLY <3>2, <4>3, <5>1
        <4>7. QED
          BY <4>5, <4>6
      <3>6. QED
        BY <2>1, <3>1, <3>3, <3>4, <3>5
    <2>3. CASE answered[client] # 200
      <3>1. acknowledged' = acknowledged /\ pc' = "loop"
        BY <1>8, <2>3 DEF SendAnswer
      <3>2. \A c \in Clients : heard'[c] = 200 => heard[c] = 200
        BY <1>8, <2>3 DEF SendAnswer, Hears, TypeInv
      <3>3. QED
        BY <2>1, <3>1, <3>2
    <2>4. QED
      BY <2>2, <2>3
  <1>9. CASE SendKills
    BY <1>9 DEF SendKills
  <1>10. CASE Submit
    BY <1>10 DEF Submit
  <1>11. CASE SubmitThrows
    BY <1>11 DEF SubmitThrows
  <1>12. CASE UNCHANGED vars
    BY <1>12
  <1>13. QED
    BY <1>1, <1>2, <1>3, <1>4, <1>5, <1>6, <1>7, <1>8, <1>9, <1>10, <1>11, <1>12
    DEF Next, Serve

(***************************************************************************)
(* The request in hand.                                                    *)
(***************************************************************************)

LEMMA ReceivingStep ==
  ASSUME HttpAssumption, IInv, [Next]_vars
  PROVE  ReceivingInv'
  <1>0. TypeInv /\ OrderInv /\ ReceivingInv
    BY DEF IInv
  <1>a. Clients \subseteq Nat
    BY DEF Clients
  <1> USE <1>0, <1>a DEF vars, serverVars, clientVars, historyVars, ReceivingInv
  <1>1. CASE RequestStop
    BY <1>1 DEF RequestStop
  <1>2. ASSUME NEW c \in Clients, NEW r \in Requests, Connect(c, r) PROVE ReceivingInv'
    <2>1. pc \in {"header", "body"} => client \in Clients /\ client # c
      BY <1>2 DEF Connect, OrderInv
    <2>2. pc \in {"header", "body"} => request'[client] = request[client]
      BY <1>2, <2>1 DEF Connect, TypeInv
    <2>3. UNCHANGED <<pc, client, buffer, sent>>
      BY <1>2 DEF Connect
    <2>4. QED
      BY <2>2, <2>3
  <1>3. ASSUME NEW c \in Clients, Send(c) PROVE ReceivingInv'
    <2>1. UNCHANGED <<pc, client, buffer, request>>
      BY <1>3 DEF Send
    <2>2. \A d \in Clients : sent[d] \in Nat /\ sent'[d] \in Nat /\ sent[d] <= sent'[d]
      BY <1>3 DEF Send, TypeInv
    <2>3. pc \in {"header", "body"} => client \in Clients /\ buffer \in Nat
      BY DEF OrderInv, TypeInv
    <2>4. pc \in {"header", "body"} => buffer <= sent'[client]
      BY <2>2, <2>3
    <2>5. QED
      BY <2>1, <2>4
  <1>4. ASSUME NEW c \in Clients, NEW how \in {"closed", "reset"}, GiveUp(c, how) PROVE ReceivingInv'
    BY <1>4 DEF GiveUp
  <1>5. CASE CheckStop \/ SelectTimesOut \/ SelectInterrupted \/ AcceptFails
    BY <1>5 DEF CheckStop, SelectTimesOut, SelectInterrupted, AcceptFails
  <1>6. CASE Accept
    <2>1. client' \in Clients /\ conn[client'] # "new"
      BY <1>6 DEF Accept, TypeInv, OrderInv
    <2>2. sent[client'] \in Nat /\ request[client'] \in Requests
      BY <2>1 DEF TypeInv, OrderInv
    <2>3. request[client'].head \in Nat \ {0} /\ MaxHeader \in Nat
      BY <2>2 DEF HttpAssumption
    <2>4. pc' = "header" /\ buffer' = 0 /\ UNCHANGED <<sent, request>>
      BY <1>6 DEF Accept
    <2>5. QED
      BY <2>2, <2>3, <2>4
  <1>7. CASE ReceiveHeader
    <2>1. UNCHANGED <<client, request, sent>>
      BY <1>7 DEF ReceiveHeader
    <2>2. client \in Clients
      BY <1>7 DEF ReceiveHeader, OrderInv
    <2>3. request[client].head \in Nat /\ MaxHeader \in Nat
      BY <2>2, <1>7 DEF OrderInv, HttpAssumption
    <2>4. buffer' \in Nat /\ buffer' <= sent[client]
      BY <1>7, HeaderOutcome
    <2>5. CASE pc' = "answer"
      BY <2>5
    <2>6. CASE pc' = "header" /\ buffer' <= MaxHeader /\ buffer' < request[client].head
      BY <2>1, <2>4, <2>6
    <2>7. CASE /\ pc' = "body" /\ buffer' <= MaxHeader /\ request[client].head <= buffer'
               /\ HeadersUsable(request[client]) /\ ~BodyComplete(request[client], buffer')
      BY <2>1, <2>3, <2>4, <2>7
    <2>8. QED
      BY <1>7, <2>5, <2>6, <2>7, HeaderOutcome DEF Answer
  <1>8. CASE ReceiveBody
    <2>1. UNCHANGED <<client, request, sent>>
      BY <1>8 DEF ReceiveBody
    <2>2. client \in Clients
      BY <1>8 DEF ReceiveBody, OrderInv
    <2>3. request[client].head \in Nat /\ buffer \in Nat
      BY <2>2, <1>8 DEF OrderInv, HttpAssumption, TypeInv
    <2>4. buffer' \in Nat /\ buffer' <= sent[client] /\ buffer < buffer'
      BY <1>8, BodyOutcome
    <2>5. CASE pc' = "answer"
      BY <2>5
    <2>6. CASE pc' = "body" /\ ~BodyComplete(request[client], buffer')
      <3>1. /\ request[client].head <= MaxHeader /\ request[client].head <= buffer
            /\ HeadersUsable(request[client])
        BY <1>8 DEF ReceiveBody
      <3>2. request[client].head <= buffer'
        BY <2>3, <2>4, <3>1
      <3>3. QED
        BY <2>1, <2>4, <2>6, <3>1, <3>2
    <2>7. QED
      BY <1>8, <2>5, <2>6, BodyOutcome DEF Answer
  <1>9. CASE ReceiveFails
    BY <1>9, FailureOutcome DEF Answer
  <1>10. CASE SendAnswer \/ SendKills \/ Submit \/ SubmitThrows
    BY <1>10 DEF SendAnswer, SendKills, Submit, SubmitThrows
  <1>11. CASE UNCHANGED vars
    BY <1>11
  <1>12. QED
    BY <1>1, <1>2, <1>3, <1>4, <1>5, <1>6, <1>7, <1>8, <1>9, <1>10, <1>11 DEF Next, Serve

(***************************************************************************)
(* Answers.  A request deserves what it is answered, however many bytes of *)
(* it are sent after that.                                                 *)
(***************************************************************************)

\* What AnsweredInv says of one client, answer and number of bytes.
AnswerHolds(c, total) ==
  \/ answered[c] # 400 /\ (total >= sent[c] => Deserves(request[c], total) = answered[c])
  \/ /\ answered[c] = 400
     /\ \/ conn[c] = "reset"
        \/ total # sent[c] /\ (conn[c] = "open" => total < sent[c])
        \/ ~ClearOfLimits(request[c], total)
        \/ Deserves(request[c], total) = 400

\* A complete and usable request within the limits deserves its verdict.
LEMMA CompleteDeserves ==
  ASSUME HttpAssumption, NEW r \in Requests, NEW n \in Nat, NEW total \in Nat, n <= total,
         r.head <= n, r.head <= MaxHeader, HeadersUsable(r), BodyComplete(r, n)
  PROVE  Deserves(r, total) = Verdict(r)
  <1>1. r.head \in Nat /\ MaxBody \in Nat
    BY DEF HttpAssumption
  <1>2. /\ r.method # None /\ ParseContentLength(r.lengths) # None
        /\ ParseContentLength(r.lengths) \in Nat /\ ParseContentLength(r.lengths) <= MaxBody
    BY DEF HeadersUsable, HttpAssumption
  <1>3. r.head + ParseContentLength(r.lengths) <= total
    BY <1>1, <1>2 DEF BodyComplete
  <1>4. r.head <= total
    BY <1>1
  <1>5. QED
    BY <1>2, <1>3, <1>4 DEF Deserves

\* A part that trips the limit of the header ends a request near the limit, or
\* one whose header is too long.
LEMMA HeaderLimit ==
  ASSUME HttpAssumption, NEW r \in Requests, NEW before \in Nat, NEW n \in Nat, NEW total \in Nat,
         before < r.head, n <= before + Chunk, MaxHeader < n, n <= total
  PROVE  ~ClearOfLimits(r, total) \/ Deserves(r, total) = 400
  <1>1. r.head \in Nat /\ MaxHeader \in Nat /\ Chunk \in Nat \ {0}
    BY DEF HttpAssumption
  <1>2. CASE r.head <= MaxHeader
    BY <1>1, <1>2 DEF ClearOfLimits
  <1>3. CASE ~(r.head <= MaxHeader)
    BY <1>3 DEF Deserves
  <1>4. QED
    BY <1>2, <1>3

\* A part that trips the limit of the body ends a request near that limit.
LEMMA BodyLimit ==
  ASSUME HttpAssumption, NEW r \in Requests, NEW before \in Nat, NEW n \in Nat, NEW total \in Nat,
         HeadersUsable(r), r.head <= before, ~BodyComplete(r, before), n <= before + Chunk,
         n - r.head > MaxBody, n <= total
  PROVE  ~ClearOfLimits(r, total)
  <1>1. r.head \in Nat /\ MaxBody \in Nat /\ Chunk \in Nat \ {0}
    BY DEF HttpAssumption
  <1>2. /\ ParseContentLength(r.lengths) # None /\ ParseContentLength(r.lengths) \in Nat
        /\ ParseContentLength(r.lengths) <= MaxBody
    BY DEF HeadersUsable, HttpAssumption
  <1>3. before - r.head < ParseContentLength(r.lengths)
    BY <1>1, <1>2 DEF BodyComplete
  <1>4. QED
    BY <1>1, <1>2, <1>3 DEF ClearOfLimits

\* The answer given to the client in hand holds.
LEMMA AnswerGiven ==
  ASSUME HttpAssumption, IInv, ReceiveHeader \/ ReceiveBody \/ ReceiveFails,
         NEW code \in Codes, Answer(code), NEW total \in Nat
  PROVE  AnswerHolds(client, total)'
  <1>0. /\ client \in Clients /\ request[client] \in Requests /\ TypeInv /\ ReceivingInv
        /\ UNCHANGED <<client, request, conn, sent>>
    BY DEF IInv, OrderInv, ReceiveHeader, ReceiveBody, ReceiveFails, clientVars
  <1>1. answered'[client] = code
    BY <1>0 DEF Answer, TypeInv
  <1>2. buffer \in Nat /\ sent[client] \in Nat
    BY <1>0 DEF TypeInv
  <1>3. CASE ReceiveHeader
    <2>1. /\ buffer' \in Nat /\ buffer' <= buffer + Chunk /\ buffer' <= sent[client]
          /\ buffer < request[client].head
      BY <1>0, <1>3, HeaderOutcome DEF ReceivingInv, ReceiveHeader
    <2>2. CASE total >= sent[client]
      <3>1. buffer' <= total
        BY <1>2, <2>1, <2>2
      <3>2. CASE code = 400 /\ buffer' > MaxHeader
        <4>1. MaxHeader < buffer'
          BY <2>1, <3>2 DEF HttpAssumption
        <4>2. ~ClearOfLimits(request[client], total) \/ Deserves(request[client], total) = 400
          BY <1>0, <1>2, <2>1, <3>1, <4>1, HeaderLimit
        <4>3. QED
          BY <1>0, <1>1, <3>2, <4>2 DEF AnswerHolds
      <3>3. CASE code = 400 /\ ~HeadersUsable(request[client])
        <4>1. Deserves(request[client], total) = 400
          BY <3>3 DEF Deserves, HeadersUsable
        <4>2. QED
          BY <1>0, <1>1, <3>3, <4>1 DEF AnswerHolds
      <3>4. CASE /\ buffer' <= MaxHeader /\ request[client].head <= buffer'
                 /\ HeadersUsable(request[client]) /\ BodyComplete(request[client], buffer')
                 /\ code = Verdict(request[client])
        <4>1. request[client].head <= MaxHeader
          BY <1>0, <2>1, <3>4 DEF HttpAssumption
        <4>2. Deserves(request[client], total) = code
          BY <1>0, <2>1, <3>1, <3>4, <4>1, CompleteDeserves
        <4>3. code # 400
          BY <3>4, VerdictIsCode
        <4>4. QED
          BY <1>0, <1>1, <4>2, <4>3 DEF AnswerHolds
      <3>5. \A x \in Codes : Answer(x) => x = code
        BY <1>1, <1>0 DEF Answer, TypeInv
      <3>6. 400 \in Codes /\ Verdict(request[client]) \in Codes /\ pc' = "answer"
        BY VerdictIsCode DEF Codes, Answer
      <3>7. QED
        BY <1>3, <3>2, <3>3, <3>4, <3>5, <3>6, HeaderOutcome
    <2>3. CASE ~(total >= sent[client])
      <3>1. total < sent[client]
        BY <1>2, <2>3
      <3>2. QED
        BY <1>0, <1>1, <1>2, <3>1 DEF AnswerHolds
    <2>4. QED
      BY <2>2, <2>3
  <1>4. CASE ReceiveBody
    <2>1. /\ buffer' \in Nat /\ buffer' <= buffer + Chunk /\ buffer' <= sent[client] /\ buffer < buffer'
          /\ request[client].head <= MaxHeader /\ request[client].head <= buffer
          /\ HeadersUsable(request[client]) /\ ~BodyComplete(request[client], buffer)
      BY <1>0, <1>4, BodyOutcome DEF ReceivingInv, ReceiveBody
    <2>2. CASE total >= sent[client]
      <3>1. buffer' <= total
        BY <1>2, <2>1, <2>2
      <3>2. CASE code = 400 /\ buffer' - request[client].head > MaxBody
        <4>1. ~ClearOfLimits(request[client], total)
          BY <1>0, <1>2, <2>1, <3>1, <3>2, BodyLimit
        <4>2. QED
          BY <1>0, <1>1, <3>2, <4>1 DEF AnswerHolds
      <3>3. CASE BodyComplete(request[client], buffer') /\ code = Verdict(request[client])
        <4>1. request[client].head <= buffer'
          BY <1>0, <1>2, <2>1 DEF HttpAssumption
        <4>2. Deserves(request[client], total) = code
          BY <1>0, <2>1, <3>1, <3>3, <4>1, CompleteDeserves
        <4>3. code # 400
          BY <3>3, VerdictIsCode
        <4>4. QED
          BY <1>0, <1>1, <4>2, <4>3 DEF AnswerHolds
      <3>4. \A x \in Codes : Answer(x) => x = code
        BY <1>1, <1>0 DEF Answer, TypeInv
      <3>5. 400 \in Codes /\ Verdict(request[client]) \in Codes /\ pc' = "answer"
        BY VerdictIsCode DEF Codes, Answer
      <3>6. QED
        BY <1>4, <3>2, <3>3, <3>4, <3>5, BodyOutcome
    <2>3. CASE ~(total >= sent[client])
      <3>1. total < sent[client]
        BY <1>2, <2>3
      <3>2. QED
        BY <1>0, <1>1, <1>2, <3>1 DEF AnswerHolds
    <2>4. QED
      BY <2>2, <2>3
  <1>5. CASE ReceiveFails
    <2>1. code = 400
      BY <1>0, <1>1, <1>5, FailureOutcome DEF Answer, TypeInv
    <2>2. CASE conn[client] = "reset"
      BY <1>0, <1>1, <2>1, <2>2 DEF AnswerHolds
    <2>3. CASE conn[client] = "closed" /\ sent[client] = buffer
      <3>1. CASE total # sent[client]
        BY <1>0, <1>1, <2>1, <2>3, <3>1 DEF AnswerHolds
      <3>2. CASE total = sent[client]
        <4>1. request[client].head \in Nat
          BY <1>0 DEF HttpAssumption
        <4>2. CASE pc = "header"
          <5>1. ~(request[client].head <= total)
            BY <1>0, <1>2, <2>3, <3>2, <4>1, <4>2 DEF ReceivingInv
          <5>2. QED
            BY <1>0, <1>1, <2>1, <5>1 DEF AnswerHolds, Deserves
        <4>3. CASE pc = "body"
          <5>1. HeadersUsable(request[client]) /\ ~BodyComplete(request[client], total)
            BY <1>0, <2>3, <3>2, <4>3 DEF ReceivingInv
          <5>2. ParseContentLength(request[client].lengths) \in Nat
            BY <1>0, <5>1 DEF HeadersUsable, HttpAssumption
          <5>3. ~(request[client].head + ParseContentLength(request[client].lengths) <= total)
            BY <4>1, <5>1, <5>2 DEF BodyComplete
          <5>4. QED
            BY <1>0, <1>1, <2>1, <5>3 DEF AnswerHolds, Deserves
        <4>4. QED
          BY <1>5, <4>2, <4>3 DEF ReceiveFails
      <3>3. QED
        BY <3>1, <3>2
    <2>4. QED
      BY <1>5, <2>2, <2>3, FailureOutcome
  <1>6. QED
    BY <1>3, <1>4, <1>5

LEMMA AnsweredStep ==
  ASSUME HttpAssumption, IInv, [Next]_vars
  PROVE  AnsweredInv'
  <1>0. TypeInv /\ OrderInv /\ None \notin Codes
    BY NoneIsNothing DEF IInv
  <1>a. \A c \in Clients, total \in Nat : answered[c] # None => AnswerHolds(c, total)
    BY DEF IInv, AnsweredInv, AnswerHolds
  <1> SUFFICES ASSUME NEW c \in Clients, NEW total \in Nat, answered'[c] # None
               PROVE  AnswerHolds(c, total)'
    BY DEF AnsweredInv, AnswerHolds
  <1> USE <1>0 DEF vars, serverVars, clientVars, historyVars
  <1>1. ASSUME NEW d \in Clients, NEW r \in Requests, Connect(d, r) PROVE AnswerHolds(c, total)'
    <2>1. answered[c] # None /\ UNCHANGED <<answered, sent>>
      BY <1>1 DEF Connect
    <2>2. c # d
      BY <1>1, <2>1 DEF Connect, OrderInv
    <2>3. request'[c] = request[c] /\ conn'[c] = conn[c]
      BY <1>1, <2>2 DEF Connect, TypeInv
    <2>4. QED
      BY <1>a, <2>1, <2>3 DEF AnswerHolds
  <1>2. ASSUME NEW d \in Clients, Send(d) PROVE AnswerHolds(c, total)'
    <2>1. answered[c] # None /\ UNCHANGED <<answered, request, conn>>
      BY <1>2 DEF Send
    <2>2. sent'[c] = sent[c] \/ (sent'[c] = sent[c] + 1 /\ conn[c] = "open")
      BY <1>2 DEF Send, TypeInv
    <2>3. sent[c] \in Nat
      BY DEF TypeInv
    <2>4. CASE sent'[c] = sent[c]
      BY <1>a, <2>1, <2>4 DEF AnswerHolds
    <2>5. CASE sent'[c] = sent[c] + 1 /\ conn[c] = "open"
      <3>1. AnswerHolds(c, total)
        BY <1>a, <2>1
      <3>2. total >= sent'[c] => total >= sent[c]
        BY <2>3, <2>5
      <3>3. total < sent[c] => total < sent'[c] /\ total # sent'[c]
        BY <2>3, <2>5
      <3>4. QED
        BY <2>1, <2>5, <3>1, <3>2, <3>3 DEF AnswerHolds
    <2>6. QED
      BY <2>2, <2>4, <2>5
  <1>3. ASSUME NEW d \in Clients, NEW how \in {"closed", "reset"}, GiveUp(d, how)
        PROVE  AnswerHolds(c, total)'
    <2>1. answered[c] # None /\ UNCHANGED <<answered, request, sent>>
      BY <1>3 DEF GiveUp
    <2>2. conn'[c] = conn[c] \/ conn'[c] \in {"closed", "reset"}
      BY <1>3 DEF GiveUp, TypeInv
    <2>3. conn[c] = "reset" => conn'[c] = "reset"
      BY <1>3 DEF GiveUp, TypeInv
    <2>4. QED
      BY <1>a, <2>1, <2>2, <2>3 DEF AnswerHolds
  <1>4. CASE ReceiveHeader \/ ReceiveBody \/ ReceiveFails
    <2>1. UNCHANGED <<request, conn, sent>> /\ client \in Clients /\ client' = client
      BY <1>4 DEF ReceiveHeader, ReceiveBody, ReceiveFails, OrderInv
    <2>2. answered' = answered \/ \E code \in Codes : Answer(code)
      BY <1>4, HeaderOutcome, BodyOutcome, FailureOutcome, VerdictIsCode DEF Codes
    <2>3. CASE answered' = answered
      BY <1>a, <2>1, <2>3 DEF AnswerHolds
    <2>4. ASSUME NEW code \in Codes, Answer(code) PROVE AnswerHolds(c, total)'
      <3>1. CASE c = client
        BY <1>4, <2>1, <2>4, <3>1, AnswerGiven
      <3>2. CASE c # client
        <4>1. answered'[c] = answered[c]
          BY <2>1, <2>4, <3>2 DEF Answer, TypeInv
        <4>2. QED
          BY <1>a, <2>1, <4>1 DEF AnswerHolds
      <3>3. QED
        BY <3>1, <3>2
    <2>5. QED
      BY <2>2, <2>3, <2>4
  <1>5. CASE UNCHANGED <<answered, request, conn, sent>>
    BY <1>5, <1>a DEF AnswerHolds
  <1>6. QED
    BY <1>1, <1>2, <1>3, <1>4, <1>5
    DEF Next, Serve, RequestStop, CheckStop, SelectTimesOut, SelectInterrupted, Accept, AcceptFails,
        SendAnswer, SendKills, Submit, SubmitThrows

(***************************************************************************)
(* The theorems.                                                           *)
(***************************************************************************)

\* Everything the server and its clients do, in any order, keeps the invariant
\* (the whole loop of GsiHttpServer::run and receive_request).
THEOREM HttpInvariant == Spec => []IInv
  <1>1. Init => IInv
    BY HttpAssumption, InitInvariant
  <1>2. IInv /\ [Next]_vars => IInv'
    BY HttpAssumption, TypeStep, OrderStep, OwedStep, ReceivingStep, AnsweredStep DEF IInv
  <1>3. QED
    BY <1>1, <1>2, PTL DEF Spec

\* Whatever the limits, the requests and the parts in which they arrive, a
\* client is answered what all it sent deserves, or 400 near a limit or when the
\* connection was reset (receive_request and the branches of run).
THEOREM AnswersAreDeserved == Spec => []AnswerIsDeserved
  <1>1. ASSUME IInv PROVE AnswerIsDeserved
    <2>1. SUFFICES ASSUME NEW c \in Clients, answered[c] # None
                   PROVE  /\ answered[c] \in {Deserves(request[c], sent[c]), 400}
                          /\ conn[c] # "reset" /\ ClearOfLimits(request[c], sent[c]) =>
                               answered[c] = Deserves(request[c], sent[c])
      BY DEF AnswerIsDeserved
    <2>2. sent[c] \in Nat
      BY <1>1 DEF IInv, TypeInv
    <2>3. AnswerHolds(c, sent[c])
      BY <1>1, <2>1, <2>2 DEF IInv, AnsweredInv, AnswerHolds
    <2>4. sent[c] >= sent[c]
      BY <2>2
    <2>5. QED
      BY <2>3, <2>4 DEF AnswerHolds
  <1>2. QED
    BY <1>1, HttpInvariant, PTL

LEMMA FrontOfAppend ==
  ASSUME NEW S, NEW s \in Seq(S), NEW e \in S
  PROVE  Front(Append(s, e)) = s
  <1>1. /\ Append(s, e) \in Seq(S) /\ Len(Append(s, e)) = Len(s) + 1
        /\ \A i \in 1 .. Len(s) : Append(s, e)[i] = s[i]
    BY AppendProperties
  <1>2. Front(Append(s, e)) = SubSeq(Append(s, e), 1, Len(s))
    BY <1>1 DEF Front
  <1>3. QED
    BY <1>1, <1>2

\* A payload acknowledged with 200 was submitted to the ingress, once and in the
\* order of the connections, unless it is the one in hand or the one whose
\* submission threw (lines 275-288).
THEOREM AcknowledgedSubmitted == Spec => []AcknowledgedIsSubmitted
  <1>1. ASSUME IInv PROVE AcknowledgedIsSubmitted
    <2>1. TypeInv /\ OrderInv /\ OwedInv
      BY <1>1 DEF IInv
    <2>2. submitted = IF pc \in {"submit", "thrown"} THEN Front(acknowledged) ELSE acknowledged
      <3>1. CASE pc \in {"submit", "thrown"}
        <4>1. client \in Clients /\ submitted \in Seq(Clients)
          BY <2>1, <3>1 DEF OrderInv, TypeInv
        <4>2. acknowledged = Append(submitted, client)
          BY <2>1, <3>1 DEF OwedInv
        <4>3. QED
          BY <3>1, <4>1, <4>2, FrontOfAppend
      <3>2. CASE pc \notin {"submit", "thrown"}
        BY <2>1, <3>2 DEF OwedInv
      <3>3. QED
        BY <3>1, <3>2
    <2>3. \A i \in 2 .. Len(acknowledged) : acknowledged[i - 1] < acknowledged[i]
      <3>1. Len(acknowledged) \in Nat
        BY <2>1 DEF TypeInv
      <3>2. \A i \in 2 .. Len(acknowledged) :
              i \in 1 .. Len(acknowledged) /\ i - 1 \in 1 .. Len(acknowledged) /\ i - 1 < i
        BY <3>1
      <3>3. QED
        BY <2>1, <3>2 DEF OwedInv
    <2>4. \A c \in Clients : heard[c] = 200 => c \in Range(acknowledged)
      <3>1. DOMAIN acknowledged = 1 .. Len(acknowledged)
        BY <2>1 DEF TypeInv
      <3>2. QED
        BY <2>1, <3>1 DEF OwedInv, Range
    <2>5. QED
      BY <2>2, <2>3, <2>4 DEF AcknowledgedIsSubmitted
  <1>2. QED
    BY <1>1, HttpInvariant, PTL

\* What is kept of a request while more of it is received is bounded by the two
\* limits, however much its client sends (lines 133 and 162).
THEOREM BufferBounded == Spec => []BufferIsBounded
  <1>1. ASSUME IInv PROVE BufferIsBounded
    <2>1. buffer \in Nat /\ MaxHeader \in Nat /\ MaxBody \in Nat
      BY <1>1, HttpAssumption DEF IInv, TypeInv, HttpAssumption
    <2>2. CASE pc = "header"
      BY <1>1, <2>1, <2>2 DEF BufferIsBounded, IInv, ReceivingInv
    <2>3. CASE pc = "body"
      <3>1. /\ request[client] \in Requests /\ request[client].head <= MaxHeader
            /\ HeadersUsable(request[client]) /\ ~BodyComplete(request[client], buffer)
        BY <1>1, <2>3 DEF IInv, ReceivingInv, OrderInv
      <3>2. request[client].head \in Nat
        BY <3>1, HttpAssumption DEF HttpAssumption
      <3>3. /\ ParseContentLength(request[client].lengths) \in Nat
            /\ ParseContentLength(request[client].lengths) <= MaxBody
        BY <3>1, HttpAssumption DEF HttpAssumption, HeadersUsable
      <3>4. buffer - request[client].head < ParseContentLength(request[client].lengths)
        BY <2>1, <3>1, <3>2, <3>3 DEF BodyComplete
      <3>5. QED
        BY <2>1, <3>1, <3>2, <3>3, <3>4 DEF BufferIsBounded
    <2>4. QED
      BY <2>2, <2>3 DEF BufferIsBounded
  <1>2. QED
    BY <1>1, HttpInvariant, PTL

\* The phases of the loop.
LEMMA Phases ==
  /\ pc \in {"loop", "select"} => Phase = "polling"
  /\ pc \in {"header", "body", "answer"} => Phase = "receiving"
  /\ pc = "submit" => Phase = "submitting"
  /\ pc \in {"closed", "thrown"} => Phase = "left"
  /\ pc = "killed" => Phase = "killed"
  BY DEF Phase

LEMMA NextPhases ==
  /\ pc' \in {"loop", "select"} => Phase' = "polling"
  /\ pc' \in {"header", "body", "answer"} => Phase' = "receiving"
  /\ pc' = "submit" => Phase' = "submitting"
  /\ pc' \in {"closed", "thrown"} => Phase' = "left"
  /\ pc' = "killed" => Phase' = "killed"
  /\ pc' = pc => Phase' = Phase
  BY DEF Phase

LEMMA ListenerStep ==
  ASSUME HttpAssumption, IInv, [Next]_vars
  PROVE  [Listener!Next]_<<Phase, stop>>
  <1> USE Phases, NextPhases DEF vars, serverVars, clientVars, historyVars
  <1>1. CASE RequestStop
    BY <1>1 DEF RequestStop, Listener!Next, Listener!RequestStop
  <1>2. CASE \/ \E c \in Clients, r \in Requests : Connect(c, r)
             \/ \E c \in Clients : Send(c)
             \/ \E c \in Clients, how \in {"closed", "reset"} : GiveUp(c, how)
    <2>1. UNCHANGED <<pc, stop>>
      BY <1>2 DEF Connect, Send, GiveUp
    <2>2. QED
      BY <2>1
  <1>3. CASE CheckStop \/ SelectTimesOut \/ SelectInterrupted \/ AcceptFails
    <2>1. /\ pc \in {"loop", "select"} /\ stop' = stop
          /\ pc' \in {"loop", "select"} \/ (stop /\ pc' = "closed")
      BY <1>3 DEF CheckStop, SelectTimesOut, SelectInterrupted, AcceptFails
    <2>2. QED
      BY <2>1 DEF Listener!Next, Listener!Leave, Listener!Becomes
  <1>4. CASE Accept
    BY <1>4 DEF Accept, Listener!Next, Listener!Accept, Listener!Becomes
  <1>5. CASE ReceiveHeader \/ ReceiveBody \/ ReceiveFails
    <2>1. pc \in {"header", "body"} /\ stop' = stop
      BY <1>5 DEF ReceiveHeader, ReceiveBody, ReceiveFails
    <2>2. pc' \in {"header", "body", "answer"}
      BY <1>5, HeaderOutcome, BodyOutcome, FailureOutcome DEF Answer
    <2>3. QED
      BY <2>1, <2>2
  <1>6. CASE SendAnswer
    <2>1. pc = "answer" /\ stop' = stop /\ pc' \in {"submit", "loop"}
      BY <1>6 DEF SendAnswer
    <2>2. QED
      BY <2>1 DEF Listener!Next, Listener!Refuse, Listener!Acknowledge, Listener!Becomes
  <1>7. CASE SendKills
    BY <1>7 DEF SendKills, Listener!Next, Listener!Killed
  <1>8. CASE Submit
    BY <1>8 DEF Submit, Listener!Next, Listener!Submit, Listener!Becomes
  <1>9. CASE SubmitThrows
    BY <1>9 DEF SubmitThrows, Listener!Next, Listener!SubmitThrows, Listener!Becomes
  <1>10. CASE UNCHANGED vars
    BY <1>10
  <1>11. QED
    BY <1>1, <1>2, <1>3, <1>4, <1>5, <1>6, <1>7, <1>8, <1>9, <1>10 DEF Next, Serve

\* The server does what the recording process relies on: an acknowledged request
\* is submitted before anything else, and the loop is left only on request,
\* between two connections, or when a submission throws.
THEOREM ServerIsListener == Spec => IsListener
  <1>1. Init => Listener!Init
    BY Phases DEF Init, Listener!Init
  <1>2. IInv /\ [Next]_vars => [Listener!Next]_<<Phase, stop>>
    BY HttpAssumption, ListenerStep
  <1>3. QED
    BY <1>1, <1>2, HttpInvariant, PTL DEF Spec, IsListener, Listener!Spec

=============================================================================
