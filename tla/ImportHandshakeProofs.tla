------------------------ MODULE ImportHandshakeProofs ------------------------
(***************************************************************************)
(* Proofs about ImportHandshake for every number of attempts, every size   *)
(* of the busid field and every set of busids.                             *)
(***************************************************************************)
EXTENDS ImportHandshake, TLAPS

-----------------------------------------------------------------------------
(* What survives the busid field *)

\* A busid as short as the field comes back whole; a longer one is cut.
LEMMA NameLengthIs ==
  ASSUME NEW s \in Busids
  PROVE  NameLength(RequestField(s)) = IF Len(s) < WireBytes THEN Len(s) ELSE WireBytes
<1> DEFINE f == RequestField(s)
           k == IF Len(s) < WireBytes THEN Len(s) ELSE WireBytes
           Fits(n) == (\A i \in (n + 1) .. WireBytes : f[i] = Zero) /\ (n > 0 => f[n] # Zero)
<1>1. s \in Seq(Bytes) /\ Len(s) \in Nat /\ WireBytes \in Nat
  BY BusidsAssumption, WireBytesAssumption
<1>2. \A i \in 1 .. Len(s) : s[i] \in Bytes /\ s[i] # Zero
  BY <1>1 DEF Bytes, Ascii, Lead, Tail2, Zero
<1>3. \A i \in 1 .. WireBytes : f[i] = IF i \in 1 .. Len(s) THEN s[i] ELSE Zero
  BY <1>1 DEF RequestField
<1> HIDE DEF f
<1>4. k \in 0 .. WireBytes /\ Fits(k)
  BY <1>1, <1>2, <1>3
<1>5. ASSUME NEW n \in 0 .. WireBytes, Fits(n)
      PROVE  n = k
  BY <1>1, <1>4, <1>5
<1>6. NameLength(f) = CHOOSE n \in 0 .. WireBytes : Fits(n)
  BY DEF NameLength
<1> HIDE DEF Fits, k
<1>7. (CHOOSE n \in 0 .. WireBytes : Fits(n)) = k
  BY <1>4, <1>5
<1> QED BY <1>6, <1>7 DEF f, k

\* What accept_device hands on is a prefix of what was asked for, in whole
\* characters, and all of it if it fits.
LEMMA FieldNameProperties ==
  ASSUME NEW s \in Busids, FieldAccepted(RequestField(s))
  PROVE  /\ IsUtf8(FieldName(RequestField(s)))
         /\ \A i \in DOMAIN FieldName(RequestField(s)) : FieldName(RequestField(s))[i] = s[i]
         /\ Len(s) <= WireBytes => FieldName(RequestField(s)) = s
<1> DEFINE f == RequestField(s)
           k == IF Len(s) < WireBytes THEN Len(s) ELSE WireBytes
           name == [i \in 1 .. k |-> f[i]]
<1>1. s \in Seq(Bytes) /\ Len(s) \in Nat /\ WireBytes \in Nat
  BY BusidsAssumption, WireBytesAssumption
<1>2. FieldName(f) = name
  BY NameLengthIs DEF FieldName
<1>3. /\ DOMAIN f = 1 .. WireBytes
      /\ \A i \in 1 .. WireBytes : f[i] = IF i \in 1 .. Len(s) THEN s[i] ELSE Zero
  BY <1>1 DEF RequestField
<1>4. IsUtf8(f)
  BY DEF FieldAccepted
<1> HIDE DEF f
<1>5. k \in Nat /\ k <= WireBytes /\ DOMAIN name = 1 .. k
  BY <1>1
<1>6. \A i \in 1 .. k : name[i] = f[i] /\ name[i] = s[i]
  BY <1>1, <1>3
<1>7. \A i \in 1 .. WireBytes : i > k => f[i] = Zero
  BY <1>1, <1>3
<1>8. Len(s) <= WireBytes => name = s
  <2>1. s = [i \in 1 .. Len(s) |-> s[i]]
    BY <1>1
  <2> SUFFICES ASSUME Len(s) <= WireBytes PROVE name = s
    OBVIOUS
  <2>2. k = Len(s)
    BY <1>1
  <2> QED BY <2>1, <2>2, <1>6
<1>9. IsUtf8(name)
  <2>1. ASSUME NEW i \in 1 .. k
        PROVE  /\ name[i] = Lead => i + 1 \in 1 .. k /\ name[i + 1] = Tail2
               /\ name[i] = Tail2 => i > 1 /\ name[i - 1] = Lead
    <3> HIDE DEF k, name
    <3>0. i \in 1 .. WireBytes
      BY <1>1, <1>5
    <3>1. /\ f[i] = Lead => i + 1 \in 1 .. WireBytes /\ f[i + 1] = Tail2
          /\ f[i] = Tail2 => i > 1 /\ f[i - 1] = Lead
      BY <1>3, <1>4, <3>0 DEF IsUtf8
    <3>2. f[i] = Lead => i + 1 \in 1 .. k
      BY <1>5, <1>7, <3>1 DEF Tail2, Zero
    <3> QED BY <1>5, <1>6, <3>1, <3>2
  <2> QED BY <1>5, <2>1 DEF IsUtf8
<1> HIDE DEF k, name
<1>10. /\ IsUtf8(FieldName(f))
       /\ \A i \in DOMAIN FieldName(f) : FieldName(f)[i] = s[i]
       /\ Len(s) <= WireBytes => FieldName(f) = s
  BY <1>2, <1>5, <1>6, <1>8, <1>9
<1> QED BY <1>10 DEF f

-----------------------------------------------------------------------------
(* The inductive invariant *)

Retried == {"failed", "elapsed"}
Attempting == {"connecting", "sending", "receiving"}

\* Attempts are made in order: nothing has happened on the connections to
\* come, and every attempt behind the current one ended in a way that is
\* retried.
AttemptsInOrder ==
  /\ client \in Attempting => attempt \in Connections
  /\ client = "between" /\ attempt > 0 => fate[attempt] \in Retried
  /\ \A c \in Connections :
       /\ c < attempt => fate[c] \in Retried
       /\ c > attempt \/ (c = attempt /\ client = "connecting") => clientEnd[c] = "unused"

\* A stream is held exactly by an attempt that uses it or by a successful
\* return.
StreamHeld ==
  /\ client \in {"sending", "receiving"} => clientEnd[attempt] = "open"
  /\ client # "returned" => outcome = "none"

\* Whoever was accepted was named, and only accepted requests on connections
\* that were made are answered.
AnsweredIsNamed ==
  \A c \in Connections :
    /\ serverEnd[c] \in {"accepted", "replied"} \/ reply[c] # NoReply =>
         named[c] = FieldName(RequestField(busid)) /\ FieldAccepted(RequestField(busid))
    /\ serverEnd[c] \in {"unused", "backlog", "reading", "accepted"} => reply[c] = NoReply
    /\ clientEnd[c] = "unused" => serverEnd[c] = "unused"

\* Why each result was returned.
OutcomeJustified ==
  /\ outcome = "Ok" =>
       /\ attempt \in Connections
       /\ clientEnd[attempt] = "open"
       /\ reply[attempt] # NoReply
       /\ Accepts(reply[attempt])
  /\ outcome = "MaxRetriesExceeded" =>
       attempt = MaxRetries /\ \A c \in Connections : fate[c] \in Retried
  /\ outcome = "ServerRejected" =>
       /\ attempt \in Connections
       /\ reply[attempt] # NoReply
       /\ fate[attempt] = "refused" /\ reply[attempt].status # 0

IInv ==
  /\ TypeOK
  /\ AttemptsInOrder
  /\ StreamHeld
  /\ OneConnection
  /\ AnsweredIsNamed
  /\ OutcomeJustified

LEMMA InitIInv == Init => IInv
BY MaxRetriesAssumption
DEF Init, IInv, TypeOK, AttemptsInOrder, StreamHeld, OneConnection, AnsweredIsNamed,
    OutcomeJustified, Attempting, Connections, NoName

\* An attempt that ends without a result gives up its stream.
LEMMA AttemptFailsIInv ==
  ASSUME IInv, client \in Attempting, NEW how \in Retried, AttemptFails(how)
  PROVE  IInv'
<1>1. attempt \in Connections /\ attempt \in Nat /\ outcome = "none"
  BY DEF IInv, TypeOK, AttemptsInOrder, StreamHeld, Attempting, Connections
<1>2. /\ client' = "between"
      /\ fate' = [fate EXCEPT ![attempt] = how]
      /\ clientEnd' = [clientEnd EXCEPT ![attempt] = IF @ = "open" THEN "closed" ELSE @]
      /\ UNCHANGED <<busid, attempt, outcome, requested, reply, serverEnd, named, listening>>
  BY DEF AttemptFails, serverVars
<1>3. TypeOK'
  BY <1>1, <1>2 DEF IInv, TypeOK, Retried
<1>4. AttemptsInOrder'
  BY <1>1, <1>2 DEF IInv, TypeOK, AttemptsInOrder, Attempting, Connections
<1>5. StreamHeld' /\ OneConnection'
  BY <1>1, <1>2 DEF IInv, TypeOK, StreamHeld, OneConnection
<1>6. AnsweredIsNamed' /\ OutcomeJustified'
  BY <1>1, <1>2 DEF IInv, AnsweredIsNamed, OutcomeJustified
<1> QED BY <1>3, <1>4, <1>5, <1>6 DEF IInv

LEMMA ClientStepIInv ==
  ASSUME IInv, ClientStep
  PROVE  IInv'
<1> USE DEF IInv, Attempting
<1>0. attempt \in Nat /\ MaxRetries \in Nat
  BY MaxRetriesAssumption DEF TypeOK
<1>1. CASE RefuseEmptyBusid
  BY <1>0, <1>1 DEF RefuseEmptyBusid, Return, wire, serverVars, TypeOK, AttemptsInOrder, StreamHeld,
                    OneConnection, AnsweredIsNamed, OutcomeJustified, Connections
<1>2. CASE StartAttempt
  BY <1>0, <1>2 DEF StartAttempt, wire, serverVars, TypeOK, AttemptsInOrder, StreamHeld,
                    OneConnection, AnsweredIsNamed, OutcomeJustified, Connections
<1>3. CASE ExhaustRetries
  BY <1>0, <1>3 DEF ExhaustRetries, Return, wire, serverVars, TypeOK, AttemptsInOrder, StreamHeld,
                    OneConnection, AnsweredIsNamed, OutcomeJustified, Connections
<1>4. CASE Connect
  BY <1>0, <1>4 DEF Connect, TypeOK, AttemptsInOrder, StreamHeld,
                    OneConnection, AnsweredIsNamed, OutcomeJustified, Connections
<1>5. CASE SendRequest
  BY <1>0, <1>5 DEF SendRequest, serverVars, TypeOK, AttemptsInOrder, StreamHeld,
                    OneConnection, AnsweredIsNamed, OutcomeJustified, Connections
<1>6. CASE ReceiveAcceptance
  BY <1>0, <1>6 DEF ReceiveAcceptance, Return, wire, serverVars, TypeOK, AttemptsInOrder,
                    StreamHeld, OneConnection, AnsweredIsNamed, OutcomeJustified, Connections
<1>7. CASE ReceiveRefusal
  BY <1>0, <1>7 DEF ReceiveRefusal, Return, serverVars, TypeOK, AttemptsInOrder, StreamHeld,
                    OneConnection, AnsweredIsNamed, OutcomeJustified, Connections
<1>8. CASE ConnectFails \/ SendFails \/ ReceiveEof \/ Elapse
  BY <1>8, AttemptFailsIInv DEF ConnectFails, SendFails, ReceiveEof, Elapse, Retried
<1> QED BY <1>1, <1>2, <1>3, <1>4, <1>5, <1>6, <1>7, <1>8 DEF ClientStep

LEMMA ServerStepIInv ==
  ASSUME IInv, (\E c \in Connections : ServerStep(c)) \/ Crash \/ Restart
  PROVE  IInv'
<1> USE DEF IInv
<1>1. UNCHANGED <<clientVars, clientEnd, requested>>
  BY DEF ServerStep, Accept, ReadRequest, RefuseRequest, ReadEof, Answer, Hangup, Crash, Restart,
         wire
<1>2. /\ TypeOK' /\ AnsweredIsNamed'
      /\ \A c \in Connections : reply[c] # NoReply => reply'[c] = reply[c]
  <2>1. CASE Crash \/ Restart
    BY <1>1, <2>1 DEF Crash, Restart, clientVars, wire, TypeOK, AnsweredIsNamed
  <2>2. ASSUME NEW c \in Connections, ServerStep(c)
        PROVE  /\ TypeOK' /\ AnsweredIsNamed'
               /\ \A d \in Connections : reply[d] # NoReply => reply'[d] = reply[d]
    <3>1. CASE Accept(c) \/ RefuseRequest(c) \/ ReadEof(c) \/ Hangup(c)
      BY <1>1, <3>1 DEF Accept, RefuseRequest, ReadEof, Hangup, clientVars, wire, TypeOK,
                        AnsweredIsNamed
    <3>2. CASE ReadRequest(c)
      BY <1>1, <3>2 DEF ReadRequest, clientVars, wire, TypeOK, AnsweredIsNamed
    <3>3. CASE \E rep \in Replies : Answer(c, rep)
      BY <1>1, <3>3 DEF Answer, clientVars, TypeOK, AnsweredIsNamed
    <3> QED BY <2>2, <3>1, <3>2, <3>3 DEF ServerStep
  <2> QED BY <2>1, <2>2
<1> QED BY <1>1, <1>2
        DEF clientVars, AttemptsInOrder, StreamHeld, OneConnection, OutcomeJustified

LEMMA NextIInv == ASSUME IInv, [Next]_vars PROVE IInv'
<1>1. CASE UNCHANGED vars
  BY <1>1 DEF vars, clientVars, wire, serverVars, IInv, TypeOK, AttemptsInOrder, StreamHeld,
              OneConnection, AnsweredIsNamed, OutcomeJustified
<1> QED BY <1>1, ClientStepIInv, ServerStepIInv DEF Next

LEMMA SpecIInv == Spec => []IInv
<1>1. Init => IInv
  BY InitIInv
<1>2. IInv /\ [Next]_vars => IInv'
  BY NextIInv
<1> QED BY <1>1, <1>2, PTL DEF Spec

-----------------------------------------------------------------------------
(* The theorems *)

\* The variables of the handshake keep their types; in particular no attempt
\* beyond MAX_RETRIES is made.
THEOREM TypeCorrect == Spec => []TypeOK
<1>1. IInv => TypeOK
  BY DEF IInv
<1> QED BY <1>1, SpecIInv, PTL

\* import_device never holds two streams, and none after an error.
THEOREM AlwaysOneConnection == Spec => []OneConnection
<1>1. IInv => OneConnection
  BY DEF IInv
<1> QED BY <1>1, SpecIInv, PTL

\* Ok means that the server accepted this very attempt, for the busid asked
\* for as far as the 32-byte field holds it, whatever the sizes.
THEOREM ImportAlwaysAgreed == Spec => []ImportAgreed
<1>1. IInv => ImportAgreed
  <2> SUFFICES ASSUME IInv, outcome = "Ok" PROVE ImportAgreed
    BY DEF ImportAgreed
  <2>1. /\ busid \in Busids
        /\ clientEnd[attempt] = "open"
        /\ Accepts(reply[attempt])
        /\ named[attempt] = FieldName(RequestField(busid))
        /\ FieldAccepted(RequestField(busid))
    BY DEF IInv, TypeOK, AnsweredIsNamed, OutcomeJustified
  <2> QED BY <2>1, FieldNameProperties DEF ImportAgreed
<1> QED BY <1>1, SpecIInv, PTL

\* A refusal is never retried, and giving up takes every attempt
\* (import_device's match on the result of an attempt).
THEOREM RefusalAlwaysFinal == Spec => []RefusalIsFinal
<1>1. IInv => RefusalIsFinal
  BY DEF IInv, AttemptsInOrder, OutcomeJustified, RefusalIsFinal, Retried
<1> QED BY <1>1, SpecIInv, PTL

-----------------------------------------------------------------------------
(* Progress, from the fairness and from what each side waits for *)

\* Past sending, the request of the current attempt is on the wire.
RequestSent == client = "receiving" \/ outcome = "Ok" => requested[attempt]

LEMMA AlwaysRequestSent == Spec => []RequestSent
<1>1. Init => RequestSent
  BY DEF Init, RequestSent
<1>2. IInv /\ RequestSent /\ [Next]_vars => RequestSent'
  <2> SUFFICES ASSUME IInv, RequestSent, [Next]_vars PROVE RequestSent'
    OBVIOUS
  <2>1. CASE ClientStep
    <3>1. client \in Attempting => attempt \in Connections
      BY DEF IInv, AttemptsInOrder
    <3>2. client # "returned" => outcome = "none"
      BY DEF IInv, StreamHeld
    <3>3. CASE RefuseEmptyBusid \/ StartAttempt \/ ExhaustRetries \/ Connect
      BY <3>2, <3>3 DEF RefuseEmptyBusid, StartAttempt, ExhaustRetries, Connect, Return, RequestSent
    <3>4. CASE SendRequest
      BY <3>1, <3>2, <3>4 DEF SendRequest, RequestSent, IInv, TypeOK, Attempting
    <3>5. CASE ReceiveAcceptance \/ ReceiveRefusal
      BY <3>2, <3>5 DEF ReceiveAcceptance, ReceiveRefusal, Return, RequestSent, wire
    <3>6. CASE ConnectFails \/ SendFails \/ ReceiveEof \/ Elapse
      BY <3>2, <3>6 DEF ConnectFails, SendFails, ReceiveEof, Elapse, AttemptFails, RequestSent
    <3> QED BY <2>1, <3>3, <3>4, <3>5, <3>6 DEF ClientStep
  <2>2. CASE (\E c \in Connections : ServerStep(c)) \/ Crash \/ Restart \/ UNCHANGED vars
    BY <2>2 DEF ServerStep, Accept, ReadRequest, RefuseRequest, ReadEof, Answer, Hangup, Crash,
      Restart, clientVars, wire, vars, RequestSent
  <2> QED BY <2>1, <2>2 DEF Next
<1> QED BY <1>1, <1>2, SpecIInv, PTL DEF Spec

\* A connection being read, with no request yet and the client's end open, is
\* the one on which the client is about to send.
LEMMA ReadingIsAwaited ==
  ASSUME NEW c \in Connections, IInv, RequestSent,
         serverEnd[c] = "reading", ~requested[c], clientEnd[c] # "closed"
  PROVE  client = "sending" /\ attempt = c
BY DEF IInv, TypeOK, OneConnection, AnsweredIsNamed, RequestSent

\* What a step does to a connection the server reads.
LEMMA ReadingStep ==
  ASSUME NEW c \in Connections, IInv, RequestSent, [Next]_vars, serverEnd[c] = "reading"
  PROVE  /\ requested[c] => requested'[c]
         /\ clientEnd[c] = "closed" => clientEnd'[c] = "closed"
         /\ <<ClientStep>>_vars => requested'[c] \/ clientEnd'[c] = "closed"
<1>1. CASE ClientStep
  <2>1. client \in Attempting => attempt \in Connections
    BY DEF IInv, AttemptsInOrder
  <2>2. \A d \in Connections : d > attempt \/ (d = attempt /\ client = "connecting")
                                 => clientEnd[d] = "unused"
    BY DEF IInv, AttemptsInOrder
  <2>3. clientEnd[c] = "unused" => serverEnd[c] = "unused"
    BY DEF IInv, AnsweredIsNamed
  <2>4. requested[c] \/ clientEnd[c] = "closed" \/ (client = "sending" /\ attempt = c)
    BY ReadingIsAwaited
  <2>5. CASE RefuseEmptyBusid \/ StartAttempt \/ ExhaustRetries
    BY <2>4, <2>5 DEF RefuseEmptyBusid, StartAttempt, ExhaustRetries, wire
  <2>6. CASE Connect
    BY <2>1, <2>2, <2>3, <2>4, <2>6 DEF Connect, Attempting, IInv, TypeOK
  <2>7. CASE SendRequest
    BY <2>1, <2>4, <2>7 DEF SendRequest, Attempting, IInv, TypeOK
  <2>8. CASE ReceiveAcceptance \/ ReceiveRefusal
    BY <2>1, <2>4, <2>8 DEF ReceiveAcceptance, ReceiveRefusal, wire, Attempting, IInv, TypeOK
  <2>9. CASE ConnectFails \/ SendFails \/ ReceiveEof \/ Elapse
    <3>1. clientEnd' = [clientEnd EXCEPT ![attempt] = IF @ = "open" THEN "closed" ELSE @]
          /\ UNCHANGED requested
      BY <2>9 DEF ConnectFails, SendFails, ReceiveEof, Elapse, AttemptFails
    <3>2. clientEnd \in [Connections -> {"unused", "open", "closed"}]
      BY DEF IInv, TypeOK
    <3> QED BY <2>3, <2>4, <3>1, <3>2
  <2> QED BY <1>1, <2>5, <2>6, <2>7, <2>8, <2>9 DEF ClientStep
<1>2. CASE ~ClientStep
  BY <1>2 DEF Next, ServerStep, Accept, ReadRequest, RefuseRequest, ReadEof, Answer, Hangup, Crash,
    Restart, clientVars, wire, vars
<1> QED BY <1>1, <1>2

\* accept_device reads without a timeout, and still no connection holds up the
\* accept loop: the client sends its request or its own timeout closes the
\* stream, whatever the number of attempts.
THEOREM AcceptLoopAlwaysGoesOn == FairSpec /\ []NothingElseAwaited => AcceptLoopGoesOn
<1> SUFFICES ASSUME NEW c \in Connections
             PROVE  FairSpec /\ []NothingElseAwaited
                      => (serverEnd[c] = "reading" ~> serverEnd[c] # "reading")
  BY DEF AcceptLoopGoesOn
<1>1. IInv /\ RequestSent /\ serverEnd[c] = "reading"
        => requested[c] \/ clientEnd[c] = "closed" \/ client = "sending"
  BY ReadingIsAwaited
<1>2. IInv /\ RequestSent /\ [Next]_vars /\ serverEnd[c] = "reading" =>
        /\ requested[c] => (requested[c])'
        /\ clientEnd[c] = "closed" => (clientEnd[c] = "closed")'
        /\ <<ClientStep>>_vars => (requested[c])' \/ (clientEnd[c] = "closed")'
  BY ReadingStep
<1>3. IInv /\ <<ReadRequest(c) \/ RefuseRequest(c) \/ ReadEof(c)>>_vars
        => (~(serverEnd[c] = "reading"))'
  BY DEF ReadRequest, RefuseRequest, ReadEof, IInv, TypeOK
<1>4. client = "sending" => client # "returned"
  OBVIOUS
<1>5. NothingElseAwaited =>
        /\ client # "returned" => ENABLED <<ClientStep>>_vars
        /\ serverEnd[c] = "reading" /\ (requested[c] \/ clientEnd[c] = "closed")
             => ENABLED <<ReadRequest(c) \/ RefuseRequest(c) \/ ReadEof(c)>>_vars
  BY DEF NothingElseAwaited
<1>6. ServersFair => ServerFairness(c)
  BY DEF ServersFair
<1>7. serverEnd[c] # "reading" <=> ~(serverEnd[c] = "reading")
  OBVIOUS
<1> QED
  BY <1>1, <1>2, <1>3, <1>4, <1>5, <1>6, <1>7, SpecIInv, AlwaysRequestSent, PTL
  DEF FairSpec, Spec, Fairness, ServerFairness

\* What a step does to the attempt the client is in.
LEMMA AttemptStep ==
  ASSUME IInv, [Next]_vars, client # "returned"
  PROVE  \/ client' = "returned"
         \/ attempt' = attempt + 1
         \/ attempt' = attempt /\ client' = client /\ ~<<ClientStep>>_vars
         \/ /\ attempt' = attempt
            /\ \/ client = "connecting" /\ client' \in {"sending", "between"}
               \/ client = "sending" /\ client' \in {"receiving", "between"}
               \/ client = "receiving" /\ client' = "between"
<1>1. CASE RefuseEmptyBusid \/ StartAttempt \/ ExhaustRetries
  BY <1>1 DEF RefuseEmptyBusid, StartAttempt, ExhaustRetries, Return
<1>2. CASE Connect \/ SendRequest
  BY <1>2 DEF Connect, SendRequest
<1>3. CASE ReceiveAcceptance \/ ReceiveRefusal
  BY <1>3 DEF ReceiveAcceptance, ReceiveRefusal, Return
<1>4. CASE ConnectFails \/ SendFails \/ ReceiveEof \/ Elapse
  BY <1>4 DEF ConnectFails, SendFails, ReceiveEof, Elapse, AttemptFails
<1>5. CASE ~ClientStep
  BY <1>5 DEF Next, ServerStep, Accept, ReadRequest, RefuseRequest, ReadEof, Answer, Hangup, Crash,
    Restart, clientVars, wire, vars
<1> QED BY <1>1, <1>2, <1>3, <1>4, <1>5 DEF ClientStep

\* The n-th attempt ends, with a result or with the next attempt.
AttemptEnds(n) == attempt = n /\ client # "returned" ~> client = "returned" \/ attempt = n + 1

\* Every attempt ends, whatever the server does: import_device stays in none
\* of them.
THEOREM EveryAttemptEnds ==
  ASSUME NEW n \in 0 .. MaxRetries
  PROVE  FairSpec /\ []NothingElseAwaited => AttemptEnds(n)
<1>1. IInv /\ [Next]_vars /\ attempt = n /\ client # "returned" =>
        \/ (client = "returned")'
        \/ (attempt = n + 1)'
        \/ /\ (attempt = n)'
           /\ ~<<ClientStep>>_vars
           /\ client = "connecting" <=> (client = "connecting")'
           /\ client = "sending" <=> (client = "sending")'
           /\ client = "receiving" <=> (client = "receiving")'
           /\ client = "between" <=> (client = "between")'
        \/ /\ (attempt = n)'
           /\ \/ client = "connecting" /\ ((client = "sending")' \/ (client = "between")')
              \/ client = "sending" /\ ((client = "receiving")' \/ (client = "between")')
              \/ client = "receiving" /\ (client = "between")'
  BY AttemptStep
<1>2. /\ client = "connecting" => ~(client = "sending") /\ ~(client = "receiving") /\ ~(client = "between")
      /\ client = "sending" => ~(client = "receiving") /\ ~(client = "between")
      /\ client = "receiving" => ~(client = "between")
      /\ client # "returned" <=> ~(client = "returned")
  OBVIOUS
<1>3. NothingElseAwaited => (client # "returned" => ENABLED <<ClientStep>>_vars)
  BY DEF NothingElseAwaited
<1> QED
  BY <1>1, <1>2, <1>3, SpecIInv, PTL DEF FairSpec, Spec, Fairness, AttemptEnds

\* With the three attempts of the code (MAX_RETRIES), import_device returns,
\* whatever the server does, for every busid and every size of its field.
THEOREM ImportAlwaysReturns ==
  ASSUME MaxRetries = 3
  PROVE  FairSpec /\ []NothingElseAwaited => ImportReturns
<1>1. /\ 0 \in 0 .. MaxRetries /\ 1 \in 0 .. MaxRetries
      /\ 2 \in 0 .. MaxRetries /\ 3 \in 0 .. MaxRetries
  OBVIOUS
<1>2. /\ FairSpec /\ []NothingElseAwaited => AttemptEnds(0)
      /\ FairSpec /\ []NothingElseAwaited => AttemptEnds(1)
      /\ FairSpec /\ []NothingElseAwaited => AttemptEnds(2)
      /\ FairSpec /\ []NothingElseAwaited => AttemptEnds(3)
  BY <1>1, EveryAttemptEnds, Zenon
<1>3. /\ attempt = 0 + 1 => attempt = 1
      /\ attempt = 1 + 1 => attempt = 2
      /\ attempt = 2 + 1 => attempt = 3
  OBVIOUS
<1>4. Init => attempt = 0
  BY DEF Init
<1>5. TypeOK => ~(attempt = 3 + 1)
  BY DEF TypeOK
<1>6. client # "returned" <=> ~(client = "returned")
  OBVIOUS
<1> QED
  BY <1>2, <1>3, <1>4, <1>5, <1>6, TypeCorrect, PTL
  DEF FairSpec, Spec, ImportReturns, AttemptEnds
=============================================================================
