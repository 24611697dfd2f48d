--------------------------- MODULE ImportHandshake ---------------------------
(***************************************************************************)
(* One import_device() call (protocol/handshake.rs) against a server that  *)
(* accepts with accept_device() and answers with send_op_rep_import()      *)
(* (protocol/server.rs).                                                   *)
(*                                                                         *)
(* Every attempt of the client opens a connection of its own, named by the *)
(* number of the attempt, and runs under a timeout that drops it wherever  *)
(* it is.  The server's accept loop reads one connection at a time, with   *)
(* no timeout; what it answers, and when, is up to the program around it.  *)
(* The server may crash, which resets its connections, and come back.      *)
(***************************************************************************)
EXTENDS Naturals, Sequences

CONSTANTS MaxRetries,   \* MAX_RETRIES
          WireBytes,    \* size of the busid field of OP_REQ_IMPORT
          Busids        \* arguments of import_device: strings, as their bytes

ASSUME MaxRetriesAssumption == MaxRetries \in Nat
ASSUME WireBytesAssumption == WireBytes \in Nat \ {0}

\* The bytes a string is made of: an ASCII byte, or the two bytes of a wider
\* character.  No byte of a busid is zero.
Ascii == "ascii"
Lead == "lead"
Tail2 == "tail"
Zero == "zero"
Bytes == {Ascii, Lead, Tail2}

\* core::str::from_utf8 accepts the bytes.
IsUtf8(s) ==
  \A i \in DOMAIN s : /\ s[i] = Lead => i + 1 \in DOMAIN s /\ s[i + 1] = Tail2
                      /\ s[i] = Tail2 => i > 1 /\ s[i - 1] = Lead

ASSUME BusidsAssumption == \A s \in Busids : s \in Seq(Bytes) /\ IsUtf8(s)

Connections == 1 .. MaxRetries

\* OP_REP_IMPORT as far as the client looks at it.
Replies == [status : {0, 1}, busnum : {0, 1}, devnum : {0, 1}]
NoReply == [status |-> 2, busnum |-> 0, devnum |-> 0]
Accepts(rep) == rep.status = 0 /\ rep.busnum # 0 /\ rep.devnum # 0

VARIABLES
  busid,       \* the argument
  attempt,     \* number of the current attempt, 0 before the first
  client,      \* "between" attempts, "connecting", "sending", "receiving", "returned"
  outcome,     \* what import_device returned
  fate,        \* history: how each attempt ended
  clientEnd,   \* per connection: "unused", "open" or "closed"
  requested,   \* per connection: OP_REQ_IMPORT is on the wire
  reply,       \* per connection: the OP_REP_IMPORT on the wire
  serverEnd,   \* per connection: "unused", "backlog", "reading", "accepted",
               \* "replied" or "closed"
  named,       \* history: the busid the server read on each connection
  listening    \* the server is up

clientVars == <<busid, attempt, client, outcome, fate>>
wire == <<clientEnd, requested, reply>>
serverVars == <<serverEnd, named, listening>>
vars == <<clientVars, wire, serverVars>>

\* make_import_request: the field holds the first bytes, padded with zeros.
RequestField(s) == [i \in 1 .. WireBytes |-> IF i \in DOMAIN s THEN s[i] ELSE Zero]

\* accept_device: trailing zeros are trimmed.
NameLength(f) ==
  CHOOSE n \in 0 .. WireBytes :
    /\ \A i \in (n + 1) .. WireBytes : f[i] = Zero
    /\ n > 0 => f[n] # Zero
FieldName(f) == [i \in 1 .. NameLength(f) |-> f[i]]

\* accept_device: not empty, and valid UTF-8.
FieldAccepted(f) == FieldName(f) # <<>> /\ IsUtf8(f)

NoName == <<>>

Init ==
  /\ busid \in Busids
  /\ attempt = 0
  /\ client = "between"
  /\ outcome = "none"
  /\ fate = [c \in Connections |-> "none"]
  /\ clientEnd = [c \in Connections |-> "unused"]
  /\ requested = [c \in Connections |-> FALSE]
  /\ reply = [c \in Connections |-> NoReply]
  /\ serverEnd = [c \in Connections |-> "unused"]
  /\ named = [c \in Connections |-> NoName]
  /\ listening = TRUE

-----------------------------------------------------------------------------
(* The client *)

Return(result) ==
  /\ client' = "returned"
  /\ outcome' = result

\* An empty busid is refused before anything is sent.
RefuseEmptyBusid ==
  /\ client = "between" /\ attempt = 0
  /\ busid = <<>>
  /\ Return("InvalidReply")
  /\ UNCHANGED <<busid, attempt, fate, wire, serverVars>>

\* A plausible bug: `0..=MAX_RETRIES`.
StartAttemptOnceMore ==
  /\ client = "between"
  /\ busid # <<>>
  /\ attempt <= MaxRetries
  /\ attempt' = attempt + 1
  /\ client' = "connecting"
  /\ UNCHANGED <<busid, outcome, fate, wire, serverVars>>

\* A plausible bug: the loop never runs out of attempts.
StartAttemptForEver ==
  /\ client = "between"
  /\ busid # <<>>
  /\ attempt' = IF attempt < MaxRetries THEN attempt + 1 ELSE attempt
  /\ client' = "connecting"
  /\ UNCHANGED <<busid, outcome, fate, wire, serverVars>>

StartAttempt ==
  /\ client = "between"
  /\ busid # <<>>
  /\ attempt < MaxRetries
  /\ attempt' = attempt + 1
  /\ client' = "connecting"
  /\ UNCHANGED <<busid, outcome, fate, wire, serverVars>>

ExhaustRetries ==
  /\ client = "between"
  /\ busid # <<>>
  /\ attempt = MaxRetries
  /\ Return("MaxRetriesExceeded")
  /\ UNCHANGED <<busid, attempt, fate, wire, serverVars>>

\* The kernel completes the connection before the server calls accept().
Connect ==
  /\ client = "connecting"
  /\ listening
  /\ client' = "sending"
  /\ clientEnd' = [clientEnd EXCEPT ![attempt] = "open"]
  /\ serverEnd' = [serverEnd EXCEPT ![attempt] = "backlog"]
  /\ UNCHANGED <<busid, attempt, outcome, fate, requested, reply, named, listening>>

\* The attempt is over and its stream, if any, is dropped; the loop goes on.
\* A plausible bug: the stream of the attempt outlives it.
AttemptLeaks(how) ==
  /\ client' = "between"
  /\ fate' = [fate EXCEPT ![attempt] = how]
  /\ UNCHANGED <<busid, attempt, outcome, requested, reply, clientEnd, serverVars>>

AttemptFails(how) ==
  /\ client' = "between"
  /\ fate' = [fate EXCEPT ![attempt] = how]
  /\ clientEnd' = [clientEnd EXCEPT ![attempt] = IF @ = "open" THEN "closed" ELSE @]
  /\ UNCHANGED <<busid, attempt, outcome, requested, reply, serverVars>>

\* connect() is refused or fails on the way.
ConnectFails ==
  /\ client = "connecting"
  /\ AttemptFails("failed")

SendRequest ==
  /\ client = "sending"
  /\ client' = "receiving"
  /\ requested' = [requested EXCEPT ![attempt] = TRUE]
  /\ UNCHANGED <<busid, attempt, outcome, fate, clientEnd, reply, serverVars>>

\* write_all() finds the connection reset.
SendFails ==
  /\ client = "sending"
  /\ serverEnd[attempt] = "closed"
  /\ AttemptFails("failed")

\* Ok(stream, reply).
ReceiveAcceptance ==
  /\ client = "receiving"
  /\ reply[attempt] # NoReply
  /\ Accepts(reply[attempt])
  /\ fate' = [fate EXCEPT ![attempt] = "ok"]
  /\ Return("Ok")
  /\ UNCHANGED <<busid, attempt, wire, serverVars>>

\* The decoded reply is a refusal: a non-zero status, or zero ids.
\* A plausible bug: a refusal is retried like a failure.
RetryRefusal ==
  /\ client = "receiving"
  /\ reply[attempt] # NoReply
  /\ ~Accepts(reply[attempt])
  /\ AttemptFails("refused")

ReceiveRefusal ==
  /\ client = "receiving"
  /\ reply[attempt] # NoReply
  /\ ~Accepts(reply[attempt])
  /\ fate' = [fate EXCEPT ![attempt] = "refused"]
  /\ clientEnd' = [clientEnd EXCEPT ![attempt] = "closed"]
  /\ Return(IF reply[attempt].status # 0 THEN "ServerRejected" ELSE "InvalidReply")
  /\ UNCHANGED <<busid, attempt, requested, reply, serverVars>>

\* read_exact() finds the connection ended or reset before a whole reply; a
\* reset may also discard a reply that was on its way.
ReceiveEof ==
  /\ client = "receiving"
  /\ serverEnd[attempt] = "closed"
  /\ AttemptFails("failed")

\* HANDSHAKE_TIMEOUT elapses; the future is dropped at whatever await it is.
Elapse ==
  /\ client \in {"connecting", "sending", "receiving"}
  /\ AttemptFails("elapsed")

-----------------------------------------------------------------------------
(* The server: accept_device() in a loop, a handler per accepted connection *)

Idle == \A c \in Connections : serverEnd[c] # "reading"

\* accept(): connections come out of the backlog in the order they came in.
Accept(c) ==
  /\ listening /\ Idle
  /\ serverEnd[c] = "backlog"
  /\ \A d \in Connections : serverEnd[d] = "backlog" => c <= d
  /\ serverEnd' = [serverEnd EXCEPT ![c] = "reading"]
  /\ UNCHANGED <<clientVars, wire, named, listening>>

\* The whole request is there and names a device.
\* A plausible bug: the field is taken as it is, without the checks.
ReadRequestUnchecked(c) ==
  /\ serverEnd[c] = "reading"
  /\ requested[c]
  /\ named' = [named EXCEPT ![c] = FieldName(RequestField(busid))]
  /\ serverEnd' = [serverEnd EXCEPT ![c] = "accepted"]
  /\ UNCHANGED <<clientVars, wire, listening>>

ReadRequest(c) ==
  /\ serverEnd[c] = "reading"
  /\ requested[c]
  /\ FieldAccepted(RequestField(busid))
  /\ named' = [named EXCEPT ![c] = FieldName(RequestField(busid))]
  /\ serverEnd' = [serverEnd EXCEPT ![c] = "accepted"]
  /\ UNCHANGED <<clientVars, wire, listening>>

\* InvalidRequest: the stream is dropped, the client gets no reply.
RefuseRequest(c) ==
  /\ serverEnd[c] = "reading"
  /\ requested[c]
  /\ ~FieldAccepted(RequestField(busid))
  /\ serverEnd' = [serverEnd EXCEPT ![c] = "closed"]
  /\ UNCHANGED <<clientVars, wire, named, listening>>

\* read_exact() finds the end of the stream instead of a request.
\* A plausible bug: a read of no bytes is tried again.
ReadEofAgain(c) ==
  /\ serverEnd[c] = "reading"
  /\ ~requested[c]
  /\ clientEnd[c] = "closed"
  /\ UNCHANGED vars

ReadEof(c) ==
  /\ serverEnd[c] = "reading"
  /\ ~requested[c]
  /\ clientEnd[c] = "closed"
  /\ serverEnd' = [serverEnd EXCEPT ![c] = "closed"]
  /\ UNCHANGED <<clientVars, wire, named, listening>>

\* send_op_rep_import(), also on a connection the client has given up.
Answer(c, rep) ==
  /\ serverEnd[c] = "accepted"
  /\ reply' = [reply EXCEPT ![c] = rep]
  /\ serverEnd' = [serverEnd EXCEPT ![c] = "replied"]
  /\ UNCHANGED <<clientVars, clientEnd, requested, named, listening>>

\* The handler drops the stream, answered or not.
Hangup(c) ==
  /\ serverEnd[c] \in {"accepted", "replied"}
  /\ serverEnd' = [serverEnd EXCEPT ![c] = "closed"]
  /\ UNCHANGED <<clientVars, wire, named, listening>>

Crash ==
  /\ listening
  /\ listening' = FALSE
  /\ serverEnd' = [c \in Connections |-> IF serverEnd[c] = "unused" THEN "unused" ELSE "closed"]
  /\ UNCHANGED <<clientVars, wire, named>>

Restart ==
  /\ ~listening
  /\ listening' = TRUE
  /\ UNCHANGED <<clientVars, wire, serverEnd, named>>

-----------------------------------------------------------------------------
ClientStep ==
  \/ RefuseEmptyBusid
  \/ StartAttempt
  \/ ExhaustRetries
  \/ Connect
  \/ ConnectFails
  \/ SendRequest
  \/ SendFails
  \/ ReceiveAcceptance
  \/ ReceiveRefusal
  \/ ReceiveEof
  \/ Elapse

ServerStep(c) ==
  \/ Accept(c)
  \/ ReadRequest(c)
  \/ RefuseRequest(c)
  \/ ReadEof(c)
  \/ \E rep \in Replies : Answer(c, rep)
  \/ Hangup(c)

Next ==
  \/ ClientStep
  \/ \E c \in Connections : ServerStep(c)
  \/ Crash
  \/ Restart

\* Time passes, so that a client's attempt always ends; the accept loop keeps
\* accepting and reading.  Nobody must answer, crash or restart.
ServerFairness(c) ==
  WF_vars(Accept(c)) /\ WF_vars(ReadRequest(c) \/ RefuseRequest(c) \/ ReadEof(c))
ServersFair == \A c \in Connections : ServerFairness(c)

Fairness == WF_vars(ClientStep) /\ ServersFair

Spec == Init /\ [][Next]_vars
FairSpec == Spec /\ Fairness

-----------------------------------------------------------------------------
(* Safety *)

TypeOK ==
  /\ busid \in Busids
  /\ attempt \in 0 .. MaxRetries
  /\ client \in {"between", "connecting", "sending", "receiving", "returned"}
  /\ outcome \in {"none", "Ok", "ServerRejected", "InvalidReply", "MaxRetriesExceeded"}
  /\ fate \in [Connections -> {"none", "ok", "refused", "failed", "elapsed"}]
  /\ clientEnd \in [Connections -> {"unused", "open", "closed"}]
  /\ requested \in [Connections -> BOOLEAN]
  /\ reply \in [Connections -> Replies \cup {NoReply}]
  /\ serverEnd \in [Connections -> {"unused", "backlog", "reading", "accepted", "replied", "closed"}]
  /\ DOMAIN named = Connections
  /\ listening \in BOOLEAN

\* The client never holds two connections, and holds none once it has
\* returned an error: whatever await the timeout interrupts, the stream goes
\* with the attempt.
OneConnection ==
  \A c \in Connections :
    clientEnd[c] = "open" =>
      /\ c = attempt
      /\ client \in {"sending", "receiving"} \/ outcome = "Ok"

\* import_device returns Ok only if the server read the request of that very
\* attempt, found in it the device the client asked for (as far as the field
\* can hold it) and accepted; an answer to an earlier, abandoned attempt
\* counts for nothing.
ImportAgreed ==
  outcome = "Ok" =>
    /\ clientEnd[attempt] = "open"
    /\ Accepts(reply[attempt])
    /\ IsUtf8(named[attempt])
    /\ \A i \in DOMAIN named[attempt] : named[attempt][i] = busid[i]
    /\ Len(busid) <= WireBytes => named[attempt] = busid

\* Only failures and timeouts are retried, and giving up takes all of them: a
\* refusal the client has read ends the call.
RefusalIsFinal ==
  /\ \A c \in Connections : c < attempt => fate[c] \in {"failed", "elapsed"}
  /\ outcome = "MaxRetriesExceeded" =>
       attempt = MaxRetries /\ \A c \in Connections : fate[c] \in {"failed", "elapsed"}
  /\ outcome = "ServerRejected" =>
       fate[attempt] = "refused" /\ reply[attempt].status # 0

-----------------------------------------------------------------------------
(* Progress *)

\* What the two sides wait for, and nothing else: import_device can always go
\* on, by itself or by its timeout; accept_device goes on once the request has
\* come or the client's end is closed.
NothingElseAwaited ==
  /\ client # "returned" => ENABLED <<ClientStep>>_vars
  /\ \A c \in Connections :
       serverEnd[c] = "reading" /\ (requested[c] \/ clientEnd[c] = "closed")
         => ENABLED <<ReadRequest(c) \/ RefuseRequest(c) \/ ReadEof(c)>>_vars

\* import_device returns, whatever the server does or does not do.
ImportReturns == <>(client = "returned")

\* A connection never holds up the accept loop for ever, although
\* accept_device reads without a timeout: the client's own timeout ends it.
AcceptLoopGoesOn ==
  \A c \in Connections : serverEnd[c] = "reading" ~> serverEnd[c] # "reading"

-----------------------------------------------------------------------------
(* What the documentation says of the handshake, and the code does not do *)

\* "a connection that sends OP_REQ_IMPORT but does not receive OP_REP_IMPORT
\* within 10s causes a timeout error" (interop-checklist.md:70-71).
SilenceIsTimeout ==
  /\ outcome # "none"
  /\ attempt > 0
  /\ \A c \in 1 .. attempt : fate[c] = "elapsed" /\ requested[c] /\ reply[c] = NoReply
  => outcome = "Timeout"
=============================================================================
