--------------------------- MODULE BrokerSessions ---------------------------
(***************************************************************************)
(* The text services of several host processes and the one broker process  *)
(* that keeps an input session for each of them.  A request is a           *)
(* connection of its own to a pipe that has one instance, so the broker    *)
(* serves one request at a time.  The client waits for the pipe and for    *)
(* the answer for a bounded time and then gives up; between the two it has *)
(* the pipe open, and the broker waits for its request without any limit   *)
(* (pipe_client.cpp, pipe_server.cpp, session_host.cpp, and EnsureSession, *)
(* ApplyKeyResponse and AbandonSession of text_service.cpp).               *)
(*                                                                         *)
(* A session is known by a number.  The numbers start again in every       *)
(* broker process, and nothing in a request names the process that gave    *)
(* the number out.                                                         *)
(***************************************************************************)
EXTENDS Naturals, Sequences

CONSTANTS
  Tip,        \* the text services
  NoTip,
  Width,      \* number of values of session_id: 2^64 in the code
  Fields,     \* bound: the privacy of each field a text service enters, in order
  MaxExits    \* bound: times a broker process ends

ASSUME BrokerSessionsAssumption ==
  /\ NoTip \notin Tip
  /\ Width \in Nat /\ Width > 1
  /\ Fields \in [Tip -> Seq({"restricted", "ordinary"})]
  /\ MaxExits \in Nat

VARIABLES
  tips,      \* each text service
  pipe,      \* the one instance of the pipe
  host,      \* the SessionHost of the broker process
  collided   \* a request named the session of another process and found one

vars == <<tips, pipe, host, collided>>

------------------------------------------------------------------------------
(***************************************************************************)
(* Types.  The broker process a number comes from (epoch), and the field a *)
(* session serves (owner, stint), are there for the properties only.       *)
(***************************************************************************)
Id == 0 .. Width - 1
Privacy == {"blocked", "restricted", "ordinary"}
Field == [owner : Tip, stint : Nat]

Status == {"ok", "notFound", "error"}
Answer == [status : Status, session : Id, epoch : Nat]
NoAnswer == [status |-> "none"]

TipState == [pc      : {"idle", "creating", "configuring", "typing", "closing"},
             at      : {"outside", "connected", "sent"},   \* how far Exchange has come
             session : Id,
             epoch   : Nat,
             stint   : Nat,
             privacy : Privacy,
             answer  : Answer \cup {NoAnswer}]   \* what TransactNamedPipe has read

Session == [field : Field, restricted : BOOLEAN, writers : SUBSET Field]

Request == [kind : {"create", "option", "letter", "close"},
            session : Id, restricted : BOOLEAN, field : Field, epoch : Nat]

NoRequest == [kind |-> "none"]

Pipe == [state : {"free", "open", "sent", "answered"}, from : Tip \cup {NoTip},
         request : Request \cup {NoRequest}, answer : Answer \cup {NoAnswer}]
FreePipe == [state |-> "free", from |-> NoTip, request |-> NoRequest, answer |-> NoAnswer]

TypeOK ==
  /\ tips \in [Tip -> TipState]
  /\ pipe \in Pipe
  /\ host \in [up : BOOLEAN, epoch : Nat, next : Id, sessions : {host.sessions}]
  /\ host.sessions \in [DOMAIN host.sessions -> Session]
  /\ DOMAIN host.sessions \subseteq Id \ {0}
  /\ collided \in BOOLEAN

Init ==
  /\ tips = [t \in Tip |-> [pc |-> "idle", at |-> "outside", session |-> 0, epoch |-> 0,
                            stint |-> 0, privacy |-> "blocked", answer |-> NoAnswer]]
  /\ pipe = FreePipe
  /\ host = [up |-> TRUE, epoch |-> 1, next |-> 1, sessions |-> [id \in {} |-> 0]]
  /\ collided = FALSE

FieldOf(t) == [owner |-> t, stint |-> tips[t].stint]

------------------------------------------------------------------------------
(***************************************************************************)
(* SessionHost.  An operator gives the host a request leaves behind.       *)
(***************************************************************************)
Found(id) == id \in DOMAIN host.sessions

(* Wrong on purpose: the next number is used without a look at the sessions. *)
TakenBlindly(id) == id = IF host.next = 0 THEN 1 ELSE host.next

(* The numbers CreateSession may come to, from next_session_id_ on: the    *)
(* first that is neither 0 nor in use, around the end of the range.        *)
Steps(id) == (id + Width - host.next) % Width
NextId(id) ==
  /\ id # 0 /\ ~Found(id)
  /\ \A other \in Id \ {0} : ~Found(other) => Steps(id) <= Steps(other)

(* Wrong on purpose: the counter runs over the end of the range. *)
WithSessionUnbounded(id, request) ==
  [host EXCEPT !.next = id + 1,
               !.sessions = [i \in DOMAIN @ \cup {id} |->
                 IF i = id THEN [field |-> request.field, restricted |-> request.restricted,
                                 writers |-> {}]
                 ELSE @[i]]]

WithSession(id, request) ==
  [host EXCEPT !.next = (id + 1) % Width,
               !.sessions = [i \in DOMAIN @ \cup {id} |->
                 IF i = id THEN [field |-> request.field, restricted |-> request.restricted,
                                 writers |-> {}]
                 ELSE @[i]]]

WithoutSession(id) ==
  [host EXCEPT !.sessions = [i \in DOMAIN @ \ {id} |-> @[i]]]

WithLetter(id, request) ==
  [host EXCEPT !.sessions[id].writers = @ \cup {request.field}]

(* CreateSession; the engine factory may have no engine to give. *)
HandleCreate(request, h, status, session) ==
  \/ \E id \in Id : /\ NextId(id)
                    /\ h = WithSession(id, request) /\ status = "ok" /\ session = id
  \/ h = host /\ status = "error" /\ session = 0

(* Handle for a request that names a session.  A letter the engine does    *)
(* not consume leaves no trace in it.                                      *)
HandleSession(request, h, status, session) ==
  /\ session = request.session
  /\ IF ~Found(request.session) THEN h = host /\ status = "notFound"
     ELSE /\ status = "ok"
          /\ \/ request.kind = "close" /\ h = WithoutSession(request.session)
             \/ request.kind = "letter" /\ h = WithLetter(request.session, request)
             \/ request.kind \in {"letter", "option"} /\ h = host

Handle(request, h, status, session) ==
  IF request.kind = "create" THEN HandleCreate(request, h, status, session)
  ELSE HandleSession(request, h, status, session)

------------------------------------------------------------------------------
(***************************************************************************)
(* The pipe and PipeServer.                                                *)
(***************************************************************************)
(* IsServerAvailable: the instance exists and is not connected. *)
Available == host.up /\ pipe.state = "free"

RequestOf(t) ==
  [kind |-> CASE tips[t].pc = "creating" -> "create"
              [] tips[t].pc = "configuring" -> "option"
              [] tips[t].pc = "typing" -> "letter"
              [] tips[t].pc = "closing" -> "close",
   session |-> tips[t].session,
   restricted |-> (tips[t].privacy = "restricted"),
   field |-> FieldOf(t),
   epoch |-> tips[t].epoch]

(* Exchange up to CreateFile: the server's ConnectNamedPipe returns, and   *)
(* ServeClient waits in ReadFile.                                          *)
Connect(t) ==
  /\ tips[t].pc # "idle" /\ tips[t].at = "outside"
  /\ Available
  /\ tips' = [tips EXCEPT ![t].at = "connected"]
  /\ pipe' = [FreePipe EXCEPT !.state = "open", !.from = t]
  /\ UNCHANGED <<host, collided>>

(* The write of TransactNamedPipe.  A call that fails on the way to it is  *)
(* a GiveUp.                                                               *)
Send(t) ==
  /\ pipe.state = "open" /\ pipe.from = t
  /\ tips' = [tips EXCEPT ![t].at = "sent"]
  /\ pipe' = [pipe EXCEPT !.state = "sent", !.request = RequestOf(t)]
  /\ UNCHANGED <<host, collided>>

(* ServeClient up to the answer.  The client may be gone when it is served. *)
Serve ==
  /\ host.up /\ pipe.state = "sent"
  /\ \E status \in Status : \E session \in Id :
       /\ Handle(pipe.request, host', status, session)
       /\ pipe' = [pipe EXCEPT !.state = "answered",
                     !.answer = [status |-> status, session |-> session, epoch |-> host.epoch]]
  /\ collided' = (collided \/ /\ pipe.request.kind # "create"
                              /\ pipe.request.epoch # host.epoch
                              /\ Found(pipe.request.session))
  /\ UNCHANGED tips

(* Wrong on purpose: a write that fails ends the round of Run. *)
OnlyAfterWrite == IF pipe.from = NoTip THEN pipe ELSE FreePipe

(* DisconnectNamedPipe, whether or not the write succeeded. *)
Disconnected == FreePipe

(* WriteFile, which completes the read the client has pending or fails     *)
(* because the client is gone, and the end of the round in Run.            *)
Deliver ==
  /\ host.up /\ pipe.state = "answered"
  /\ tips' = IF pipe.from = NoTip THEN tips
             ELSE [tips EXCEPT ![pipe.from].answer = pipe.answer]
  /\ pipe' = Disconnected
  /\ UNCHANGED <<host, collided>>

(* ReadFile finds the client gone, or SameUserAndSession fails behind it:  *)
(* the round ends without an answer.                                       *)
Drop ==
  /\ host.up
  /\ pipe.state = "sent" \/ (pipe.state = "open" /\ pipe.from = NoTip)
  /\ pipe' = Disconnected
  /\ UNCHANGED <<tips, host, collided>>

------------------------------------------------------------------------------
(***************************************************************************)
(* The text service.  Its thread waits in Exchange while pc is not "idle". *)
(***************************************************************************)
(* AbandonSession: the session is closed first and forgotten in any case. *)
Abandon(s) ==
  IF s.session # 0 THEN [s EXCEPT !.pc = "closing"]
  ELSE [s EXCEPT !.pc = "idle", !.privacy = "blocked"]

Forgotten(s) == [s EXCEPT !.pc = "idle", !.session = 0, !.epoch = 0, !.privacy = "blocked"]

(* What the text service does with an answer, and without one: every      *)
(* failure but that of a letter is passed over.                            *)
AfterAnswer(s, answer) ==
  CASE s.pc = "creating" /\ answer.status = "ok" ->
         [s EXCEPT !.pc = "configuring", !.session = answer.session, !.epoch = answer.epoch]
    [] s.pc = "typing" /\ answer.status = "notFound" -> Abandon(s)
    [] s.pc = "closing" -> Forgotten(s)
    [] OTHER -> [s EXCEPT !.pc = "idle"]

AfterLoss(s) ==
  CASE s.pc = "typing" -> Abandon(s)
    [] s.pc = "closing" -> Forgotten(s)
    [] OTHER -> [s EXCEPT !.pc = "idle"]

(* Exchange has returned. *)
Outside(s) == [s EXCEPT !.at = "outside", !.answer = NoAnswer]

Receive(t) ==
  /\ tips[t].answer # NoAnswer
  /\ tips' = [tips EXCEPT ![t] = Outside(AfterAnswer(@, @.answer))]
  /\ UNCHANGED <<pipe, host, collided>>

(* Wrong on purpose: the wait for an instance of the pipe has no limit. *)
MayGiveUpConnected(t) == tips[t].at # "outside"

(* The timeout, a call that failed, a pipe that broke, or no pipe at all. *)
MayGiveUp(t) == tips[t].pc # "idle"

(* Exchange without an answer, which may come while the wait runs out. *)
GiveUp(t) ==
  /\ MayGiveUp(t)
  /\ tips' = [tips EXCEPT ![t] = Outside(AfterLoss(@))]
  /\ pipe' = [pipe EXCEPT !.from = IF @ = t THEN NoTip ELSE @]
  /\ UNCHANGED <<host, collided>>

Calls(t, s) ==
  /\ tips[t].pc = "idle"
  /\ tips' = [tips EXCEPT ![t] = s]
  /\ UNCHANGED <<pipe, host, collided>>

(* AllowKeyInContext for the first key in another field. *)
EnterField(t) ==
  /\ tips[t].stint < Len(Fields[t])
  /\ tips[t].session = 0
  /\ Calls(t, [tips[t] EXCEPT !.stint = @ + 1, !.privacy = Fields[t][tips[t].stint + 1]])

LeaveField(t) ==
  /\ tips[t].privacy # "blocked"
  /\ Calls(t, Abandon(tips[t]))

(* EnsureSession *)
CreateSession(t) ==
  /\ tips[t].session = 0 /\ tips[t].privacy # "blocked"
  /\ Available
  /\ Calls(t, [tips[t] EXCEPT !.pc = "creating"])

(* ApplyKeyResponse *)
TypeLetter(t) ==
  /\ tips[t].session # 0
  /\ Calls(t, [tips[t] EXCEPT !.pc = "typing"])

------------------------------------------------------------------------------
(* The broker process ends, whatever it was doing; StartBroker of some     *)
(* text service starts the next one.                                       *)
BrokerExits ==
  /\ host.up /\ host.epoch <= MaxExits
  /\ host' = [up |-> FALSE, epoch |-> host.epoch + 1, next |-> 1, sessions |-> [id \in {} |-> 0]]
  /\ pipe' = FreePipe
  /\ UNCHANGED <<tips, collided>>

BrokerStarts ==
  /\ ~host.up
  /\ host' = [host EXCEPT !.up = TRUE]
  /\ UNCHANGED <<tips, pipe, collided>>

Next ==
  \/ \E t \in Tip : \/ Connect(t) \/ Send(t) \/ Receive(t) \/ GiveUp(t)
                    \/ EnterField(t) \/ LeaveField(t) \/ CreateSession(t) \/ TypeLetter(t)
  \/ Serve \/ Deliver \/ Drop
  \/ BrokerExits \/ BrokerStarts

(* The broker goes on while there is something to read or to write, and a *)
(* wait of a client has a limit.  Between CreateFile and the write nothing *)
(* limits the time a client takes: its process may be suspended there.     *)
Fairness ==
  /\ WF_vars(Serve \/ Deliver \/ Drop)
  /\ \A t \in Tip : WF_vars(tips[t].at # "connected" /\ (Receive(t) \/ GiveUp(t)))

Spec == Init /\ [][Next]_vars
FairSpec == Spec /\ Fairness

------------------------------------------------------------------------------
(***************************************************************************)
(* Properties.                                                             *)
(***************************************************************************)
(* The text service has a session of the broker process that runs. *)
Holds(t) ==
  /\ tips[t].session # 0 /\ tips[t].epoch = host.epoch /\ tips[t].pc # "closing"

(* "Callers can isolate state and suppress all learning" (input_privacy.h): *)
(* the session a text service holds exists, was made for the field that    *)
(* has its focus and with that field's restriction, and no session ever    *)
(* takes a letter of another field or another process (SessionHost).       *)
SessionsIsolated ==
  /\ \A t \in Tip : Holds(t) =>
       /\ Found(tips[t].session)
       /\ host.sessions[tips[t].session].field = FieldOf(t)
       /\ host.sessions[tips[t].session].restricted <=> tips[t].privacy = "restricted"
  /\ \A id \in DOMAIN host.sessions :
       host.sessions[id].writers \subseteq {host.sessions[id].field}

(* Isolation is lost only through a number that outlived its broker        *)
(* process: lost answers, late requests, refused engines, leaked sessions  *)
(* and numbers that wrap around cannot break it.                           *)
IsolatedUnlessCollision == ~collided => SessionsIsolated

(* The client does not stay for ever between opening the pipe and writing. *)
GoesOn(t) == []<>(tips[t].at # "connected")

(* The thread of a host is never stuck in an exchange (the time limit of   *)
(* PipeClient), not even behind a client that stays connected for ever     *)
(* without writing a request.                                              *)
ExchangesEnd == \A t \in Tip : GoesOn(t) => (tips[t].pc # "idle" ~> tips[t].pc = "idle")

(* The only instance of the pipe becomes free again after every client,    *)
(* also after one that went away at any point of its exchange              *)
(* (PipeServer::Run) -- if none stays connected without writing: ReadFile  *)
(* has no time limit, so such a client keeps the pipe.                     *)
PipeIsFreed ==
  (\A t \in Tip : GoesOn(t)) => (pipe.state # "free" ~> pipe.state = "free")
==============================================================================
