------------------------ MODULE BrokerSessionsProofs ------------------------
(***************************************************************************)
(* Proofs about BrokerSessions: the state is well typed, and isolation of  *)
(* the sessions is lost through a collision of numbers only.               *)
(*                                                                         *)
(* Isolation alone is not inductive: it has to be said of a session from   *)
(* the request that makes it to the one that closes it, so the invariant   *)
(* follows the number through the pipe and back.                           *)
(***************************************************************************)
EXTENDS BrokerSessions, TLAPS

(***************************************************************************)
(* The inductive invariant.                                                *)
(***************************************************************************)
Owner == pipe.request.field.owner
Loaded == pipe.state \in {"sent", "answered"}

(* The pipe: what it holds is the request of the client that waits, and    *)
(* a client that went away has nothing else under way.                     *)
PipeOK ==
  /\ Loaded =>
       /\ pipe.request \in Request
       /\ pipe.from \in {NoTip, Owner}
       /\ tips[Owner].answer = NoAnswer
  /\ pipe.from # NoTip =>
       /\ pipe.state # "free"
       /\ tips[pipe.from].pc # "idle"
       /\ tips[pipe.from].answer = NoAnswer
       /\ Loaded => pipe.request = RequestOf(pipe.from) /\ tips[pipe.from].at = "sent"
  /\ pipe.state = "answered" =>
       /\ pipe.answer \in Answer /\ pipe.answer.epoch = host.epoch
       /\ pipe.request.kind = "create" /\ pipe.answer.status = "ok" => pipe.answer.session # 0
  /\ pipe.state = "sent" /\ pipe.request.kind = "close" /\ pipe.from = NoTip =>
       tips[Owner].session = 0

(* The text services: where in an exchange they are, and that no number    *)
(* comes from a broker process of the future.                              *)
StateOK(s) ==
  /\ s.pc = "idle" => s.answer = NoAnswer /\ s.at = "outside"
  /\ s.at # "sent" => s.answer = NoAnswer
  /\ s.pc = "creating" => s.session = 0
  /\ s.pc \in {"configuring", "typing", "closing"} => s.session # 0
  /\ s.epoch <= host.epoch
  /\ s.answer # NoAnswer =>
       /\ s.answer.epoch <= host.epoch
       /\ s.pc = "creating" /\ s.answer.status = "ok" => s.answer.session # 0

Owned(id, field, privacy) ==
  /\ Found(id)
  /\ host.sessions[id].field = field
  /\ host.sessions[id].restricted <=> privacy = "restricted"

Owns(t, id) == Owned(id, FieldOf(t), tips[t].privacy)

(* The broker has closed the session, and the text service will hear of it. *)
Closed(t) ==
  /\ tips[t].pc = "closing"
  /\ tips[t].answer # NoAnswer \/ (pipe.state = "answered" /\ pipe.from = t)

(* The sessions: those a text service holds, those it is about to learn of *)
(* and those the request on its way names are its own.                     *)
Holding ==
  \A t \in Tip :
    tips[t].session # 0 /\ tips[t].epoch = host.epoch /\ ~Closed(t) => Owns(t, tips[t].session)
Learning ==
  \A t \in Tip :
    /\ tips[t].pc = "creating" /\ tips[t].answer # NoAnswer
    /\ tips[t].answer.status = "ok" /\ tips[t].answer.epoch = host.epoch
    => Owns(t, tips[t].answer.session)
Answering ==
  /\ pipe.state = "answered" /\ pipe.from # NoTip
  /\ pipe.request.kind = "create" /\ pipe.answer.status = "ok"
  => Owns(pipe.from, pipe.answer.session)
Asking ==
  /\ pipe.state = "sent" /\ pipe.request.kind # "create"
  /\ pipe.request.epoch = host.epoch /\ Found(pipe.request.session)
  => host.sessions[pipe.request.session].field = pipe.request.field
Writing ==
  \A id \in DOMAIN host.sessions :
    host.sessions[id].writers \subseteq {host.sessions[id].field}

Ownership == Holding /\ Learning /\ Answering /\ Asking /\ Writing

IInv ==
  /\ TypeOK
  /\ PipeOK
  /\ \A t \in Tip : StateOK(tips[t])
  /\ ~collided => Ownership

------------------------------------------------------------------------------
(* An answer is never the absence of one. *)
LEMMA AnswerIsSome == ASSUME NEW a \in Answer PROVE a # NoAnswer
  BY DEF Answer, NoAnswer, Status

(* At the start nothing is under way and there is no session. *)
LEMMA InitInv == ASSUME Init PROVE IInv
<1> USE DEF Init
<1>1. 0 \in Id /\ 1 \in Id
  BY BrokerSessionsAssumption DEF Id
<1>2. TypeOK
  <2>1. tips \in [Tip -> TipState]
    BY <1>1 DEF TipState, Privacy
  <2>2. pipe \in Pipe
    BY DEF Pipe, FreePipe
  <2>3. host \in [up : BOOLEAN, epoch : Nat, next : Id, sessions : {host.sessions}]
    BY <1>1
  <2>4. DOMAIN host.sessions = {}
    OBVIOUS
  <2>5. host.sessions \in [DOMAIN host.sessions -> Session]
    BY <2>4
  <2> QED
    BY <2>1, <2>2, <2>3, <2>4, <2>5 DEF TypeOK
<1>3. PipeOK
  BY DEF PipeOK, FreePipe, Loaded
<1>4. \A t \in Tip : StateOK(tips[t])
  <2>1. host.epoch = 1
    OBVIOUS
  <2>2. \A t \in Tip : /\ tips[t].pc = "idle" /\ tips[t].epoch = 0
                      /\ tips[t].answer = NoAnswer /\ tips[t].at = "outside"
    OBVIOUS
  <2>3. \A s : s.pc = "idle" /\ s.epoch = 0 /\ s.answer = NoAnswer /\ s.at = "outside"
                => StateOK(s)
    BY <2>1 DEF StateOK
  <2> QED
    BY <2>2, <2>3
<1>5. Ownership
  BY DEF Ownership, Holding, Learning, Answering, Asking, Writing, FreePipe
<1> QED
  BY <1>2, <1>3, <1>4, <1>5 DEF IInv

(***************************************************************************)
(* What a step of a text service has to show when it goes to state s with  *)
(* nothing of its own left in the pipe.                                    *)
(***************************************************************************)
LEMMA TipStep ==
  ASSUME IInv, NEW t \in Tip, NEW s \in TipState,
         tips' = [tips EXCEPT ![t] = s],
         pipe' \in Pipe, pipe'.state = pipe.state, pipe'.request = pipe.request,
         pipe'.answer = pipe.answer,
         pipe'.from = IF pipe.from = t THEN NoTip ELSE pipe.from,
         UNCHANGED <<host, collided>>,
         s.answer = NoAnswer, StateOK(s),
         pipe.state = "sent" /\ pipe.request.kind = "close" /\ pipe'.from = NoTip /\ Owner = t
           => s.session = 0,
         ~collided /\ s.session # 0 /\ s.epoch = host.epoch
           => Owned(s.session, [owner |-> t, stint |-> s.stint], s.privacy)
  PROVE  IInv'
<1>1. tips'[t] = s /\ \A u \in Tip : u # t => tips'[u] = tips[u]
  BY DEF IInv, TypeOK
<1>2. TypeOK'
  BY DEF IInv, TypeOK
<1>3. t # NoTip
  BY BrokerSessionsAssumption
<1>4. pipe'.from # NoTip => pipe'.from = pipe.from /\ pipe.from \in Tip /\ pipe.from # t
                            /\ tips'[pipe.from] = tips[pipe.from]
  BY <1>1 DEF IInv, TypeOK, Pipe
<1>5. PipeOK'
  <2>1. Owner' = Owner /\ Loaded' = Loaded
    BY DEF Owner, Loaded
  <2>2. ASSUME Loaded
        PROVE  /\ pipe.request \in Request
               /\ pipe'.from \in {NoTip, Owner}
               /\ tips'[Owner].answer = NoAnswer
    <3>1. /\ pipe.request \in Request /\ pipe.from \in {NoTip, Owner}
          /\ tips[Owner].answer = NoAnswer
      BY <2>2 DEF IInv, PipeOK
    <3>2. Owner \in Tip
      BY <3>1 DEF Owner, Request, Field
    <3> QED
      BY <1>1, <3>1, <3>2
  <2>3. ASSUME pipe'.from # NoTip
        PROVE  /\ pipe.state # "free"
               /\ tips'[pipe'.from].pc # "idle"
               /\ tips'[pipe'.from].answer = NoAnswer
               /\ Loaded => /\ (pipe.request = RequestOf(pipe.from))'
                            /\ tips'[pipe'.from].at = "sent"
    BY <1>4, <2>3 DEF IInv, PipeOK, RequestOf, FieldOf
  <2>4. ASSUME pipe.state = "answered"
        PROVE  /\ pipe.answer \in Answer /\ pipe.answer.epoch = host.epoch
               /\ pipe.request.kind = "create" /\ pipe.answer.status = "ok"
                    => pipe.answer.session # 0
    BY <2>4 DEF IInv, PipeOK
  <2>5. ASSUME pipe.state = "sent", pipe.request.kind = "close", pipe'.from = NoTip
        PROVE  tips'[Owner].session = 0
    <3>1. CASE Owner = t
      BY <1>1, <2>5, <3>1
    <3>2. CASE Owner # t
      <4>1. pipe.request \in Request /\ pipe.from \in {NoTip, Owner}
        BY <2>5 DEF IInv, PipeOK, Loaded
      <4>2. Owner \in Tip
        BY <4>1 DEF Owner, Request, Field
      <4>3. pipe.from = NoTip
        BY <2>5, <3>2, <4>1
      <4>4. tips[Owner].session = 0
        BY <2>5, <4>3 DEF IInv, PipeOK
      <4> QED
        BY <1>1, <3>2, <4>2, <4>4
    <3> QED
      BY <3>1, <3>2
  <2> QED
    BY <2>1, <2>2, <2>3, <2>4, <2>5 DEF PipeOK
<1>6. \A u \in Tip : StateOK(tips[u])'
  BY <1>1 DEF IInv, StateOK
<1>7. ASSUME ~collided PROVE Ownership'
  <2>1. Ownership
    BY <1>7 DEF IInv
  <2>2. Holding'
    <3> SUFFICES ASSUME NEW u \in Tip, tips'[u].session # 0, tips'[u].epoch = host.epoch,
                        ~Closed(u)'
                 PROVE  Owns(u, tips[u].session)'
      BY DEF Holding
    <3>1. CASE u = t
      BY <1>1, <1>7, <3>1 DEF Owns, Owned, Found, FieldOf
    <3>2. CASE u # t
      <4>1. tips'[u] = tips[u] /\ ~Closed(u)
        BY <1>1, <1>3, <3>2 DEF Closed
      <4>2. Owns(u, tips[u].session)
        BY <2>1, <4>1 DEF Ownership, Holding
      <4> QED
        BY <4>1, <4>2 DEF Owns, Owned, Found, FieldOf
    <3> QED
      BY <3>1, <3>2
  <2>3. Learning'
    <3> SUFFICES ASSUME NEW u \in Tip, tips'[u].pc = "creating", tips'[u].answer # NoAnswer,
                        tips'[u].answer.status = "ok", tips'[u].answer.epoch = host.epoch
                 PROVE  Owns(u, tips[u].answer.session)'
      BY DEF Learning
    <3>1. u # t /\ tips'[u] = tips[u]
      BY <1>1
    <3>2. Owns(u, tips[u].answer.session)
      BY <2>1, <3>1 DEF Ownership, Learning
    <3> QED
      BY <3>1, <3>2 DEF Owns, Owned, Found, FieldOf
  <2>4. Answering'
    <3> SUFFICES ASSUME pipe.state = "answered", pipe'.from # NoTip,
                        pipe.request.kind = "create", pipe.answer.status = "ok"
                 PROVE  Owns(pipe.from, pipe.answer.session)'
      BY DEF Answering
    <3>1. Owns(pipe.from, pipe.answer.session)
      BY <1>4, <2>1 DEF Ownership, Answering
    <3> QED
      BY <1>4, <3>1 DEF Owns, Owned, Found, FieldOf
  <2>5. Asking'
    BY <2>1 DEF Ownership, Asking, Found
  <2>6. Writing'
    BY <2>1 DEF Ownership, Writing
  <2> QED
    BY <2>2, <2>3, <2>4, <2>5, <2>6 DEF Ownership
<1> QED
  BY <1>2, <1>5, <1>6, <1>7 DEF IInv

(* A step of a text service that leaves the pipe alone. *)
LEMMA QuietStep ==
  ASSUME IInv, NEW t \in Tip, NEW s \in TipState,
         tips' = [tips EXCEPT ![t] = s], UNCHANGED <<pipe, host, collided>>,
         pipe.from # t,
         s.session # 0 => \/ s.session = tips[t].session
                          \/ pipe.state \in {"free", "open"}
                          \/ Owner # t,
         s.answer = NoAnswer, StateOK(s),
         ~collided /\ s.session # 0 /\ s.epoch = host.epoch
           => Owned(s.session, [owner |-> t, stint |-> s.stint], s.privacy)
  PROVE  IInv'
<1>1. pipe' \in Pipe /\ pipe'.from = (IF pipe.from = t THEN NoTip ELSE pipe.from)
  BY DEF IInv, TypeOK
<1>2. pipe.state = "sent" /\ pipe.request.kind = "close" /\ pipe'.from = NoTip /\ Owner = t
        => s.session = 0
  BY DEF IInv, PipeOK
<1> QED
  BY <1>1, <1>2, TipStep

------------------------------------------------------------------------------
(***************************************************************************)
(* The steps of the text services.                                         *)
(***************************************************************************)
(* Who waits in no exchange has nothing in the pipe. *)
LEMMA IdleIsQuiet ==
  ASSUME IInv, NEW t \in Tip, tips[t].pc = "idle"
  PROVE  /\ pipe.from # t /\ tips[t].answer = NoAnswer /\ tips[t].at = "outside"
         /\ tips[t] \in TipState
  BY BrokerSessionsAssumption DEF IInv, PipeOK, StateOK, TypeOK

(* What a text service knows of a session it has outside of an exchange    *)
(* that closes it.                                                         *)
LEMMA HeldIsOwned ==
  ASSUME IInv, NEW t \in Tip, ~collided, tips[t].session # 0,
         tips[t].epoch = host.epoch, ~Closed(t)
  PROVE  Owned(tips[t].session, [owner |-> t, stint |-> tips[t].stint], tips[t].privacy)
  BY DEF IInv, Ownership, Holding, Owns, FieldOf

(* Forgotten leaves no session, whatever became of it. *)
LEMMA ForgottenTyped ==
  ASSUME NEW s \in TipState
  PROVE  LET f == Outside(Forgotten(s)) IN
         /\ f \in TipState
         /\ f.pc = "idle" /\ f.at = "outside" /\ f.session = 0 /\ f.epoch = 0
         /\ f.answer = NoAnswer
<1>1. 0 \in Id /\ "blocked" \in Privacy
  BY BrokerSessionsAssumption DEF Id, Privacy
<1> QED
  BY <1>1 DEF TipState, Forgotten, Outside

(* A request begins: the text service keeps its session, if it has one. *)
LEMMA CallInv ==
  ASSUME IInv, NEW t \in Tip, NEW s \in TipState, Calls(t, s), s.answer = NoAnswer, StateOK(s),
         s.session # 0 => /\ s.session = tips[t].session /\ s.epoch = tips[t].epoch
                          /\ s.stint = tips[t].stint /\ s.privacy = tips[t].privacy
  PROVE  IInv'
<1>1. /\ tips[t].pc = "idle"
      /\ tips' = [tips EXCEPT ![t] = s]
      /\ UNCHANGED <<pipe, host, collided>>
  BY DEF Calls
<1>2. pipe.from # t /\ ~Closed(t)
  BY <1>1, IdleIsQuiet DEF Closed
<1>3. ~collided /\ s.session # 0 /\ s.epoch = host.epoch
        => Owned(s.session, [owner |-> t, stint |-> s.stint], s.privacy)
  BY <1>2, HeldIsOwned
<1> QED
  BY <1>1, <1>2, <1>3, QuietStep

(* EnterField, LeaveField, CreateSession and TypeLetter. *)
LEMMA FieldInv ==
  ASSUME IInv, NEW t \in Tip,
         \/ EnterField(t) \/ LeaveField(t) \/ CreateSession(t) \/ TypeLetter(t)
  PROVE  IInv'
<1>1. tips[t].pc = "idle"
  BY DEF EnterField, LeaveField, CreateSession, TypeLetter, Calls
<1>2. /\ tips[t].answer = NoAnswer /\ tips[t].at = "outside"
      /\ tips[t] \in TipState /\ StateOK(tips[t])
  BY <1>1, IdleIsQuiet DEF IInv
<1>3. CASE EnterField(t)
  <2> DEFINE privacy == Fields[t][tips[t].stint + 1]
  <2>1. privacy \in Privacy
    <3>1. Fields[t] \in Seq({"restricted", "ordinary"})
      BY BrokerSessionsAssumption
    <3>2. tips[t].stint \in Nat /\ tips[t].stint < Len(Fields[t])
      BY <1>2, <1>3 DEF EnterField, TipState
    <3> QED
      BY <3>1, <3>2 DEF Privacy
  <2> DEFINE s == [tips[t] EXCEPT !.stint = @ + 1, !.privacy = privacy]
  <2>2. Calls(t, s) /\ tips[t].session = 0
    BY <1>3 DEF EnterField
  <2>3. /\ s \in TipState /\ s.pc = tips[t].pc /\ s.session = tips[t].session
        /\ s.epoch = tips[t].epoch /\ s.answer = NoAnswer /\ s.at = "outside"
    <3>1. tips[t].stint + 1 \in Nat
      BY <1>2 DEF TipState
    <3> QED
      BY <1>2, <2>1, <3>1 DEF TipState
  <2> HIDE DEF s
  <2>4. StateOK(s)
    BY <1>1, <1>2, <2>3 DEF StateOK
  <2> QED
    BY <2>2, <2>3, <2>4, CallInv
<1>4. CASE LeaveField(t)
  <2> DEFINE s == Abandon(tips[t])
  <2>1. Calls(t, s)
    BY <1>4 DEF LeaveField
  <2>2. /\ s \in TipState /\ s.session = tips[t].session /\ s.epoch = tips[t].epoch
        /\ s.stint = tips[t].stint /\ s.answer = NoAnswer /\ s.at = "outside"
        /\ s.session # 0 => s.privacy = tips[t].privacy
        /\ s.pc = IF s.session # 0 THEN "closing" ELSE "idle"
    BY <1>2 DEF TipState, Privacy, Abandon
  <2> HIDE DEF s
  <2>3. StateOK(s)
    BY <1>1, <1>2, <2>2 DEF StateOK
  <2> QED
    BY <2>1, <2>2, <2>3, CallInv
<1>5. CASE CreateSession(t) \/ TypeLetter(t)
  <2>1. PICK pc \in {"creating", "typing"} :
          /\ Calls(t, [tips[t] EXCEPT !.pc = pc])
          /\ pc = "creating" <=> tips[t].session = 0
    BY <1>5 DEF CreateSession, TypeLetter
  <2> DEFINE s == [tips[t] EXCEPT !.pc = pc]
  <2>2. /\ s \in TipState /\ s.session = tips[t].session /\ s.epoch = tips[t].epoch
        /\ s.stint = tips[t].stint /\ s.privacy = tips[t].privacy
        /\ s.answer = NoAnswer /\ s.at = "outside" /\ s.pc = pc
    BY <1>2, <2>1 DEF TipState
  <2>3. Calls(t, s)
    BY <2>1
  <2> HIDE DEF s
  <2>4. StateOK(s)
    BY <1>2, <2>1, <2>2 DEF StateOK
  <2> QED
    BY <2>2, <2>3, <2>4, CallInv
<1> QED
  BY <1>3, <1>4, <1>5

(* A client that has the pipe open has said nothing yet. *)
LEMMA ConnectInv == ASSUME IInv, NEW t \in Tip, Connect(t) PROVE IInv'
<1> DEFINE s == [tips[t] EXCEPT !.at = "connected"]
<1>1. /\ tips[t].pc # "idle" /\ tips[t].at = "outside"
      /\ tips' = [tips EXCEPT ![t] = s]
      /\ pipe' = [FreePipe EXCEPT !.state = "open", !.from = t]
      /\ UNCHANGED <<host, collided>>
  BY DEF Connect, IInv, TypeOK
<1>2. tips[t] \in TipState /\ StateOK(tips[t])
  BY DEF IInv, TypeOK
<1>3. /\ s \in TipState /\ s.at = "connected" /\ s.pc = tips[t].pc
      /\ s.session = tips[t].session /\ s.epoch = tips[t].epoch /\ s.stint = tips[t].stint
      /\ s.privacy = tips[t].privacy /\ s.answer = NoAnswer
  BY <1>1, <1>2 DEF TipState, StateOK
<1> HIDE DEF s
<1>4. tips'[t] = s /\ \A u \in Tip : u # t => tips'[u] = tips[u]
  BY <1>1 DEF IInv, TypeOK
<1>5. pipe' \in Pipe /\ pipe'.state = "open" /\ pipe'.from = t
  BY <1>1 DEF Pipe, FreePipe
<1>6. TypeOK'
  BY <1>1, <1>3, <1>5 DEF IInv, TypeOK
<1>7. PipeOK' /\ Answering' /\ Asking'
  BY <1>1, <1>3, <1>4, <1>5 DEF PipeOK, Loaded, Answering, Asking
<1>8. \A u \in Tip : StateOK(tips[u])'
  BY <1>1, <1>2, <1>3, <1>4 DEF IInv, StateOK
<1>9. ASSUME ~collided PROVE Holding' /\ Learning' /\ Writing'
  <2>1. Ownership
    BY <1>9 DEF IInv
  <2>2. \A u \in Tip : /\ tips'[u].session = tips[u].session
                       /\ tips'[u].epoch = tips[u].epoch
                       /\ tips'[u].answer # NoAnswer => tips'[u] = tips[u]
                       /\ \A i : Owns(u, i) => Owns(u, i)'
    BY <1>1, <1>3, <1>4 DEF Owns, Owned, Found, FieldOf
  <2>3. \A u \in Tip : Closed(u) => Closed(u)'
    <3>1. pipe.state = "free" /\ tips[t].answer = NoAnswer
      BY <1>1, <1>2 DEF Connect, Available, StateOK
    <3> QED
      BY <1>4, <3>1 DEF Closed
  <2>4. Holding'
    BY <1>1, <2>1, <2>2, <2>3 DEF Ownership, Holding
  <2>5. Learning'
    BY <1>1, <2>1, <2>2 DEF Ownership, Learning
  <2>6. Writing'
    BY <1>1, <2>1 DEF Ownership, Writing
  <2> QED
    BY <2>4, <2>5, <2>6
<1> QED
  BY <1>1, <1>6, <1>7, <1>8, <1>9 DEF IInv, Ownership

(* The request leaves with the session the text service holds. *)
LEMMA SendInv == ASSUME IInv, NEW t \in Tip, Send(t) PROVE IInv'
<1> DEFINE r == RequestOf(t)
           s == [tips[t] EXCEPT !.at = "sent"]
<1>1. /\ pipe.state = "open" /\ pipe.from = t /\ t # NoTip
      /\ tips' = [tips EXCEPT ![t] = s]
      /\ pipe' = [pipe EXCEPT !.state = "sent", !.request = r]
      /\ UNCHANGED <<host, collided>>
  BY BrokerSessionsAssumption DEF Send, IInv, TypeOK
<1>2. /\ tips[t] \in TipState /\ StateOK(tips[t])
      /\ tips[t].pc # "idle" /\ tips[t].answer = NoAnswer
  BY <1>1 DEF IInv, TypeOK, PipeOK
<1>3. /\ r.session = tips[t].session /\ r.epoch = tips[t].epoch
      /\ r.field = FieldOf(t) /\ r.field.owner = t
      /\ r.kind = "create" <=> tips[t].pc = "creating"
      /\ r.kind = "close" <=> tips[t].pc = "closing"
      /\ r \in Request
  BY <1>2 DEF RequestOf, TipState, Request, FieldOf, Field
<1>4. /\ pipe'.state = "sent" /\ pipe'.from = t /\ pipe'.request = r
      /\ pipe' \in Pipe
  BY <1>1, <1>3 DEF IInv, TypeOK, Pipe
<1>5. /\ s \in TipState /\ s.at = "sent" /\ s.pc = tips[t].pc
      /\ s.session = tips[t].session /\ s.epoch = tips[t].epoch /\ s.stint = tips[t].stint
      /\ s.privacy = tips[t].privacy /\ s.answer = NoAnswer
  BY <1>2 DEF TipState
<1> HIDE DEF s
<1>6. tips'[t] = s /\ \A u \in Tip : u # t => tips'[u] = tips[u]
  BY <1>1 DEF IInv, TypeOK
<1>7. RequestOf(t)' = r
  BY <1>5, <1>6 DEF RequestOf, FieldOf
<1> HIDE DEF r
<1>8. TypeOK'
  BY <1>1, <1>4, <1>5 DEF IInv, TypeOK
<1>9. PipeOK'
  BY <1>1, <1>2, <1>3, <1>4, <1>5, <1>6, <1>7 DEF PipeOK, Owner, Loaded
<1>10. \A u \in Tip : StateOK(tips[u])'
  BY <1>1, <1>2, <1>5, <1>6 DEF IInv, StateOK
<1>11. ASSUME ~collided PROVE Ownership'
  <2>1. Ownership
    BY <1>11 DEF IInv
  <2>2. \A u \in Tip : /\ tips'[u].session = tips[u].session
                       /\ tips'[u].epoch = tips[u].epoch
                       /\ tips'[u].answer # NoAnswer => tips'[u] = tips[u]
                       /\ \A i : Owns(u, i) => Owns(u, i)'
    BY <1>1, <1>5, <1>6 DEF Owns, Owned, Found, FieldOf
  <2>3. \A u \in Tip : Closed(u) => Closed(u)'
    BY <1>1, <1>2, <1>6 DEF Closed
  <2>4. Holding'
    BY <1>1, <2>1, <2>2, <2>3 DEF Ownership, Holding
  <2>5. Learning'
    BY <1>1, <2>1, <2>2 DEF Ownership, Learning
  <2>6. Answering' /\ Writing'
    BY <1>1, <1>4, <2>1 DEF Ownership, Answering, Writing
  <2>7. Asking'
    <3> SUFFICES ASSUME r.kind # "create", r.epoch = host.epoch, Found(r.session)
                 PROVE  host.sessions[r.session].field = r.field
      BY <1>1, <1>4 DEF Asking, Found
    <3>1. r.session # 0
      BY <1>2, <1>3 DEF StateOK, TipState
    <3>2. ~Closed(t)
      BY <1>1, <1>2 DEF Closed
    <3> QED
      BY <1>3, <1>11, <3>1, <3>2, HeldIsOwned DEF Owned, FieldOf
  <2> QED
    BY <2>4, <2>5, <2>6, <2>7 DEF Ownership
<1> QED
  BY <1>1, <1>8, <1>9, <1>10, <1>11 DEF IInv

(* The answer tells a session that is the text service's own, or closes it. *)
LEMMA ReceiveInv == ASSUME IInv, NEW t \in Tip, Receive(t) PROVE IInv'
<1> DEFINE a == tips[t].answer
           s == Outside(AfterAnswer(tips[t], a))
<1>1. /\ a # NoAnswer /\ tips' = [tips EXCEPT ![t] = s]
      /\ UNCHANGED <<pipe, host, collided>>
  BY DEF Receive, IInv, TypeOK
<1>2. tips[t] \in TipState /\ StateOK(tips[t])
  BY DEF IInv, TypeOK
<1>3. a \in Answer /\ a.session \in Id /\ a.epoch \in Nat
  BY <1>1, <1>2 DEF TipState, Answer
<1>4. pipe.from # t /\ (pipe.state \in {"free", "open"} \/ Owner # t)
  BY <1>1, BrokerSessionsAssumption DEF IInv, TypeOK, Pipe, PipeOK, Loaded
<1>5. CASE tips[t].pc = "creating" /\ a.status = "ok"
  <2>1. s = Outside([tips[t] EXCEPT !.pc = "configuring", !.session = a.session,
                                    !.epoch = a.epoch])
    BY <1>5 DEF AfterAnswer
  <2>2. /\ s \in TipState /\ s.pc = "configuring" /\ s.session = a.session
        /\ s.epoch = a.epoch /\ s.stint = tips[t].stint /\ s.privacy = tips[t].privacy
        /\ s.answer = NoAnswer /\ s.at = "outside"
    BY <1>2, <1>3, <2>1 DEF TipState, Outside
  <2> HIDE DEF s
  <2>3. StateOK(s)
    BY <1>1, <1>2, <1>5, <2>2 DEF StateOK
  <2>4. ~collided /\ s.session # 0 /\ s.epoch = host.epoch
          => Owned(s.session, [owner |-> t, stint |-> s.stint], s.privacy)
    BY <1>1, <1>5, <2>2 DEF IInv, Ownership, Learning, Owns, FieldOf
  <2> QED
    BY <1>1, <1>4, <2>2, <2>3, <2>4, QuietStep
<1>6. CASE tips[t].pc = "closing"
  <2>1. s = Outside(Forgotten(tips[t]))
    BY <1>6 DEF AfterAnswer
  <2>2. /\ s \in TipState /\ s.pc = "idle" /\ s.session = 0 /\ s.epoch = 0
        /\ s.answer = NoAnswer /\ s.at = "outside"
    BY <1>2, <2>1, ForgottenTyped
  <2> HIDE DEF s
  <2>3. StateOK(s)
    BY <1>2, <2>2 DEF StateOK, IInv, TypeOK
  <2> QED
    BY <1>1, <1>4, <2>2, <2>3, QuietStep
<1>7. CASE tips[t].pc # "closing" /\ ~(tips[t].pc = "creating" /\ a.status = "ok")
  <2>1. /\ s \in TipState /\ s.session = tips[t].session /\ s.epoch = tips[t].epoch
        /\ s.stint = tips[t].stint /\ s.answer = NoAnswer
        /\ s.session # 0 => s.privacy = tips[t].privacy
        /\ s.pc = "idle" \/ (s.pc = "closing" /\ s.session # 0)
        /\ s.at = "outside"
    <3>1. CASE tips[t].pc = "typing" /\ a.status = "notFound"
      BY <1>2, <3>1 DEF AfterAnswer, Abandon, TipState, Privacy, Outside
    <3>2. CASE ~(tips[t].pc = "typing" /\ a.status = "notFound")
      <4>1. s = Outside([tips[t] EXCEPT !.pc = "idle"])
        BY <1>7, <3>2 DEF AfterAnswer
      <4> QED
        BY <1>2, <4>1 DEF TipState, Outside
    <3> QED
      BY <3>1, <3>2
  <2> HIDE DEF s
  <2>2. StateOK(s)
    BY <1>2, <2>1 DEF StateOK
  <2>3. ~Closed(t)
    BY <1>7 DEF Closed
  <2>4. ~collided /\ s.session # 0 /\ s.epoch = host.epoch
          => Owned(s.session, [owner |-> t, stint |-> s.stint], s.privacy)
    BY <2>1, <2>3, HeldIsOwned
  <2> QED
    BY <1>1, <1>4, <2>1, <2>2, <2>4, QuietStep
<1> QED
  BY <1>5, <1>6, <1>7

(* The text service goes on without an answer; its request may stay. *)
LEMMA GiveUpInv == ASSUME IInv, NEW t \in Tip, GiveUp(t) PROVE IInv'
<1> DEFINE s == Outside(AfterLoss(tips[t]))
<1>1. /\ tips[t].pc # "idle" /\ tips' = [tips EXCEPT ![t] = s]
      /\ pipe' = [pipe EXCEPT !.from = IF pipe.from = t THEN NoTip ELSE pipe.from]
      /\ UNCHANGED <<host, collided>>
  BY DEF GiveUp, MayGiveUp, IInv, TypeOK, Pipe
<1>2. tips[t] \in TipState /\ StateOK(tips[t])
  BY DEF IInv, TypeOK
<1>3. /\ pipe' \in Pipe /\ pipe'.state = pipe.state /\ pipe'.request = pipe.request
      /\ pipe'.answer = pipe.answer
      /\ pipe'.from = IF pipe.from = t THEN NoTip ELSE pipe.from
  BY <1>1 DEF IInv, TypeOK, Pipe
<1>4. CASE tips[t].pc = "closing"
  <2>1. s = Outside(Forgotten(tips[t]))
    BY <1>4 DEF AfterLoss
  <2>2. /\ s \in TipState /\ s.pc = "idle" /\ s.session = 0 /\ s.epoch = 0
        /\ s.answer = NoAnswer /\ s.at = "outside"
    BY <1>2, <2>1, ForgottenTyped
  <2> HIDE DEF s
  <2>3. StateOK(s)
    BY <1>2, <2>2 DEF StateOK, IInv, TypeOK
  <2> QED
    BY <1>1, <1>3, <2>2, <2>3, TipStep
<1>5. CASE tips[t].pc # "closing"
  <2>1. /\ s \in TipState /\ s.session = tips[t].session /\ s.epoch = tips[t].epoch
        /\ s.stint = tips[t].stint /\ s.answer = NoAnswer
        /\ s.session # 0 => s.privacy = tips[t].privacy
        /\ s.pc = "idle" \/ (s.pc = "closing" /\ s.session # 0)
        /\ s.at = "outside"
    <3>1. CASE tips[t].pc = "typing"
      BY <1>2, <3>1 DEF AfterLoss, Abandon, TipState, Privacy, Outside
    <3>2. CASE tips[t].pc # "typing"
      <4>1. s = Outside([tips[t] EXCEPT !.pc = "idle"])
        BY <1>5, <3>2 DEF AfterLoss
      <4> QED
        BY <1>2, <4>1 DEF TipState, Outside
    <3> QED
      BY <3>1, <3>2
  <2> HIDE DEF s
  <2>2. StateOK(s)
    BY <1>2, <2>1 DEF StateOK
  <2>3. ~Closed(t)
    BY <1>5 DEF Closed
  <2>4. ~collided /\ s.session # 0 /\ s.epoch = host.epoch
          => Owned(s.session, [owner |-> t, stint |-> s.stint], s.privacy)
    BY <2>1, <2>3, HeldIsOwned
  <2>5. ASSUME pipe.state = "sent", pipe.request.kind = "close", pipe'.from = NoTip, Owner = t
        PROVE  s.session = 0
    <3>1. pipe.from # t
      <4> SUFFICES ASSUME pipe.from = t PROVE FALSE
        OBVIOUS
      <4>1. pipe.request = RequestOf(t)
        BY <2>5, BrokerSessionsAssumption DEF IInv, PipeOK, Loaded
      <4> QED
        BY <1>1, <1>2, <1>5, <2>5, <4>1 DEF RequestOf, TipState
    <3> QED
      BY <1>3, <2>1, <2>5, <3>1 DEF IInv, PipeOK
  <2> QED
    BY <1>1, <1>3, <2>1, <2>2, <2>4, <2>5, TipStep
<1> QED
  BY <1>4, <1>5

------------------------------------------------------------------------------
(***************************************************************************)
(* The steps of the broker process.                                        *)
(***************************************************************************)
HostTyped(h) ==
  /\ h \in [up : BOOLEAN, epoch : Nat, next : Id, sessions : {h.sessions}]
  /\ h.sessions \in [DOMAIN h.sessions -> Session]
  /\ DOMAIN h.sessions \subseteq Id \ {0}

(* The session i is for the same field in h as it is now. *)
Keeps(h, i) ==
  /\ i \in DOMAIN h.sessions
  /\ h.sessions[i].field = host.sessions[i].field
  /\ h.sessions[i].restricted = host.sessions[i].restricted

NoForeignLetter(h) ==
  \A i \in DOMAIN h.sessions : h.sessions[i].writers \subseteq {h.sessions[i].field}

(* A session that has not moved has the same owner. *)
LEMMA KeptIsOwned ==
  ASSUME NEW i, NEW f, NEW p, Owned(i, f, p), Keeps(host', i)
  PROVE  Owned(i, f, p)'
  BY DEF Owned, Found, Keeps

(* What the broker has to show of an answer: the session a "create" makes  *)
(* is the client's, and no other than that of a "close" is lost.           *)
LEMMA AnswerStep ==
  ASSUME IInv, pipe.state = "sent", NEW status \in Status, NEW id \in Id,
         pipe' = [pipe EXCEPT !.state = "answered",
                    !.answer = [status |-> status, session |-> id, epoch |-> host.epoch]],
         UNCHANGED tips, collided' \in BOOLEAN, collided => collided',
         HostTyped(host'), host'.epoch = host.epoch,
         pipe.request.kind = "create" /\ status = "ok" =>
           /\ id # 0 /\ Found(id)'
           /\ host'.sessions[id].field = pipe.request.field
           /\ host'.sessions[id].restricted = pipe.request.restricted,
         \A i : Found(i) => \/ Keeps(host', i)
                            \/ pipe.request.kind = "close" /\ i = pipe.request.session,
         ~collided' /\ pipe.request.kind # "create" /\ Found(pipe.request.session) =>
           host.sessions[pipe.request.session].field = pipe.request.field,
         ~collided' => NoForeignLetter(host')
  PROVE  IInv'
<1> DEFINE a == [status |-> status, session |-> id, epoch |-> host.epoch]
<1>1. a \in Answer
  BY DEF IInv, TypeOK, Answer
<1>2. /\ pipe' \in Pipe /\ pipe'.state = "answered" /\ pipe'.from = pipe.from
      /\ pipe'.request = pipe.request /\ pipe'.answer = a
  BY <1>1 DEF IInv, TypeOK, Pipe
<1>3. a.status = status /\ a.session = id /\ a.epoch = host.epoch
  OBVIOUS
<1> HIDE DEF a
<1>4. /\ pipe.request \in Request /\ pipe.from \in {NoTip, Owner}
      /\ tips[Owner].answer = NoAnswer /\ Owner \in Tip
  BY DEF IInv, PipeOK, Owner, Request, Field, Loaded
<1>5. pipe.from # NoTip => /\ tips[pipe.from].pc # "idle" /\ tips[pipe.from].at = "sent"
                           /\ tips[pipe.from].answer = NoAnswer
                           /\ pipe.request = RequestOf(pipe.from)
                           /\ pipe.from = Owner
  BY <1>4 DEF IInv, PipeOK, Loaded
<1>6. TypeOK'
  BY <1>2 DEF IInv, TypeOK, HostTyped
<1>7. PipeOK'
  <2>1. Owner' = Owner
    BY <1>2 DEF Owner
  <2>2. pipe.from # NoTip => (pipe.request = RequestOf(pipe.from))'
    BY <1>2, <1>5 DEF RequestOf, FieldOf
  <2> QED
    BY <1>1, <1>2, <1>3, <1>4, <1>5, <2>1, <2>2 DEF PipeOK, Loaded
<1>8. \A u \in Tip : StateOK(tips[u])'
  BY DEF IInv, StateOK
<1>9. ASSUME ~collided' PROVE Ownership'
  <2>1. Ownership
    BY <1>9 DEF IInv
  <2>2. ASSUME NEW t \in Tip, NEW i, Owns(t, i), ~Keeps(host', i)
        PROVE  Owner = t /\ pipe.request.kind = "close" /\ pipe.request.session = i
    <3>1. pipe.request.kind = "close" /\ i = pipe.request.session /\ Found(i)
      BY <2>2 DEF Owns, Owned
    <3>2. host.sessions[i].field = pipe.request.field
      BY <1>9, <3>1
    <3> QED
      BY <2>2, <3>1, <3>2 DEF Owns, Owned, FieldOf, Owner
  <2>3. Holding'
    <3> SUFFICES ASSUME NEW t \in Tip, tips[t].session # 0, tips[t].epoch = host.epoch,
                        ~Closed(t)'
                 PROVE  Owns(t, tips[t].session)'
      BY DEF Holding
    <3>1. ~Closed(t)
      BY <1>2 DEF Closed
    <3>2. Owns(t, tips[t].session)
      BY <2>1, <3>1 DEF Ownership, Holding
    <3>3. Keeps(host', tips[t].session)
      <4> SUFFICES ASSUME ~Keeps(host', tips[t].session) PROVE FALSE
        OBVIOUS
      <4>1. Owner = t /\ pipe.request.kind = "close"
        BY <2>2, <3>2
      <4>2. CASE pipe.from = NoTip
        BY <4>1, <4>2 DEF IInv, PipeOK
      <4>3. CASE pipe.from = t
        <5>1. pipe.request = RequestOf(t) /\ tips[t].pc # "idle" /\ tips[t] \in TipState
          BY <1>5, <4>3, BrokerSessionsAssumption DEF IInv, TypeOK
        <5>2. tips[t].pc = "closing"
          BY <4>1, <5>1 DEF RequestOf, TipState
        <5> QED
          BY <1>2, <4>3, <5>2 DEF Closed
      <4> QED
        BY <1>4, <4>1, <4>2, <4>3
    <3> QED
      BY <3>2, <3>3, KeptIsOwned DEF Owns, FieldOf
  <2>4. Learning'
    <3> SUFFICES ASSUME NEW t \in Tip, tips[t].pc = "creating", tips[t].answer # NoAnswer,
                        tips[t].answer.status = "ok", tips[t].answer.epoch = host.epoch
                 PROVE  Owns(t, tips[t].answer.session)'
      BY DEF Learning
    <3>1. Owns(t, tips[t].answer.session)
      BY <2>1 DEF Ownership, Learning
    <3>2. Keeps(host', tips[t].answer.session)
      BY <1>4, <2>2, <3>1
    <3> QED
      BY <3>1, <3>2, KeptIsOwned DEF Owns, FieldOf
  <2>5. Answering'
    <3> SUFFICES ASSUME pipe.from # NoTip, pipe.request.kind = "create", status = "ok"
                 PROVE  Owns(pipe.from, pipe.answer.session)'
      BY <1>2, <1>3 DEF Answering
    <3>1. /\ Found(id)' /\ host'.sessions[id].field = pipe.request.field
          /\ host'.sessions[id].restricted = pipe.request.restricted
      OBVIOUS
    <3>2. /\ pipe.request.field = FieldOf(pipe.from)
          /\ pipe.request.restricted = (tips[pipe.from].privacy = "restricted")
      BY <1>5 DEF RequestOf
    <3> QED
      BY <1>2, <1>3, <3>1, <3>2 DEF Owns, Owned, FieldOf
  <2>6. Asking'
    BY <1>2 DEF Asking
  <2>7. Writing'
    BY <1>9 DEF Writing, NoForeignLetter
  <2> QED
    BY <2>3, <2>4, <2>5, <2>6, <2>7 DEF Ownership
<1> QED
  BY <1>6, <1>7, <1>8, <1>9 DEF IInv

(* CreateSession adds a session for the field of the request. *)
LEMMA CreateKeeps ==
  ASSUME IInv, NEW r \in Request, NEW id \in Id, NextId(id)
  PROVE  LET h == WithSession(id, r) IN
         /\ HostTyped(h) /\ h.epoch = host.epoch /\ id # 0
         /\ id \in DOMAIN h.sessions /\ h.sessions[id].field = r.field
         /\ h.sessions[id].restricted = r.restricted
         /\ \A i : Found(i) => Keeps(h, i)
         /\ NoForeignLetter(host) => NoForeignLetter(h)
<1> DEFINE new == [field |-> r.field, restricted |-> r.restricted, writers |-> {}]
           all == [i \in DOMAIN host.sessions \cup {id} |->
                     IF i = id THEN new ELSE host.sessions[i]]
           h == WithSession(id, r)
<1>1. HostTyped(host) /\ id # 0 /\ ~Found(id)
  BY DEF IInv, TypeOK, HostTyped, NextId
<1>2. new \in Session
  BY DEF Session, Request
<1>3. (id + 1) % Width \in Id
  BY BrokerSessionsAssumption DEF Id
<1>4. /\ h.sessions = all /\ h.epoch = host.epoch
      /\ h \in [up : BOOLEAN, epoch : Nat, next : Id, sessions : {h.sessions}]
  BY <1>1, <1>3 DEF WithSession, HostTyped
<1>5. new.field = r.field /\ new.restricted = r.restricted /\ new.writers = {}
  OBVIOUS
<1> HIDE DEF h, new
<1>6. /\ DOMAIN all = DOMAIN host.sessions \cup {id} /\ all[id] = new
      /\ \A i \in DOMAIN host.sessions : all[i] = host.sessions[i]
  BY <1>1 DEF Found
<1>7. all \in [DOMAIN all -> Session]
  BY <1>1, <1>2 DEF HostTyped
<1> HIDE DEF all
<1>8. HostTyped(h)
  BY <1>1, <1>4, <1>6, <1>7 DEF HostTyped
<1>9. \A i : Found(i) => Keeps(h, i)
  BY <1>4, <1>6 DEF Found, Keeps
<1>10. NoForeignLetter(host) => NoForeignLetter(h)
  BY <1>4, <1>5, <1>6 DEF NoForeignLetter
<1> QED
  BY <1>1, <1>4, <1>5, <1>6, <1>8, <1>9, <1>10 DEF h

(* CloseSession removes the session and touches no other. *)
LEMMA CloseKeeps ==
  ASSUME IInv, NEW id
  PROVE  LET h == WithoutSession(id) IN
         /\ HostTyped(h) /\ h.epoch = host.epoch
         /\ \A i : Found(i) => Keeps(h, i) \/ i = id
         /\ NoForeignLetter(host) => NoForeignLetter(h)
<1> DEFINE rest == [i \in DOMAIN host.sessions \ {id} |-> host.sessions[i]]
           h == WithoutSession(id)
<1>1. HostTyped(host)
  BY DEF IInv, TypeOK, HostTyped
<1>2. /\ h.sessions = rest /\ h.epoch = host.epoch
      /\ h \in [up : BOOLEAN, epoch : Nat, next : Id, sessions : {h.sessions}]
  BY <1>1 DEF WithoutSession, HostTyped
<1> HIDE DEF h
<1>3. /\ DOMAIN rest = DOMAIN host.sessions \ {id}
      /\ \A i \in DOMAIN rest : rest[i] = host.sessions[i]
      /\ rest \in [DOMAIN rest -> Session]
  BY <1>1 DEF HostTyped
<1> HIDE DEF rest
<1>4. HostTyped(h)
  BY <1>1, <1>2, <1>3 DEF HostTyped
<1>5. \A i : Found(i) => Keeps(h, i) \/ i = id
  BY <1>2, <1>3 DEF Found, Keeps
<1>6. NoForeignLetter(host) => NoForeignLetter(h)
  BY <1>2, <1>3 DEF NoForeignLetter
<1> QED
  BY <1>2, <1>4, <1>5, <1>6 DEF h

(* A letter goes into the session it names, which is for its field. *)
LEMMA LetterKeeps ==
  ASSUME IInv, NEW r \in Request, NEW id, Found(id)
  PROVE  LET h == WithLetter(id, r) IN
         /\ HostTyped(h) /\ h.epoch = host.epoch
         /\ \A i : Found(i) => Keeps(h, i)
         /\ NoForeignLetter(host) /\ host.sessions[id].field = r.field => NoForeignLetter(h)
<1> DEFINE old == host.sessions[id]
           new == [old EXCEPT !.writers = @ \cup {r.field}]
           all == [host.sessions EXCEPT ![id] = new]
           h == WithLetter(id, r)
<1>1. HostTyped(host) /\ old \in Session
  BY DEF IInv, TypeOK, HostTyped, Found
<1>2. /\ new \in Session /\ new.field = old.field /\ new.restricted = old.restricted
      /\ new.writers = old.writers \cup {r.field}
  BY <1>1 DEF Session, Request
<1>3. /\ h.sessions = all /\ h.epoch = host.epoch
      /\ h \in [up : BOOLEAN, epoch : Nat, next : Id, sessions : {h.sessions}]
  <2>1. h = [host EXCEPT !.sessions = all]
    BY <1>1 DEF WithLetter, HostTyped
  <2> HIDE DEF all, h
  <2> QED
    BY <1>1, <2>1 DEF HostTyped
<1> HIDE DEF h, new
<1>4. /\ DOMAIN all = DOMAIN host.sessions /\ all[id] = new
      /\ \A i \in DOMAIN all : i # id => all[i] = host.sessions[i]
      /\ all \in [DOMAIN all -> Session]
  BY <1>1, <1>2 DEF HostTyped, Found
<1> HIDE DEF all
<1>5. HostTyped(h)
  BY <1>1, <1>3, <1>4 DEF HostTyped
<1>6. \A i : Found(i) => Keeps(h, i)
  BY <1>2, <1>3, <1>4 DEF Found, Keeps
<1>7. NoForeignLetter(host) /\ old.field = r.field => NoForeignLetter(h)
  BY <1>2, <1>3, <1>4 DEF NoForeignLetter, Found
<1> QED
  BY <1>3, <1>5, <1>6, <1>7 DEF h

(* Handle, for every request that may be in the pipe. *)
LEMMA ServeInv == ASSUME IInv, Serve PROVE IInv'
<1>1. /\ pipe.state = "sent" /\ UNCHANGED tips
      /\ collided' = (collided \/ /\ pipe.request.kind # "create"
                                  /\ pipe.request.epoch # host.epoch
                                  /\ Found(pipe.request.session))
  BY DEF Serve
<1>2. PICK status \in Status, id \in Id :
        /\ Handle(pipe.request, host', status, id)
        /\ pipe' = [pipe EXCEPT !.state = "answered",
                      !.answer = [status |-> status, session |-> id, epoch |-> host.epoch]]
  BY DEF Serve
<1>3. pipe.request \in Request
  BY <1>1 DEF IInv, PipeOK, Loaded
<1>4. collided' \in BOOLEAN /\ (collided => collided')
  BY <1>1 DEF IInv, TypeOK
<1>5. ~collided' => NoForeignLetter(host) /\ Asking
  BY <1>1 DEF IInv, Ownership, Writing, NoForeignLetter
<1>6. ~collided' /\ pipe.request.kind # "create" /\ Found(pipe.request.session) =>
        host.sessions[pipe.request.session].field = pipe.request.field
  BY <1>1, <1>5 DEF Asking
<1>7. HostTyped(host) /\ \A i : Found(i) => Keeps(host, i)
  BY DEF IInv, TypeOK, HostTyped, Keeps, Found
<1>8. ASSUME HostTyped(host'), host'.epoch = host.epoch,
             pipe.request.kind = "create" /\ status = "ok" =>
               /\ id # 0 /\ Found(id)'
               /\ host'.sessions[id].field = pipe.request.field
               /\ host'.sessions[id].restricted = pipe.request.restricted,
             \A i : Found(i) => \/ Keeps(host', i)
                                \/ pipe.request.kind = "close" /\ i = pipe.request.session,
             ~collided' => NoForeignLetter(host')
      PROVE  IInv'
  BY <1>1, <1>2, <1>4, <1>6, <1>8, AnswerStep
<1>9. CASE pipe.request.kind = "create"
  <2>1. CASE NextId(id) /\ host' = WithSession(id, pipe.request)
    BY <1>3, <1>5, <1>8, <2>1, CreateKeeps DEF Found
  <2>2. CASE host' = host /\ status = "error"
    BY <1>5, <1>7, <1>8, <2>2
  <2> QED
    BY <1>2, <1>9, <2>1, <2>2 DEF Handle, HandleCreate
<1>10. CASE pipe.request.kind # "create"
  <2>1. CASE host' = host
    BY <1>5, <1>7, <1>8, <1>10, <2>1
  <2>2. CASE pipe.request.kind = "close" /\ host' = WithoutSession(pipe.request.session)
    BY <1>5, <1>8, <2>2, CloseKeeps
  <2>3. CASE /\ pipe.request.kind = "letter" /\ Found(pipe.request.session)
             /\ host' = WithLetter(pipe.request.session, pipe.request)
    BY <1>3, <1>5, <1>6, <1>8, <2>3, LetterKeeps
  <2> QED
    BY <1>2, <1>10, <2>1, <2>2, <2>3 DEF Handle, HandleSession
<1> QED
  BY <1>9, <1>10

(* The answer reaches the client that waits; what was the broker's to say  *)
(* of the session is now the client's to know.                             *)
LEMMA DeliverInv == ASSUME IInv, Deliver PROVE IInv'
<1> DEFINE t == pipe.from
           s == [tips[t] EXCEPT !.answer = pipe.answer]
<1>1. /\ pipe.state = "answered" /\ pipe' = FreePipe /\ UNCHANGED <<host, collided>>
      /\ tips' = IF t = NoTip THEN tips ELSE [tips EXCEPT ![t].answer = pipe.answer]
  BY DEF Deliver, Disconnected
<1>2. pipe' \in Pipe /\ pipe'.state = "free" /\ pipe'.from = NoTip
  BY <1>1 DEF Pipe, FreePipe
<1>3. PipeOK'
  BY <1>2 DEF PipeOK, Loaded
<1>4. Answering' /\ Asking'
  BY <1>2 DEF Answering, Asking
<1>5. pipe.answer \in Answer /\ pipe.answer # NoAnswer /\ pipe.answer.epoch = host.epoch
  BY <1>1, AnswerIsSome DEF IInv, PipeOK
<1>6. CASE t = NoTip
  <2>1. tips' = tips
    BY <1>1, <1>6
  <2>2. TypeOK' /\ \A u \in Tip : StateOK(tips[u])'
    BY <1>1, <1>2, <2>1 DEF IInv, TypeOK, StateOK
  <2>3. \A u \in Tip : Closed(u) => Closed(u)'
    BY <1>6, <2>1, BrokerSessionsAssumption DEF Closed
  <2>4. ASSUME ~collided PROVE Holding' /\ Learning' /\ Writing'
    <3>1. Ownership /\ UNCHANGED <<tips, host>>
      BY <1>1, <2>1, <2>4 DEF IInv
    <3>2. \A u \in Tip : \A i : Owns(u, i) => Owns(u, i)'
      BY <3>1 DEF Owns, Owned, Found, FieldOf
    <3>3. Holding'
      BY <2>3, <3>1, <3>2 DEF Ownership, Holding
    <3>4. Learning'
      BY <3>1, <3>2 DEF Ownership, Learning
    <3>5. Writing'
      BY <3>1 DEF Ownership, Writing
    <3> QED
      BY <3>3, <3>4, <3>5
  <2> QED
    BY <1>1, <1>3, <1>4, <2>2, <2>4 DEF IInv, Ownership
<1>7. CASE t # NoTip
  <2>1. /\ t \in Tip /\ tips[t] \in TipState /\ StateOK(tips[t])
        /\ tips[t].pc # "idle" /\ pipe.request = RequestOf(t)
        /\ tips[t].at = "sent"
    BY <1>1, <1>7 DEF IInv, TypeOK, Pipe, PipeOK, Loaded
  <2>2. /\ s \in TipState /\ s.pc = tips[t].pc /\ s.at = tips[t].at /\ s.session = tips[t].session
        /\ s.epoch = tips[t].epoch /\ s.stint = tips[t].stint
        /\ s.privacy = tips[t].privacy /\ s.answer = pipe.answer
    BY <1>5, <2>1 DEF TipState
  <2>3. tips' = [tips EXCEPT ![t] = s]
    BY <1>1, <1>7, <2>1 DEF IInv, TypeOK
  <2> HIDE DEF s
  <2>4. tips'[t] = s /\ \A u \in Tip : u # t => tips'[u] = tips[u]
    BY <2>1, <2>3 DEF IInv, TypeOK
  <2>5. tips[t].pc = "creating" => pipe.request.kind = "create"
    BY <2>1 DEF RequestOf
  <2>6. TypeOK'
    BY <1>1, <1>2, <2>2, <2>3 DEF IInv, TypeOK
  <2>7. \A u \in Tip : StateOK(tips[u])'
    <3>1. host.epoch \in Nat
      BY DEF IInv, TypeOK
    <3>2. /\ pipe.answer.epoch <= host.epoch
          /\ s.pc = "creating" /\ pipe.answer.status = "ok" => pipe.answer.session # 0
      BY <1>1, <1>5, <2>2, <2>5, <3>1 DEF IInv, PipeOK
    <3>3. StateOK(s)
      <4>1. /\ s.pc # "idle" /\ s.at = "sent"
            /\ s.pc = "creating" => s.session = 0
            /\ s.pc \in {"configuring", "typing", "closing"} => s.session # 0
            /\ s.epoch <= host.epoch
        BY <2>1, <2>2 DEF StateOK
      <4> QED
        BY <2>2, <3>2, <4>1 DEF StateOK
    <3> SUFFICES ASSUME NEW u \in Tip PROVE StateOK(tips[u])'
      OBVIOUS
    <3>4. CASE u = t
      <4>1. tips'[u] = s /\ host' = host
        BY <1>1, <2>4, <3>4
      <4> QED
        BY <3>3, <4>1 DEF StateOK
    <3>5. CASE u # t
      <4>1. tips'[u] = tips[u] /\ host' = host /\ StateOK(tips[u])
        BY <1>1, <2>4, <3>5 DEF IInv
      <4> QED
        BY <4>1 DEF StateOK
    <3> QED
      BY <3>4, <3>5
  <2>8. ASSUME ~collided PROVE Holding' /\ Learning' /\ Writing'
    <3>1. Ownership
      BY <2>8 DEF IInv
    <3>2. \A u \in Tip : Closed(u) => Closed(u)'
      BY <1>5, <2>2, <2>4 DEF Closed
    <3>3. \A u \in Tip : /\ tips'[u].session = tips[u].session
                         /\ tips'[u].epoch = tips[u].epoch
                         /\ \A i : Owns(u, i) => Owns(u, i)'
      BY <1>1, <2>2, <2>4 DEF Owns, Owned, Found, FieldOf
    <3>4. Holding'
      BY <1>1, <3>1, <3>2, <3>3 DEF Ownership, Holding
    <3>5. Learning'
      <4> SUFFICES ASSUME NEW u \in Tip, tips'[u].pc = "creating", tips'[u].answer # NoAnswer,
                          tips'[u].answer.status = "ok", tips'[u].answer.epoch = host.epoch
                   PROVE  Owns(u, tips[u].answer.session)'
        BY <1>1 DEF Learning
      <4>1. CASE u = t
        <5>1. Owns(t, pipe.answer.session)
          BY <1>1, <1>7, <2>2, <2>4, <2>5, <3>1, <4>1 DEF Ownership, Answering
        <5> QED
          BY <2>1, <2>2, <2>4, <3>3, <4>1, <5>1 DEF Owns, Owned, Found, FieldOf
      <4>2. CASE u # t
        <5>1. tips'[u] = tips[u] /\ Owns(u, tips[u].answer.session)
          BY <2>4, <3>1, <4>2 DEF Ownership, Learning
        <5> QED
          BY <1>1, <5>1 DEF Owns, Owned, Found, FieldOf
      <4> QED
        BY <4>1, <4>2
    <3>6. Writing'
      BY <1>1, <3>1 DEF Ownership, Writing
    <3> QED
      BY <3>4, <3>5, <3>6
  <2> QED
    BY <1>1, <1>3, <1>4, <2>6, <2>7, <2>8 DEF IInv, Ownership
<1> QED
  BY <1>6, <1>7

(* A round that ends before the request is handled leaves no trace. *)
LEMMA DropInv == ASSUME IInv, Drop PROVE IInv'
<1>1. /\ pipe.state \in {"sent", "open"} /\ pipe' = FreePipe /\ UNCHANGED <<tips, host, collided>>
  BY DEF Drop, Disconnected
<1>2. pipe' \in Pipe /\ pipe'.state = "free" /\ pipe'.from = NoTip
  BY <1>1 DEF Pipe, FreePipe
<1>3. TypeOK' /\ \A u \in Tip : StateOK(tips[u])'
  BY <1>1, <1>2 DEF IInv, TypeOK, StateOK
<1>4. PipeOK' /\ Answering' /\ Asking'
  BY <1>2 DEF PipeOK, Loaded, Answering, Asking
<1>5. \A u \in Tip : Closed(u) => Closed(u)'
  BY <1>1 DEF Closed
<1>6. ~collided => Holding' /\ Learning' /\ Writing'
  BY <1>1, <1>5 DEF IInv, Ownership, Holding, Learning, Writing, Owns, Owned, Found, FieldOf
<1> QED
  BY <1>1, <1>3, <1>4, <1>6 DEF IInv, Ownership

(* The end of a broker process makes every number an old one. *)
LEMMA BrokerExitsInv == ASSUME IInv, BrokerExits PROVE IInv'
<1>1. /\ host' = [up |-> FALSE, epoch |-> host.epoch + 1, next |-> 1,
                  sessions |-> [id \in {} |-> 0]]
      /\ pipe' = FreePipe /\ UNCHANGED <<tips, collided>>
  BY DEF BrokerExits
<1>2. pipe' \in Pipe /\ pipe'.state = "free" /\ pipe'.from = NoTip
  BY <1>1 DEF Pipe, FreePipe
<1>3. host.epoch \in Nat /\ host'.epoch = host.epoch + 1 /\ DOMAIN host'.sessions = {}
  BY <1>1 DEF IInv, TypeOK
<1>4. TypeOK'
  <2>1. 1 \in Id
    BY BrokerSessionsAssumption DEF Id
  <2>2. host' \in [up : BOOLEAN, epoch : Nat, next : Id, sessions : {host'.sessions}]
    BY <1>1, <1>3, <2>1
  <2>3. host'.sessions \in [DOMAIN host'.sessions -> Session]
    BY <1>1, <1>3
  <2> QED
    BY <1>1, <1>2, <1>3, <2>2, <2>3 DEF IInv, TypeOK
<1>5. \A u \in Tip : /\ tips[u].epoch \in Nat /\ tips[u].epoch <= host.epoch
                     /\ tips[u].answer # NoAnswer => /\ tips[u].answer.epoch \in Nat
                                                     /\ tips[u].answer.epoch <= host.epoch
  BY DEF IInv, TypeOK, TipState, StateOK, Answer
<1>6. \A u \in Tip : StateOK(tips[u])'
  <2> SUFFICES ASSUME NEW u \in Tip PROVE StateOK(tips[u])'
    OBVIOUS
  <2>1. tips[u].epoch <= host'.epoch
        /\ (tips[u].answer # NoAnswer => tips[u].answer.epoch <= host'.epoch)
    BY <1>3, <1>5
  <2> QED
    BY <1>1, <2>1 DEF IInv, StateOK
<1>7. PipeOK' /\ Answering' /\ Asking'
  BY <1>2 DEF PipeOK, Loaded, Answering, Asking
<1>8. Holding' /\ Learning'
  BY <1>1, <1>3, <1>5 DEF Holding, Learning
<1>9. Writing'
  BY <1>3 DEF Writing
<1> QED
  BY <1>4, <1>6, <1>7, <1>8, <1>9 DEF IInv, Ownership

(* The next broker process is the one the numbers are counted for. *)
LEMMA BrokerStartsInv == ASSUME IInv, BrokerStarts PROVE IInv'
<1>1. /\ host' = [host EXCEPT !.up = TRUE] /\ UNCHANGED <<tips, pipe, collided>>
  BY DEF BrokerStarts
<1>2. /\ host'.epoch = host.epoch /\ host'.sessions = host.sessions
      /\ host' \in [up : BOOLEAN, epoch : Nat, next : Id, sessions : {host'.sessions}]
  BY <1>1 DEF IInv, TypeOK
<1>3. TypeOK'
  BY <1>1, <1>2 DEF IInv, TypeOK
<1>4. PipeOK'
  BY <1>1, <1>2 DEF IInv, PipeOK, Owner, RequestOf, FieldOf, Loaded
<1>5. \A u \in Tip : StateOK(tips[u])'
  BY <1>1, <1>2 DEF IInv, StateOK
<1>6. ~collided => Ownership'
  BY <1>1, <1>2 DEF IInv, Ownership, Holding, Learning, Answering, Asking, Writing, Closed,
                    Owns, Owned, Found, FieldOf
<1> QED
  BY <1>1, <1>3, <1>4, <1>5, <1>6 DEF IInv

------------------------------------------------------------------------------
(* Every step of Next, and every stutter. *)
LEMMA StepInv == ASSUME IInv, [Next]_vars PROVE IInv'
<1>1. ASSUME NEW t \in Tip, Connect(t) \/ Send(t) PROVE IInv'
  BY <1>1, ConnectInv, SendInv
<1>2. ASSUME NEW t \in Tip, Receive(t) PROVE IInv'
  BY <1>2, ReceiveInv
<1>3. ASSUME NEW t \in Tip, GiveUp(t) PROVE IInv'
  BY <1>3, GiveUpInv
<1>4. ASSUME NEW t \in Tip,
             \/ EnterField(t) \/ LeaveField(t) \/ CreateSession(t) \/ TypeLetter(t)
      PROVE  IInv'
  BY <1>4, FieldInv
<1>5. CASE Serve \/ Deliver \/ Drop
  BY <1>5, ServeInv, DeliverInv, DropInv
<1>6. CASE BrokerExits \/ BrokerStarts
  BY <1>6, BrokerExitsInv, BrokerStartsInv
<1>7. CASE UNCHANGED vars
  <2>1. UNCHANGED <<tips, pipe, host, collided>>
    BY <1>7 DEF vars
  <2>2. TypeOK' /\ PipeOK'
    BY <2>1 DEF IInv, TypeOK, PipeOK, Owner, RequestOf, FieldOf, Loaded
  <2>3. \A u \in Tip : StateOK(tips[u])'
    BY <2>1 DEF IInv, StateOK
  <2>4. ~collided => Ownership'
    BY <2>1 DEF IInv, Ownership, Holding, Learning, Answering, Asking, Writing, Closed,
                Owns, Owned, Found, FieldOf
  <2> QED
    BY <2>1, <2>2, <2>3, <2>4 DEF IInv
<1> QED
  BY <1>1, <1>2, <1>3, <1>4, <1>5, <1>6, <1>7, Zenon DEF Next

(* What the invariant is for: who holds a session does not close it. *)
LEMMA InvariantParts == ASSUME IInv PROVE TypeOK /\ IsolatedUnlessCollision
<1>1. ASSUME ~collided, NEW t \in Tip, Holds(t)
      PROVE  Owns(t, tips[t].session)
  BY <1>1 DEF IInv, Ownership, Holding, Holds, Closed
<1>2. ASSUME ~collided PROVE Writing
  BY <1>2 DEF IInv, Ownership
<1>3. TypeOK
  BY DEF IInv
<1> QED
  BY <1>1, <1>2, <1>3 DEF IsolatedUnlessCollision, SessionsIsolated, Owns, Owned, Writing

(* Hence the invariant holds in every behaviour. *)
LEMMA SpecInv == Spec => []IInv
<1>1. Init => IInv
  BY InitInv
<1>2. IInv /\ [Next]_vars => IInv'
  BY StepInv
<1> QED
  BY <1>1, <1>2, PTL DEF Spec

(* The state is well typed: in particular a session never has the number   *)
(* 0, however often the numbers wrap around.                               *)
THEOREM TypeCorrect == Spec => []TypeOK
  BY SpecInv, InvariantParts, PTL

(* Isolation is lost only through a number that outlived its broker        *)
(* process, for every number of text services, fields, session numbers and *)
(* ends of the broker process.                                             *)
THEOREM IsolatedUnlessCollisionAlways == Spec => []IsolatedUnlessCollision
  BY SpecInv, InvariantParts, PTL
==============================================================================
