----------------------------- MODULE DeliveryProofs -----------------------------
(***************************************************************************)
(* The inductive invariant IInv of Delivery, and what follows from it:     *)
(* types, what memory holds, what a prompt is made of, one final output    *)
(* per request, what a user reads again, what is never sent, and that      *)
(* Delivery implements ReliableDelivery.                                   *)
(***************************************************************************)
EXTENDS Delivery, FiniteSetTheorems, SequenceTheorems, TLAPS

-----------------------------------------------------------------------------
(* The invariant.                                                          *)

\* Where a coroutine holds the memory lock, and where it will answer.
Inside  == {"registered", "forgot", "backend", "answered"}
Working == {"registered", "forgot", "backend"}

Registered(m) == request[m].status # "absent"

\* A coroutine has a message; inside the lock it has the lock and a registered message,
\* whose persisted intent is the one it executes.
Sound(w) ==
    /\ task[w].pc # "idle" => task[w].req \in Messages
    /\ task[w].pc \in Inside => lock[ConvOf(task[w].req)] = w
    /\ task[w].pc \in Inside \cup {"reported"} => Registered(task[w].req)
    /\ task[w].pc = "forgot" => request[task[w].req].intent = "forget"
    /\ task[w].pc = "backend" => request[task[w].req].intent \in {"chat", "query"}
    /\ flush.by = w => task[w].pc = "flushing"

\* Only one coroutine is between two transactions, and none is anywhere while start()
\* recovers, which is before Discord delivers a message.
TasksOK ==
    /\ \A w \in Workers : Sound(w)
    /\ \A w, u \in Workers : {task[w].pc, task[u].pc} \subseteq Synchronous => w = u
    /\ task[Starter].pc \in Inside \cup {"idle", "lock", "failing"}
    /\ task[Starter].pc # "idle" => Registered(task[Starter].req)
    /\ ~Ready => \A t \in Tasks : task[t].pc \in {"idle", "done"}
    /\ \A m \in recovery : Registered(m)

\* The rows of requests and jobs, and the order of registration.
RequestsOK ==
    /\ \A m \in Messages :
          /\ Registered(m) => \E n \in DOMAIN arrival : arrival[n] = m
          /\ request[m].gen <= gen[ConvOf(m)]
          /\ request[m].intent \in {"none", IntentOf(m)}
          /\ job[m] # "none" => Registered(m) /\ m \in JobMessages
          /\ request[m].status = "completed" => HasFinal(out, m)
    /\ \A n \in DOMAIN arrival : Registered(arrival[n])
    /\ \A n, k \in DOMAIN arrival : arrival[n] = arrival[k] => n = k

\* The row o: its parts are acknowledged from the first on, and it is done with the last
\* one; a waiting message may be done before.
RowOK(o) ==
    /\ o.remember => o.kind = "response"
    /\ \E n \in 0..o.size : o.acked = 1..n
    /\ ~o.done => ~WhollyAcked(o)
    /\ o.done /\ o.kind # "progress" => WhollyAcked(o)

\* A waiting message that is not done is the latest one, and there is no answer.
Current(q, i) ==
    q[i].kind = "progress" =>
       \/ q[i].done
       \/ /\ ~HasFinal(q, q[i].req)
          /\ \A k \in DOMAIN q : k > i /\ q[k].req = q[i].req => q[k].kind # "progress"

\* The rows of the outbox.
OutboxOK ==
    \A i \in DOMAIN out : Registered(out[i].req) /\ RowOK(out[i]) /\ Current(out, i)

OneConversation(i, k) == ConvOf(out[i].req) = ConvOf(out[k].req)

\* What is shown: all that is acknowledged, at most one part more of each output, and
\* nothing of an output before all earlier ones of the conversation are done.
ShownOK ==
    /\ \A i \in DOMAIN out : \A p \in out[i].acked : IsShown(i, p)
    /\ \A n \in DOMAIN shown :
          LET i == shown[n][1]
              p == shown[n][2]
          IN  /\ p <= out[i].size
              /\ p = 1 \/ p - 1 \in out[i].acked
              /\ \A k \in DOMAIN out : k < i /\ OneConversation(k, i) => out[k].done

Earlier(x, y) == x[1] < y[1] \/ (x[1] = y[1] /\ x[2] < y[2])

\* The part that is being sent is the next one of its output, nothing earlier of the
\* conversation is pending and nothing later is shown; the rest of the snapshot holds
\* everything pending that has to come before what it holds.
FlushOK ==
    IF flush.part = NoPart THEN flush = Unflushed
    ELSE LET i == flush.part[1]
             p == flush.part[2]
         IN  /\ flush.part \in AllParts(out)
             /\ out[i].acked = 1..(p - 1)
             /\ \A k \in DOMAIN out : OneConversation(k, i) =>
                   /\ k < i => out[k].done
                   /\ k > i => \A n \in DOMAIN shown : shown[n][1] # k
             /\ \A y \in flush.todo :
                   /\ Earlier(flush.part, y)
                   /\ \A z \in AllParts(out) :
                         IsPending(out, z) /\ OneConversation(z[1], y[1]) /\ Earlier(z, y)
                         => z = flush.part \/ z \in flush.todo

\* Memory, and the memory in the prompt of a coroutine that holds the lock.
MemoryOK ==
    /\ \A m \in Messages :
          m \in exchanges <=>
             /\ \E i \in DOMAIN out : out[i].req = m /\ out[i].remember /\ out[i].done
             /\ request[m].gen = gen[ConvOf(m)]
    /\ \A w \in Workers : task[w].pc \in {"registered", "backend"} =>
          task[w].context \subseteq exchanges \cap ConvOf(task[w].req)

Confirmed == {x \in AllParts(out) : x[2] \in out[x[1]].acked}

Lost == used.losses + used.crashes

\* Each part that is shown once more is a loss or a crash.
CountOK ==
    /\ IsFiniteSet(Confirmed)
    /\ Len(shown) <= Cardinality(Confirmed) + Lost

\* Nobody can fail over an answer, or fail while another coroutine has the message.
Careful == ~Redelivery \/ MaxFailures = 0

FinalOK ==
    /\ used.failures <= MaxFailures
    /\ MaxFailures = 0 =>
          \A w \in Workers : task[w].pc \notin {"failing", "reported"}
    /\ ~Redelivery =>
          \A t, u \in Tasks : task[t].req = task[u].req /\ task[t].req # None => t = u
    /\ \A t \in Tasks : task[t].pc = "reported" => ~HasFinal(out, task[t].req)
    /\ \A w \in Workers : task[w].pc = "answered" => HasFinal(out, task[w].req)
    /\ Careful =>
          /\ OneFinalOutput
          /\ \A w \in Workers : task[w].pc \in Working => ~HasFinal(out, task[w].req)

\* A forget that is not answered is the latest message, and somebody is at it.
ForgetOK ==
    MaxFailures = 0 =>
       \A f \in Forgets : Registered(f) /\ ~HasFinal(out, f) =>
          /\ arrival # <<>> /\ arrival[Len(arrival)] = f
          /\ \/ f \in recovery
             \/ \E w \in Workers : /\ task[w].req = f
                                   /\ \/ task[w].pc \in {"registered", "forgot"}
                                      \/ w = Starter /\ task[w].pc = "lock"

IInv ==
    /\ TypeOK /\ TasksOK /\ RequestsOK /\ OutboxOK /\ ShownOK /\ FlushOK /\ MemoryOK
    /\ CountOK /\ FinalOK /\ ForgetOK

-----------------------------------------------------------------------------
(* Conversations.                                                          *)

LEMMA ConvOfMessage ==
    ASSUME NEW m \in Messages
    PROVE  ConvOf(m) \in Conversations /\ m \in ConvOf(m)
<1>1. \E c \in Conversations : m \in c
  BY DEF Messages
<1> QED
  BY <1>1 DEF ConvOf

LEMMA ConvOfMember ==
    ASSUME NEW c \in Conversations, NEW m \in c
    PROVE  m \in Messages /\ ConvOf(m) = c
<1>1. m \in Messages
  BY DEF Messages
<1> QED
  BY <1>1, ConvOfMessage, ConversationsAssumption

-----------------------------------------------------------------------------
(* The outbox.                                                             *)

LEMMA FunctionIsSeq ==
    ASSUME NEW S, NEW n \in Nat, NEW f \in [1..n -> S]
    PROVE  f \in Seq(S) /\ Len(f) = n
<1>1. f \in Seq(S)
  BY SeqDef
<1>2. DOMAIN f = 1..n /\ DOMAIN f = 1..Len(f) /\ Len(f) \in Nat
  BY <1>1, LenProperties
<1> QED
  BY <1>1, <1>2

\* What create_outbox does to a row: it may close it, and nothing else.
MayClose(o, p, closes) ==
    /\ p.req = o.req /\ p.kind = o.kind /\ p.key = o.key /\ p.size = o.size
    /\ p.acked = o.acked /\ p.remember = o.remember
    /\ p.done <=> o.done \/ closes

\* r is q with the new output o at its end.
Grows(q, r, o) ==
    /\ r \in Seq(Output) /\ Len(r) = Len(q) + 1
    /\ \A i \in DOMAIN q :
          MayClose(q[i], r[i], /\ q[i].kind = "progress" /\ q[i].req = o.req
                               /\ o.kind \in FinalKinds \cup {"progress"})
    /\ MayClose(o, r[Len(r)], o.kind = "progress" /\ HasFinal(q, o.req))

LEMMA HasFinalAppend ==
    ASSUME NEW q \in Seq(Output), NEW o \in Output, NEW m
    PROVE  HasFinal(Append(q, o), m) <=>
               HasFinal(q, m) \/ (o.req = m /\ o.kind \in FinalKinds)
<1> DEFINE r == Append(q, o)
<1>1. /\ DOMAIN r = 1..(Len(q) + 1) /\ DOMAIN q = 1..Len(q) /\ Len(q) \in Nat
      /\ \A i \in DOMAIN q : r[i] = q[i]
      /\ r[Len(q) + 1] = o
  OBVIOUS
<1> HIDE DEF r
<1>2. ASSUME HasFinal(q, m)
      PROVE  HasFinal(r, m)
  BY <1>1, <1>2 DEF HasFinal
<1>3. ASSUME o.req = m, o.kind \in FinalKinds
      PROVE  HasFinal(r, m)
  BY <1>1, <1>3 DEF HasFinal
<1>4. ASSUME HasFinal(r, m), ~HasFinal(q, m)
      PROVE  o.req = m /\ o.kind \in FinalKinds
  BY <1>1, <1>4 DEF HasFinal
<1> QED
  BY <1>2, <1>3, <1>4 DEF r

\* create_outbox returns the row under the key of o, or adds o.
LEMMA PutGrows ==
    ASSUME NEW q \in Seq(Output), NEW o \in Output
    PROVE  \/ Put(q, o) = q /\ \E i \in DOMAIN q : Same(q[i], o)
           \/ Grows(q, Put(q, o), o)
<1>1. CASE \E i \in DOMAIN q : Same(q[i], o)
  BY <1>1 DEF Put
<1>2. CASE ~\E i \in DOMAIN q : Same(q[i], o)
  <2> DEFINE a == Append(q, o)
             r == CloseSuperseded(a)
  <2>1. /\ a \in Seq(Output) /\ Len(a) = Len(q) + 1 /\ Len(q) \in Nat
        /\ DOMAIN a = 1..Len(a) /\ DOMAIN q = 1..Len(q)
        /\ \A i \in DOMAIN q : a[i] = q[i]
        /\ a[Len(a)] = o
    OBVIOUS
  <2>2. \A m : HasFinal(a, m) <=> HasFinal(q, m) \/ (o.req = m /\ o.kind \in FinalKinds)
    BY HasFinalAppend
  <2> DEFINE Closes(i) == /\ a[Len(a)].kind \in FinalKinds \cup {"progress"}
                          /\ a[i].req = a[Len(a)].req /\ a[i].kind = "progress"
                          /\ i # Len(a) \/ HasFinal(a, a[Len(a)].req)
  <2>3. r = [i \in DOMAIN a |-> IF Closes(i) THEN [a[i] EXCEPT !.done = TRUE] ELSE a[i]]
    BY DEF CloseSuperseded
  <2> HIDE DEF a, r
  <2>4. \A i \in DOMAIN a : a[i] \in Output
    BY <2>1
  <2>5. ASSUME NEW i \in DOMAIN a
        PROVE  r[i] \in Output /\ MayClose(a[i], r[i], Closes(i))
    <3> HIDE DEF Closes
    <3>1. CASE Closes(i)
      <4>1. r[i] = [a[i] EXCEPT !.done = TRUE]
        BY <2>3, <3>1
      <4> QED
        BY <2>4, <3>1, <4>1 DEF Output, MayClose
    <3>2. CASE ~Closes(i)
      <4>1. r[i] = a[i]
        BY <2>3, <3>2
      <4> QED
        BY <2>4, <3>2, <4>1 DEF MayClose
    <3> QED
      BY <3>1, <3>2
  <2>6. r \in Seq(Output) /\ Len(r) = Len(a)
    <3>1. r \in [1..Len(a) -> Output]
      BY <2>1, <2>3, <2>5
    <3> QED
      BY <2>1, <3>1, FunctionIsSeq
  <2>7. \A i \in DOMAIN q :
          Closes(i) <=> /\ q[i].kind = "progress" /\ q[i].req = o.req
                        /\ o.kind \in FinalKinds \cup {"progress"}
    BY <2>1
  <2>8. Closes(Len(a)) <=> o.kind = "progress" /\ HasFinal(q, o.req)
    BY <2>1, <2>2 DEF FinalKinds
  <2> HIDE DEF Closes
  <2>9. \A i \in DOMAIN q :
          MayClose(q[i], r[i], /\ q[i].kind = "progress" /\ q[i].req = o.req
                               /\ o.kind \in FinalKinds \cup {"progress"})
    BY <2>1, <2>5, <2>7 DEF MayClose
  <2>10. MayClose(o, r[Len(r)], o.kind = "progress" /\ HasFinal(q, o.req))
    BY <2>1, <2>5, <2>6, <2>8 DEF MayClose
  <2>11. Put(q, o) = r
    BY <1>2 DEF Put, r, a
  <2> QED
    BY <2>1, <2>6, <2>9, <2>10, <2>11 DEF Grows
<1> QED
  BY <1>1, <1>2

\* The rows of r are those of q, with more acknowledgements and more of them done.
Extends(q, r) ==
    /\ Len(q) <= Len(r)
    /\ \A i \in DOMAIN q :
          /\ r[i].req = q[i].req /\ r[i].kind = q[i].kind /\ r[i].key = q[i].key
          /\ r[i].size = q[i].size /\ r[i].remember = q[i].remember
          /\ q[i].acked \subseteq r[i].acked
          /\ q[i].done => r[i].done

LEMMA HasFinalGrows ==
    ASSUME NEW q \in Seq(Output), NEW o \in Output, NEW r, Grows(q, r, o), NEW m
    PROVE  HasFinal(r, m) <=> HasFinal(q, m) \/ (o.req = m /\ o.kind \in FinalKinds)
<1>1. /\ DOMAIN r = 1..(Len(q) + 1) /\ DOMAIN q = 1..Len(q) /\ Len(q) \in Nat
      /\ \A i \in DOMAIN q : r[i].req = q[i].req /\ r[i].kind = q[i].kind
      /\ r[Len(q) + 1].req = o.req /\ r[Len(q) + 1].kind = o.kind
  BY DEF Grows, MayClose
<1> HIDE DEF Grows
<1>2. ASSUME HasFinal(q, m)
      PROVE  HasFinal(r, m)
  BY <1>1, <1>2 DEF HasFinal
<1>3. ASSUME o.req = m, o.kind \in FinalKinds
      PROVE  HasFinal(r, m)
  BY <1>1, <1>3 DEF HasFinal
<1>4. ASSUME HasFinal(r, m), ~HasFinal(q, m)
      PROVE  o.req = m /\ o.kind \in FinalKinds
  BY <1>1, <1>4 DEF HasFinal
<1> QED
  BY <1>2, <1>3, <1>4

LEMMA GrowsExtends ==
    ASSUME NEW q \in Seq(Output), NEW o \in Output, NEW r, Grows(q, r, o)
    PROVE  Extends(q, r)
<1>1. \A i \in DOMAIN q : q[i] \in Output /\ Len(q) \in Nat
  OBVIOUS
<1> QED
  BY <1>1 DEF Grows, MayClose, Extends

LEMMA SameExtends ==
    ASSUME NEW q \in Seq(Output)
    PROVE  Extends(q, q)
<1>1. Len(q) \in Nat
  OBVIOUS
<1> QED
  BY <1>1 DEF Extends

\* An extension has every final output and every part.
LEMMA ExtendsKeeps ==
    ASSUME NEW q \in Seq(Output), NEW r \in Seq(Output), Extends(q, r)
    PROVE  /\ \A m : HasFinal(q, m) => HasFinal(r, m)
           /\ AllParts(q) \subseteq AllParts(r)
           /\ DOMAIN q \subseteq DOMAIN r
<1>1. /\ DOMAIN q = 1..Len(q) /\ DOMAIN r = 1..Len(r) /\ Len(q) \in Nat /\ Len(r) \in Nat
      /\ Len(q) <= Len(r)
  BY DEF Extends
<1>2. DOMAIN q \subseteq DOMAIN r
  BY <1>1
<1>3. \A i \in DOMAIN q : r[i].req = q[i].req /\ r[i].kind = q[i].kind /\ r[i].size = q[i].size
  BY DEF Extends
<1>4. \A m : HasFinal(q, m) => HasFinal(r, m)
  BY <1>2, <1>3 DEF HasFinal
<1>5. AllParts(q) \subseteq AllParts(r)
  BY <1>2, <1>3 DEF AllParts
<1> QED
  BY <1>2, <1>4, <1>5

-----------------------------------------------------------------------------
(* The kinds of steps.                                                     *)

\* A coroutine goes on, and stores nothing in the outbox.
Moving(w) ==
    \/ w \in Tasks /\ \E m \in Messages : Receive(w, m)
    \/ Register(w) \/ Resume(w) \/ Skip(w) \/ Forget(w) \/ Ask(w) \/ Settle(w)
    \/ Raise(w) \/ RecordFailure(w) \/ GiveUp(w)
    \/ w = Starter /\ RecoverNext

\* It stores an output, or finds it stored.
Answering(w) ==
    \/ Acknowledge(w) \/ Refuse(w) \/ AnswerForget(w)
    \/ AnswerChat(w) \/ AnswerQuery(w) \/ AnswerFailure(w) \/ Notify(w)
    \/ w \in Tasks /\ ReportFailure(w)
    \/ w = Starter /\ RecoverFailure

OfJob(m) == RunJob(m) \/ JobProgress(m)

Beginning == FlushAll \/ \E t \in Tasks : FlushOwn(t)

LEMMA StepKinds ==
    Next => \/ \E w \in Workers : Moving(w) \/ Answering(w)
            \/ \E m \in Messages : OfJob(m)
            \/ Beginning \/ Sent \/ SendFails \/ Crash \/ Rest
<1>1. Tasks \subseteq Workers /\ Starter \in Workers
  BY DEF Workers
<1> QED
  BY <1>1 DEF Next, Handle, Execute, Recover, Deliver, Moving, Answering, OfJob, Beginning

LEMMA MovingFrame ==
    ASSUME NEW w, Moving(w)
    PROVE  UNCHANGED <<out, shown, flush>>
BY DEF Moving, Receive, Register, Resume, Skip, Forget, Ask, Settle, Raise, RecordFailure, GiveUp,
   RecoverNext

LEMMA AnsweringFrame ==
    ASSUME NEW w, Answering(w)
    PROVE  UNCHANGED <<arrival, job, gen, exchanges, shown, flush, recovery, used>>
BY DEF Answering, Acknowledge, Refuse, AnswerForget, AnswerChat, AnswerQuery, AnswerFailure, Notify,
   ReportFailure, RecoverFailure

LEMMA OfJobFrame ==
    ASSUME NEW m, OfJob(m)
    PROVE  UNCHANGED <<arrival, gen, exchanges, shown, task, lock, flush, recovery, used>>
BY DEF OfJob, RunJob, StartJob, EndJob, NotifyJob, MarkNotified, JobProgress

LEMMA BeginningFrame ==
    Beginning => UNCHANGED <<request, arrival, job, gen, exchanges, out, shown, lock, recovery, used>>
BY DEF Beginning, FlushAll, FlushOwn

LEMMA SentFrame == Sent => UNCHANGED <<arrival, job, gen, lock, recovery, used>>
BY DEF Sent

LEMMA SendFailsFrame ==
    SendFails => UNCHANGED <<request, arrival, job, gen, exchanges, out, lock, recovery>>
BY DEF SendFails

LEMMA CrashFrame == Crash => UNCHANGED <<request, arrival, job, gen, exchanges, out>>
BY DEF Crash

LEMMA RestFrame == Rest => UNCHANGED vars
BY DEF Rest

-----------------------------------------------------------------------------
(* What is stored.                                                         *)

\* The output o of a registered message is new.
Stored(o) ==
    /\ o \in Output /\ o.acked = {} /\ o.done = FALSE /\ Registered(o.req)
    /\ o.remember => o.kind = "response"
    /\ out' = Put(out, o)

LEMMA StoresNew ==
    ASSUME NEW m \in Messages, Registered(m), NEW kind \in Kinds, NEW key, key \in Nat,
           NEW size \in 1..MaxParts, NEW remember \in BOOLEAN, remember => kind = "response",
           out' = Put(out, New(m, kind, key, size, remember))
    PROVE  \E o \in Output : Stored(o) /\ o.req = m /\ o.kind = kind
<1> DEFINE o == New(m, kind, key, size, remember)
<1>1. /\ o \in Output /\ o.req = m /\ o.kind = kind /\ o.remember = remember /\ o.acked = {}
      /\ o.done = FALSE
  BY DEF New, Output
<1>2. out' = Put(out, o)
  OBVIOUS
<1> HIDE DEF o
<1>3. Stored(o)
  BY <1>1, <1>2 DEF Stored
<1> QED
  BY <1>1, <1>3

LEMMA ProgressStored ==
    ASSUME NEW m \in Messages, Registered(m), NEW key \in Nat,
           out' = Put(out, New(m, "progress", key, 1, FALSE))
    PROVE  \E o \in Output : Stored(o) /\ o.req = m /\ o.kind = "progress"
<1> DEFINE o == New(m, "progress", key, 1, FALSE)
<1>1. /\ o \in Output /\ o.req = m /\ o.kind = "progress" /\ o.remember = FALSE /\ o.acked = {}
      /\ o.done = FALSE
  BY BoundsAssumption DEF New, Output, Kinds
<1>2. out' = Put(out, o)
  OBVIOUS
<1> HIDE DEF o
<1> QED
  BY <1>1, <1>2 DEF Stored

\* w has stored the answer.
Finishes(w) ==
    \/ Leave(w) \/ Goto(w, "answered") \/ Goto(w, "flush")
    \/ task' = [task EXCEPT ![w] = Idle]

\* A coroutine stores a final output only of the message it works on, or whose failure it
\* reports, and then no more.
FromWork(w, o) ==
    /\ o.req = task[w].req
    /\ o.kind \in FinalKinds =>
          /\ \/ task[w].pc \in Working
             \/ task[w].pc = "reported" /\ w \in Tasks
             \/ task[w].pc = "failing" /\ w = Starter /\ ~HasFinal(out, o.req)
          /\ task[w].pc \in Synchronous \/ LoopFree
          /\ Finishes(w)

LEMMA AnsweringStores ==
    ASSUME TypeOK, TasksOK, NEW w \in Workers, Answering(w)
    PROVE  UNCHANGED out \/ \E o \in Output : Stored(o) /\ FromWork(w, o)
<1> DEFINE m == task[w].req
<1>1. /\ Sound(w) /\ 1 \in 1..MaxParts
      /\ "response" \in Kinds /\ "error" \in Kinds /\ "ack" \in Kinds /\ "progress" \in Kinds
  BY BoundsAssumption DEF TasksOK, Kinds, FinalKinds
<1>2. CASE Acknowledge(w)
  <2>1. m \in Messages /\ Registered(m) /\ out' = Put(out, New(m, "ack", 0, 1, FALSE))
    BY <1>1, <1>2 DEF Acknowledge, Executes, At, Sound, Inside, Notice
  <2> QED
    <3>1. PICK o \in Output : Stored(o) /\ o.req = m /\ o.kind = "ack"
      BY <1>1, <2>1, StoresNew
    <3>2. FromWork(w, o)
      BY <3>1 DEF FromWork, FinalKinds
    <3> QED
      BY <3>1, <3>2
<1>3. CASE Refuse(w)
  <2>1. /\ m \in Messages /\ Registered(m) /\ out' = Put(out, New(m, "response", 0, 1, FALSE))
        /\ task[w].pc \in Working /\ (task[w].pc \in Synchronous \/ LoopFree) /\ Finishes(w)
    BY <1>1, <1>3 DEF Refuse, Executes, At, Sound, Inside, Working, Response, Finishes
  <2> QED
    BY <1>1, <2>1, StoresNew DEF FromWork
<1>4. CASE AnswerForget(w)
  <2>1. /\ m \in Messages /\ Registered(m) /\ out' = Put(out, New(m, "response", 0, 1, FALSE))
        /\ task[w].pc \in Working /\ (task[w].pc \in Synchronous \/ LoopFree) /\ Finishes(w)
    BY <1>1, <1>4 DEF AnswerForget, At, Sound, Inside, Working, Response, Finishes
  <2> QED
    BY <1>1, <2>1, StoresNew DEF FromWork
<1>5. CASE AnswerChat(w)
  <2>1. /\ m \in Messages /\ Registered(m) /\ task[w].pc \in Working
        /\ task[w].pc \in Synchronous \/ LoopFree
        /\ Finishes(w)
        /\ \E n \in 1..MaxParts : out' = Put(out, New(m, "response", 0, n, TRUE))
    BY <1>1, <1>5 DEF AnswerChat, At, Sound, Inside, Working, Response, Finishes
  <2> QED
    BY <1>1, <2>1, StoresNew DEF FromWork
<1>6. CASE AnswerQuery(w)
  <2>1. /\ m \in Messages /\ Registered(m) /\ task[w].pc \in Working
        /\ task[w].pc \in Synchronous \/ LoopFree
        /\ Finishes(w)
        /\ \E n \in 1..MaxParts : out' = Put(out, New(m, "response", 0, n, FALSE))
    BY <1>1, <1>6 DEF AnswerQuery, At, Sound, Inside, Working, Response, Finishes
  <2> QED
    BY <1>1, <2>1, StoresNew DEF FromWork
<1>7. CASE AnswerFailure(w)
  <2>1. /\ m \in Messages /\ Registered(m) /\ out' = Put(out, New(m, "response", 0, 1, FALSE))
        /\ task[w].pc \in Working /\ (task[w].pc \in Synchronous \/ LoopFree) /\ Finishes(w)
    BY <1>1, <1>7 DEF AnswerFailure, At, Sound, Inside, Working, Response, Finishes
  <2> QED
    BY <1>1, <2>1, StoresNew DEF FromWork
<1>8. CASE Notify(w)
  <2>1. task[w].notices \in Nat
    BY DEF TypeOK, Worker
  <2>2. /\ m \in Messages /\ Registered(m)
        /\ \/ out' = Put(out, New(m, "ack", 1, 1, FALSE))
           \/ out' = Put(out, New(m, "progress", task[w].notices, 1, FALSE))
    BY <1>1, <1>8 DEF Notify, At, Sound, Inside, Notice
  <2> QED
    <3>1. PICK o \in Output : Stored(o) /\ o.req = m /\ o.kind \in {"ack", "progress"}
      <4>1. ASSUME out' = Put(out, New(m, "ack", 1, 1, FALSE))
            PROVE  \E o \in Output : Stored(o) /\ o.req = m /\ o.kind = "ack"
        BY <1>1, <2>2, <4>1, StoresNew
      <4>2. CASE out' = Put(out, New(m, "progress", task[w].notices, 1, FALSE))
        BY <2>1, <2>2, <4>2, ProgressStored
      <4> QED
        BY <2>2, <4>1, <4>2
    <3>2. FromWork(w, o)
      BY <3>1 DEF FromWork, FinalKinds
    <3> QED
      BY <3>1, <3>2
<1>9. CASE w \in Tasks /\ ReportFailure(w)
  <2>1. /\ m \in Messages /\ Registered(m) /\ out' = Put(out, New(m, "error", 0, 1, FALSE))
        /\ task[w].pc = "reported" /\ (task[w].pc \in Synchronous \/ LoopFree) /\ Finishes(w)
    BY <1>1, <1>9 DEF ReportFailure, At, Sound, Finishes
  <2> QED
    BY <1>1, <1>9, <2>1, StoresNew DEF FromWork
<1>10. CASE w = Starter /\ RecoverFailure
  <2>1. /\ m \in Messages /\ Registered(m)
        /\ task[w].pc = "failing" /\ (task[w].pc \in Synchronous \/ LoopFree) /\ Finishes(w)
    BY <1>1, <1>10 DEF RecoverFailure, At, Sound, TasksOK, Finishes
  <2>2. \/ UNCHANGED out
        \/ ~HasFinal(out, m) /\ out' = Put(out, New(m, "response", 0, 1, FALSE))
    BY <1>10 DEF RecoverFailure, Response
  <2> QED
    <3>1. CASE UNCHANGED out
      BY <3>1
    <3>2. CASE ~HasFinal(out, m) /\ out' = Put(out, New(m, "response", 0, 1, FALSE))
      <4>1. FALSE \in BOOLEAN
        OBVIOUS
      <4>2. PICK o \in Output : Stored(o) /\ o.req = m
        BY <1>1, <2>1, <3>2, <4>1, StoresNew
      <4>3. FromWork(w, o)
        BY <1>10, <2>1, <3>2, <4>2 DEF FromWork
      <4> QED
        BY <4>2, <4>3
    <3> QED
      BY <2>2, <3>1, <3>2
<1> QED
  BY <1>2, <1>3, <1>4, <1>5, <1>6, <1>7, <1>8, <1>9, <1>10 DEF Answering

\* A notification of a job is the final output of its message.
OfJobStored(m, o) == o.req = m /\ (o.kind \in FinalKinds => ~HasFinal(out, m) /\ LoopFree)

LEMMA ProgressKey ==
    ASSUME TypeOK, NEW m
    PROVE  Cardinality(Progress(m)) \in Nat
<1>1. DOMAIN out = 1..Len(out) /\ Len(out) \in Nat
  BY DEF TypeOK
<1>2. Progress(m) \subseteq 1..Len(out) /\ IsFiniteSet(1..Len(out))
  BY <1>1, FS_Interval DEF Progress
<1> QED
  BY <1>2, FS_Subset, FS_CardinalityType

LEMMA OfJobStores ==
    ASSUME TypeOK, RequestsOK, NEW m \in Messages, OfJob(m)
    PROVE  \/ UNCHANGED out
           \/ job[m] # "none" /\ \E o \in Output : Stored(o) /\ OfJobStored(m, o)
<1>1. "response" \in Kinds /\ "progress" \in Kinds /\ 1 \in 1..MaxParts
  BY BoundsAssumption DEF Kinds, FinalKinds
<1>2. CASE JobProgress(m)
  <2>1. Registered(m) /\ job[m] # "none"
    BY <1>2 DEF JobProgress, RequestsOK
  <2>2. Cardinality(Progress(m)) + 1 \in Nat
    BY ProgressKey
  <2>3. out' = Put(out, New(m, "progress", Cardinality(Progress(m)) + 1, 1, FALSE))
    BY <1>2 DEF JobProgress, Notice
  <2> QED
    <3> DEFINE n == Cardinality(Progress(m)) + 1
    <3>0. n \in Nat /\ out' = Put(out, New(m, "progress", n, 1, FALSE))
      BY <2>2, <2>3
    <3> HIDE DEF n
    <3>1. PICK o \in Output : Stored(o) /\ o.req = m /\ o.kind = "progress"
      BY <1>1, <2>1, <3>0, ProgressStored
    <3>2. OfJobStored(m, o)
      BY <3>1 DEF OfJobStored, FinalKinds
    <3> QED
      BY <2>1, <3>1, <3>2
<1>3. CASE NotifyJob(m)
  <2>1. Registered(m) /\ job[m] # "none" /\ ~HasFinal(out, m) /\ LoopFree
    BY <1>3 DEF NotifyJob, RequestsOK
  <2>2. \E n \in 1..MaxParts : out' = Put(out, New(m, "response", 0, n, job[m] = "kept"))
    BY <1>3 DEF NotifyJob, Response
  <2>3. (job[m] = "kept") \in BOOLEAN
    OBVIOUS
  <2> QED
    <3>1. PICK n \in 1..MaxParts : out' = Put(out, New(m, "response", 0, n, job[m] = "kept"))
      BY <2>2
    <3>2. PICK o \in Output : Stored(o) /\ o.req = m
      BY <1>1, <2>1, <2>3, <3>1, StoresNew
    <3>3. OfJobStored(m, o)
      BY <2>1, <3>2 DEF OfJobStored
    <3> QED
      BY <2>1, <3>2, <3>3
<1>4. CASE StartJob(m) \/ EndJob(m) \/ MarkNotified(m)
  BY <1>4 DEF StartJob, EndJob, MarkNotified
<1> QED
  BY <1>2, <1>3, <1>4 DEF OfJob, RunJob

-----------------------------------------------------------------------------
(* What is sent.                                                           *)

\* Part x is acknowledged.
Acknowledged(x) ==
    LET i == x[1]
        o == out[i]
        p == out'[i]
    IN  /\ out' \in Seq(Output) /\ Len(out') = Len(out)
        /\ \A k \in DOMAIN out : k # i => out'[k] = out[k]
        /\ p.req = o.req /\ p.kind = o.kind /\ p.key = o.key /\ p.size = o.size
        /\ p.remember = o.remember
        /\ p.acked = o.acked \cup {x[2]}
        /\ p.done <=> o.done \/ WhollyAcked(p)

\* The last acknowledgement of o.
Completes(x) == ~out[x[1]].done /\ WhollyAcked(out'[x[1]])

\* What it means for memory and for the request.
Completed(o, completes) ==
    /\ exchanges' = IF completes /\ Remembers(o) THEN exchanges \cup {o.req} ELSE exchanges
    /\ IF completes /\ o.remember THEN SetStatus(o.req, "completed") ELSE UNCHANGED request

LEMMA PartBeingSent ==
    ASSUME TypeOK, FlushOK, flush # Unflushed
    PROVE  /\ flush.part \in AllParts(out) /\ flush.part[1] \in DOMAIN out
           /\ out[flush.part[1]] \in Output
           /\ flush.part[2] \in 1..MaxParts /\ flush.part[2] \in 1..out[flush.part[1]].size
           /\ flush.part = <<flush.part[1], flush.part[2]>>
           /\ out[flush.part[1]].acked = 1..(flush.part[2] - 1)
<1>1. flush.part \in AllParts(out) /\ out[flush.part[1]].acked = 1..(flush.part[2] - 1)
  BY DEF FlushOK
<1>2. /\ flush.part[1] \in DOMAIN out /\ flush.part[2] \in 1..MaxParts
      /\ flush.part[2] <= out[flush.part[1]].size
      /\ flush.part = <<flush.part[1], flush.part[2]>>
  BY <1>1 DEF AllParts
<1>3. out[flush.part[1]] \in Output
  BY <1>2 DEF TypeOK
<1>4. flush.part[2] \in 1..out[flush.part[1]].size
  BY <1>2, <1>3, BoundsAssumption DEF Output
<1> QED
  BY <1>1, <1>2, <1>3, <1>4

LEMMA SentEffect ==
    ASSUME TypeOK, FlushOK, Sent
    PROVE  /\ Acknowledged(flush.part)
           /\ Completed(out'[flush.part[1]], Completes(flush.part))
<1> DEFINE x == flush.part
           i == x[1]
           a == [out EXCEPT ![i].acked = @ \cup {x[2]}]
           completes == WhollyAcked(a[i]) /\ ~a[i].done
<1>1. /\ i \in DOMAIN out /\ out[i] \in Output /\ x[2] \in 1..MaxParts /\ x[2] \in 1..out[i].size
  BY PartBeingSent DEF Sent
<1>2. /\ out' = IF completes THEN [a EXCEPT ![i].done = TRUE] ELSE a
      /\ exchanges' = IF completes /\ Remembers(a[i]) THEN exchanges \cup {a[i].req} ELSE exchanges
      /\ IF completes /\ a[i].remember THEN SetStatus(a[i].req, "completed") ELSE UNCHANGED request
  BY DEF Sent
<1>3. out \in Seq(Output) /\ DOMAIN out = 1..Len(out) /\ Len(out) \in Nat
  BY DEF TypeOK
<1>4. /\ DOMAIN a = DOMAIN out /\ a[i] = [out[i] EXCEPT !.acked = @ \cup {x[2]}]
      /\ \A k \in DOMAIN out : k # i => a[k] = out[k]
  BY <1>1
<1>5. /\ a[i] \in Output /\ a[i].acked = out[i].acked \cup {x[2]}
      /\ a[i].req = out[i].req /\ a[i].kind = out[i].kind /\ a[i].key = out[i].key
      /\ a[i].size = out[i].size /\ a[i].remember = out[i].remember /\ a[i].done = out[i].done
  BY <1>1, <1>4 DEF Output
<1> HIDE DEF a
<1>6. CASE completes
  <2>1. /\ DOMAIN out' = DOMAIN out /\ out'[i] = [a[i] EXCEPT !.done = TRUE]
        /\ \A k \in DOMAIN out : k # i => out'[k] = out[k]
    BY <1>1, <1>2, <1>4, <1>6
  <2>2. /\ out'[i] \in Output /\ out'[i].done = TRUE /\ out'[i].acked = a[i].acked
        /\ out'[i].req = a[i].req /\ out'[i].kind = a[i].kind /\ out'[i].key = a[i].key
        /\ out'[i].size = a[i].size /\ out'[i].remember = a[i].remember
    BY <1>5, <2>1 DEF Output
  <2>3. out' \in Seq(Output) /\ Len(out') = Len(out)
    <3>1. \A k \in DOMAIN out : out'[k] \in Output
      BY <1>3, <2>1, <2>2
    <3>2. out' = [k \in 1..Len(out) |-> out'[k]]
      BY <1>2, <1>3, <1>4, <1>6, <2>1
    <3>3. out' \in [1..Len(out) -> Output]
      BY <1>3, <3>1, <3>2
    <3> QED
      BY <1>3, <3>3, FunctionIsSeq
  <2>4. WhollyAcked(out'[i])
    BY <1>6, <2>2 DEF WhollyAcked
  <2>5. Acknowledged(x) /\ Completes(x)
    BY <1>5, <1>6, <2>1, <2>2, <2>3, <2>4 DEF Acknowledged, Completes
  <2>6. Remembers(a[i]) <=> Remembers(out'[i])
    BY <2>2 DEF Remembers
  <2> QED
    BY <1>2, <1>6, <2>2, <2>5, <2>6 DEF Completed
<1>7. CASE ~completes
  <2>1. out' = a
    BY <1>2, <1>7
  <2>2. out' \in Seq(Output) /\ Len(out') = Len(out)
    <3>1. \A k \in DOMAIN out : out'[k] \in Output
      BY <1>3, <1>4, <1>5, <2>1
    <3>2. out' = [k \in 1..Len(out) |-> out'[k]]
      BY <1>3, <1>4, <2>1 DEF a
    <3>3. out' \in [1..Len(out) -> Output]
      BY <1>3, <3>1, <3>2
    <3> QED
      BY <1>3, <3>3, FunctionIsSeq
  <2>3. Acknowledged(x)
    BY <1>4, <1>5, <1>7, <2>1, <2>2 DEF Acknowledged
  <2>4. ~Completes(x)
    BY <1>5, <1>7, <2>1 DEF Completes
  <2> QED
    BY <1>2, <1>7, <2>3, <2>4 DEF Completed
<1> QED
  BY <1>6, <1>7

\* The new output o is added at the end of the outbox.
Added(o) ==
    /\ o.acked = {} /\ o.done = FALSE /\ Registered(o.req)
    /\ o.remember => o.kind = "response"
    /\ Grows(out, out', o)

LEMMA StoredAdds ==
    ASSUME TypeOK, NEW o \in Output, Stored(o)
    PROVE  UNCHANGED out \/ Added(o)
BY PutGrows DEF TypeOK, Stored, Added

Storing ==
    /\ \E o \in Output : Added(o)
    /\ UNCHANGED <<gen, exchanges, shown, flush, used>>

Breaking == SendFails \/ Crash

LEMMA OutKinds ==
    ASSUME TypeOK, TasksOK, RequestsOK, Next
    PROVE  Storing \/ Beginning \/ Sent \/ Breaking \/ UNCHANGED <<out, shown, flush>>
<1>1. ASSUME NEW w \in Workers, Moving(w)
      PROVE  UNCHANGED <<out, shown, flush>>
  BY <1>1, MovingFrame
<1>2. ASSUME NEW w \in Workers, Answering(w)
      PROVE  Storing \/ UNCHANGED <<out, shown, flush>>
  <2>1. UNCHANGED <<gen, exchanges, shown, flush, used>>
    BY <1>2, AnsweringFrame
  <2>2. CASE UNCHANGED out
    BY <2>1, <2>2
  <2>3. CASE \E o \in Output : Stored(o)
    BY <2>1, <2>3, StoredAdds DEF Storing
  <2> QED
    BY <1>2, <2>2, <2>3, AnsweringStores
<1>3. ASSUME NEW m \in Messages, OfJob(m)
      PROVE  Storing \/ UNCHANGED <<out, shown, flush>>
  <2>1. UNCHANGED <<gen, exchanges, shown, flush, used>>
    BY <1>3, OfJobFrame
  <2>2. CASE UNCHANGED out
    BY <2>1, <2>2
  <2>3. CASE \E o \in Output : Stored(o)
    BY <2>1, <2>3, StoredAdds DEF Storing
  <2> QED
    BY <1>3, <2>2, <2>3, OfJobStores
<1>4. Rest => UNCHANGED <<out, shown, flush>>
  BY RestFrame DEF vars
<1> QED
  BY <1>1, <1>2, <1>3, <1>4, StepKinds DEF Breaking

LEMMA OutType ==
    ASSUME TypeOK, FlushOK, Storing \/ Beginning \/ Sent \/ Breaking \/ UNCHANGED <<out, shown, flush>>
    PROVE  out' \in Seq(Output) /\ Extends(out, out')
<1>1. out \in Seq(Output)
  BY DEF TypeOK
<1>2. CASE Storing
  <2>1. PICK o \in Output : Added(o)
    BY <1>2 DEF Storing
  <2>2. Grows(out, out', o)
    BY <2>1 DEF Added
  <2>3. out' \in Seq(Output)
    BY <2>2 DEF Grows
  <2> QED
    BY <1>1, <2>2, <2>3, GrowsExtends
<1>3. CASE Sent
  <2>1. Acknowledged(flush.part) /\ flush.part[1] \in DOMAIN out
    BY <1>3, SentEffect, PartBeingSent DEF Sent
  <2>2. out' \in Seq(Output) /\ Len(out') = Len(out) /\ Len(out) \in Nat
    BY <1>1, <2>1 DEF Acknowledged
  <2>3. \A k \in DOMAIN out :
          /\ out'[k].req = out[k].req /\ out'[k].kind = out[k].kind /\ out'[k].key = out[k].key
          /\ out'[k].size = out[k].size /\ out'[k].remember = out[k].remember
          /\ out[k].acked \subseteq out'[k].acked
          /\ out[k].done => out'[k].done
    BY <2>1 DEF Acknowledged
  <2> QED
    BY <2>2, <2>3 DEF Extends
<1>4. CASE Beginning \/ Breaking \/ UNCHANGED <<out, shown, flush>>
  <2>1. out' = out
    BY <1>4, BeginningFrame, SendFailsFrame, CrashFrame DEF Breaking
  <2> QED
    BY <1>1, <2>1, SameExtends
<1> QED
  BY <1>2, <1>3, <1>4

-----------------------------------------------------------------------------
(* What happens to the requests.                                           *)

\* A registered request gets a status; it is completed only when it is answered.
GetsStatus(m, status) ==
    /\ Registered(m) /\ SetStatus(m, status) /\ UNCHANGED arrival
    /\ status = "completed" => HasFinal(out, m)

\* The row r of message m is new.
GetsRow(m, r) ==
    /\ ~Registered(m) /\ request' = [request EXCEPT ![m] = r]
    /\ r.status \in {"received", "failed"} /\ r.gen = gen[ConvOf(m)]
    /\ r.intent \in {"none", IntentOf(m)}
    /\ arrival' = Append(arrival, m)
    /\ UNCHANGED <<gen, exchanges, out, recovery>>

GettingStatus  == \E m \in Messages, status \in {"processing", "failed", "completed"} :
                     GetsStatus(m, status)
GettingRow     == \E m \in Messages, r \in Request : GetsRow(m, r)
RequestChanges == UNCHANGED <<request, arrival>> \/ GettingStatus \/ GettingRow

LEMMA IntentTypes == \A m : IntentOf(m) \in Intents
BY DEF IntentOf, Intents

LEMMA MovingRequests ==
    ASSUME TypeOK, TasksOK, FinalOK, NEW w \in Workers, Moving(w)
    PROVE  RequestChanges
<1> DEFINE m == task[w].req
<1>1. Sound(w)
  BY DEF TasksOK
<1>2. ASSUME \/ w \in Tasks /\ \E k \in Messages : Receive(w, k)
             \/ Resume(w) \/ Skip(w) \/ Raise(w) \/ GiveUp(w) \/ (w = Starter /\ RecoverNext)
      PROVE  RequestChanges
  BY <1>2 DEF Receive, Resume, Skip, Raise, GiveUp, RecoverNext, RequestChanges
<1>3. CASE Register(w)
  <2> DEFINE r == [status |-> "received", intent |-> IntentOf(m), gen |-> gen[ConvOf(m)],
                   payload |-> IF m \in JobMessages THEN exchanges \cap ConvOf(m) ELSE {}]
  <2>1. m \in Messages
    BY <1>1, <1>3 DEF Register, At, Sound
  <2>2. gen[ConvOf(m)] \in Nat
    BY <2>1, ConvOfMessage DEF TypeOK
  <2>3. (IF m \in JobMessages THEN exchanges \cap ConvOf(m) ELSE {}) \in SUBSET Messages
    BY DEF TypeOK
  <2>4. r \in Request
    BY <2>2, <2>3, IntentTypes DEF Request, Statuses
  <2>5. GetsRow(m, r)
    BY <1>3 DEF GetsRow, Register, Registered
  <2> QED
    BY <2>1, <2>4, <2>5 DEF RequestChanges, GettingRow
<1>4. CASE Forget(w) \/ Ask(w)
  <2>1. m \in Messages /\ Registered(m)
    BY <1>1, <1>4 DEF Forget, Ask, Executes, At, Sound, Inside
  <2>2. GetsStatus(m, "processing")
    BY <1>4, <2>1 DEF Forget, Ask, GetsStatus
  <2> QED
    BY <2>1, <2>2 DEF RequestChanges, GettingStatus
<1>5. CASE Settle(w)
  <2>1. m \in Messages /\ Registered(m) /\ HasFinal(out, m)
    BY <1>1, <1>5 DEF Settle, At, Sound, Inside, FinalOK
  <2>2. GetsStatus(m, "failed") \/ GetsStatus(m, "completed")
    BY <1>5, <2>1 DEF Settle, GetsStatus
  <2> QED
    BY <2>1, <2>2 DEF RequestChanges, GettingStatus
<1>6. CASE RecordFailure(w)
  <2>1. m \in Messages
    BY <1>1, <1>6 DEF RecordFailure, At, Sound
  <2>2. CASE UNCHANGED <<request, arrival>>
    BY <2>2 DEF RequestChanges
  <2>3. CASE ~Registered(m) /\ ~Answered(m)
    <3> DEFINE r == [status |-> "failed", intent |-> "none", gen |-> gen[ConvOf(m)],
                     payload |-> {}]
    <3>1. gen[ConvOf(m)] \in Nat
      BY <2>1, ConvOfMessage DEF TypeOK
    <3>2. r \in Request
      BY <3>1 DEF Request, Statuses, Intents
    <3>3. GetsRow(m, r)
      BY <1>6, <2>3 DEF GetsRow, RecordFailure, Registered
    <3> QED
      BY <2>1, <3>2, <3>3 DEF RequestChanges, GettingRow
  <2>4. CASE Registered(m) /\ ~Answered(m)
    <3>1. GetsStatus(m, "failed")
      BY <1>6, <2>4 DEF GetsStatus, RecordFailure, Registered
    <3> QED
      BY <2>1, <3>1 DEF RequestChanges, GettingStatus
  <2> QED
    BY <1>6, <2>2, <2>3, <2>4 DEF RecordFailure
<1> QED
  BY <1>2, <1>3, <1>4, <1>5, <1>6 DEF Moving

LEMMA AnsweringRequests ==
    ASSUME TypeOK, TasksOK, NEW w \in Workers, Answering(w)
    PROVE  UNCHANGED <<request, arrival>> \/ GettingStatus
<1> DEFINE m == task[w].req
<1>1. Sound(w) /\ UNCHANGED arrival
  BY AnsweringFrame DEF TasksOK
<1>2. ASSUME \/ Acknowledge(w) \/ AnswerForget(w) \/ AnswerChat(w) \/ AnswerQuery(w) \/ Notify(w)
             \/ ReportFailure(w)
      PROVE  UNCHANGED request
  BY <1>2 DEF Acknowledge, AnswerForget, AnswerChat, AnswerQuery, Notify, ReportFailure
<1>3. CASE Refuse(w) \/ AnswerFailure(w)
  <2>1. m \in Messages /\ Registered(m)
    BY <1>1, <1>3 DEF Refuse, AnswerFailure, Executes, At, Sound, Inside
  <2>2. GetsStatus(m, "failed")
    BY <1>1, <1>3, <2>1 DEF Refuse, AnswerFailure, GetsStatus
  <2> QED
    BY <2>1, <2>2 DEF GettingStatus
<1>4. CASE w = Starter /\ RecoverFailure
  <2>1. m \in Messages /\ Registered(m)
    BY <1>1, <1>4 DEF RecoverFailure, At, Sound, TasksOK
  <2>2. UNCHANGED request \/ GetsStatus(m, "failed")
    BY <1>1, <1>4, <2>1 DEF RecoverFailure, GetsStatus
  <2> QED
    BY <1>1, <2>1, <2>2 DEF GettingStatus
<1> QED
  BY <1>1, <1>2, <1>3, <1>4 DEF Answering

LEMMA OfJobRequests ==
    ASSUME RequestsOK, NEW m \in Messages, OfJob(m)
    PROVE  UNCHANGED <<request, arrival>> \/ GettingStatus
<1>1. UNCHANGED arrival
  BY OfJobFrame
<1>2. CASE NotifyJob(m)
  <2>1. Registered(m)
    BY <1>2 DEF NotifyJob, RequestsOK
  <2>2. UNCHANGED request \/ GetsStatus(m, "failed")
    BY <1>1, <1>2, <2>1 DEF NotifyJob, GetsStatus
  <2> QED
    BY <1>1, <2>2 DEF GettingStatus
<1>3. CASE StartJob(m) \/ EndJob(m) \/ MarkNotified(m) \/ JobProgress(m)
  BY <1>1, <1>3 DEF StartJob, EndJob, MarkNotified, JobProgress
<1> QED
  BY <1>2, <1>3 DEF OfJob, RunJob

LEMMA SentRequests ==
    ASSUME TypeOK, OutboxOK, FlushOK, Sent
    PROVE  UNCHANGED <<request, arrival>> \/ GettingStatus
<1> DEFINE i == flush.part[1]
<1>1. UNCHANGED arrival
  BY SentFrame
<1>2. /\ i \in DOMAIN out /\ out[i] \in Output
      /\ out'[i].req = out[i].req /\ out'[i].remember = out[i].remember
      /\ UNCHANGED request \/ (out[i].remember /\ SetStatus(out[i].req, "completed"))
  BY SentEffect, PartBeingSent DEF Sent, Acknowledged, Completed
<1>3. Registered(out[i].req) /\ (out[i].remember => HasFinal(out, out[i].req))
  BY <1>2 DEF OutboxOK, RowOK, HasFinal, FinalKinds
<1>4. CASE out[i].remember /\ SetStatus(out[i].req, "completed")
  <2>1. GetsStatus(out[i].req, "completed") /\ out[i].req \in Messages
    BY <1>1, <1>2, <1>3, <1>4 DEF GetsStatus, Output
  <2> QED
    BY <2>1 DEF GettingStatus
<1> QED
  BY <1>1, <1>2, <1>4

LEMMA RequestKinds ==
    ASSUME IInv, Next
    PROVE  RequestChanges
<1>1. ASSUME NEW w \in Workers, Moving(w) \/ Answering(w)
      PROVE  RequestChanges
  BY <1>1, MovingRequests, AnsweringRequests DEF IInv, RequestChanges
<1>2. ASSUME NEW m \in Messages, OfJob(m)
      PROVE  RequestChanges
  BY <1>2, OfJobRequests DEF IInv, RequestChanges
<1>3. Sent => RequestChanges
  BY SentRequests DEF IInv, RequestChanges
<1>4. Beginning \/ SendFails \/ Crash \/ Rest => RequestChanges
  BY BeginningFrame, SendFailsFrame, CrashFrame, RestFrame DEF RequestChanges, vars
<1> QED
  BY <1>1, <1>2, <1>3, <1>4, StepKinds

\* No registered request loses its row, its intent or its generation.
Keeps == \A m \in Messages : Registered(m) =>
    /\ Registered(m)'
    /\ request'[m].intent = request[m].intent /\ request'[m].gen = request[m].gen

LEMMA RequestType ==
    ASSUME TypeOK, RequestChanges
    PROVE  /\ request' \in [Messages -> Request] /\ arrival' \in Seq(Messages)
           /\ Keeps
<1>1. CASE UNCHANGED <<request, arrival>>
  BY <1>1 DEF TypeOK, Keeps, Registered
<1>2. CASE GettingStatus
  <2>1. PICK m \in Messages, s \in {"processing", "failed", "completed"} : GetsStatus(m, s)
    BY <1>2 DEF GettingStatus
  <2>2. /\ request' = [request EXCEPT ![m].status = s] /\ UNCHANGED arrival
    BY <2>1 DEF GetsStatus, SetStatus
  <2>3. request[m] \in Request /\ s \in Statuses /\ s # "absent"
    BY DEF TypeOK, Statuses
  <2>4. /\ request'[m] = [request[m] EXCEPT !.status = s]
        /\ \A k \in Messages \ {m} : request'[k] = request[k]
    BY <2>2 DEF TypeOK
  <2>5. /\ request'[m] \in Request /\ request'[m].status = s
        /\ request'[m].intent = request[m].intent /\ request'[m].gen = request[m].gen
    BY <2>3, <2>4 DEF Request
  <2> QED
    BY <2>2, <2>3, <2>4, <2>5 DEF TypeOK, Keeps, Registered
<1>3. CASE GettingRow
  <2>1. PICK m \in Messages, r \in Request : GetsRow(m, r)
    BY <1>3 DEF GettingRow
  <2>2. request' = [request EXCEPT ![m] = r] /\ arrival' = Append(arrival, m) /\ ~Registered(m)
    BY <2>1 DEF GetsRow
  <2>3. request' \in [Messages -> Request] /\ arrival' \in Seq(Messages)
    BY <2>2 DEF TypeOK
  <2>4. \A k \in Messages \ {m} : request'[k] = request[k]
    BY <2>2 DEF TypeOK
  <2> QED
    BY <2>2, <2>3, <2>4 DEF Keeps, Registered
<1> QED
  BY <1>1, <1>2, <1>3 DEF RequestChanges

-----------------------------------------------------------------------------
(* What happens to the coroutines.                                         *)

Pcs == Synchronous \cup {"idle", "lock", "backend", "failing", "flush", "flushing", "done"}

\* w has pc and its message, the others are as they were.
Goes(w, pc) ==
    /\ task' \in [Workers -> Worker]
    /\ task'[w].pc = pc /\ task'[w].req = task[w].req
    /\ \A u \in Workers \ {w} : task'[u] = task[u]

\* Only w has lost a lock.
Releases(w) ==
    /\ lock' \in [Conversations -> Workers \cup {None}]
    /\ \A c \in Conversations : lock[c] # w => lock'[c] = lock[c]

LEMMA IdleType == Idle \in Worker /\ Idle.pc = "idle" /\ Idle.req = None /\ Idle.context = {}
BY DEF Idle, Worker

LEMMA GotoEffect ==
    ASSUME TypeOK, NEW w \in Workers, NEW pc \in Pcs, Goto(w, pc)
    PROVE  Goes(w, pc) /\ task'[w].context = task[w].context
<1>1. task[w] \in Worker /\ task' = [task EXCEPT ![w].pc = pc]
  BY DEF TypeOK, Goto
<1>2. task'[w] = [task[w] EXCEPT !.pc = pc] /\ \A u \in Workers \ {w} : task'[u] = task[u]
  BY <1>1 DEF TypeOK
<1>3. /\ task'[w] \in Worker /\ task'[w].pc = pc /\ task'[w].req = task[w].req
      /\ task'[w].context = task[w].context
  BY <1>1, <1>2 DEF Worker, Pcs
<1> QED
  BY <1>1, <1>2, <1>3 DEF TypeOK, Goes

LEMMA EndsType ==
    ASSUME TypeOK, NEW w \in Workers, NEW pc \in Pcs
    PROVE  /\ Ends(w, pc) \in Worker /\ Ends(w, pc).pc = pc /\ Ends(w, pc).req = task[w].req
           /\ Ends(w, pc).context = {}
<1>1. task[w].req \in Messages \cup {None}
  BY DEF TypeOK, Worker
<1> DEFINE i == [Idle EXCEPT !.req = task[w].req]
<1>2. i \in Worker /\ i.req = task[w].req /\ i.context = {}
  BY <1>1, IdleType DEF Worker
<1>3. Ends(w, pc) = [i EXCEPT !.pc = pc]
  BY IdleType DEF Ends, Worker
<1> HIDE DEF i
<1> QED
  BY <1>2, <1>3 DEF Worker, Pcs

LEMMA UnlockEffect ==
    ASSUME TypeOK, NEW w \in Workers,
           lock' = [c \in Conversations |-> IF lock[c] = w THEN None ELSE lock[c]]
    PROVE  Releases(w)
BY DEF TypeOK, Releases

LEMMA SetTaskEffect ==
    ASSUME TypeOK, NEW w \in Workers, NEW r \in Worker, task' = [task EXCEPT ![w] = r]
    PROVE  /\ task' \in [Workers -> Worker] /\ task'[w] = r
           /\ \A u \in Workers \ {w} : task'[u] = task[u]
BY DEF TypeOK

LEMMA LeaveEffect ==
    ASSUME TypeOK, NEW w \in Workers, Leave(w)
    PROVE  /\ Releases(w) /\ task' \in [Workers -> Worker]
           /\ IF w = Starter THEN task'[w] = Idle ELSE Goes(w, "flush")
           /\ task'[w].context = {}
           /\ \A u \in Workers \ {w} : task'[u] = task[u]
<1>1. Releases(w)
  BY UnlockEffect DEF Leave
<1>2. CASE w = Starter
  <2>1. task' = [task EXCEPT ![w] = Idle]
    BY <1>2 DEF Leave
  <2> QED
    BY <1>1, <1>2, <2>1, SetTaskEffect, IdleType
<1>3. CASE w # Starter
  <2>1. task' = [task EXCEPT ![w] = Ends(w, "flush")]
    BY <1>3 DEF Leave
  <2>2. /\ Ends(w, "flush") \in Worker /\ Ends(w, "flush").pc = "flush"
        /\ Ends(w, "flush").req = task[w].req /\ Ends(w, "flush").context = {}
    BY EndsType DEF Pcs
  <2> QED
    BY <1>1, <1>3, <2>1, <2>2, SetTaskEffect DEF Goes
<1> QED
  BY <1>2, <1>3

LEMMA RaiseEffect ==
    ASSUME TypeOK, NEW w \in Workers, Raise(w)
    PROVE  Releases(w) /\ Goes(w, "failing") /\ task'[w].context = {}
<1>1. Releases(w)
  BY UnlockEffect DEF Raise
<1>2. task' = [task EXCEPT ![w] = Ends(w, "failing")]
  BY DEF Raise
<1>3. /\ Ends(w, "failing") \in Worker /\ Ends(w, "failing").pc = "failing"
      /\ Ends(w, "failing").req = task[w].req /\ Ends(w, "failing").context = {}
  BY EndsType DEF Pcs
<1> QED
  BY <1>1, <1>2, <1>3, SetTaskEffect DEF Goes

\* w has the lock of c, which nobody had.
Locks(w, c) ==
    /\ lock' \in [Conversations -> Workers \cup {None}] /\ lock'[c] = w
    /\ \A d \in Conversations \ {c} : lock'[d] = lock[d]
    /\ lock[c] = None

LEMMA EnterEffect ==
    ASSUME TypeOK, NEW w \in Workers, NEW c \in Conversations, ~Locked(c), Enter(w, c)
    PROVE  /\ Goes(w, "registered") /\ Locks(w, c)
           /\ task'[w].context = exchanges \cap c
<1>1. /\ lock' = [lock EXCEPT ![c] = w] /\ lock[c] = None
      /\ task' = [task EXCEPT ![w].pc = "registered", ![w].context = exchanges \cap c]
  BY DEF Enter, Locked
<1>2. Locks(w, c)
  BY <1>1 DEF TypeOK, Locks
<1> DEFINE t == [task EXCEPT ![w].pc = "registered"]
           r == [task[w] EXCEPT !.pc = "registered"]
           s == [r EXCEPT !.context = exchanges \cap c]
<1>3. task[w] \in Worker /\ exchanges \cap c \in SUBSET Messages
  BY DEF TypeOK
<1>4. /\ r \in Worker /\ r.pc = "registered" /\ r.req = task[w].req
  BY <1>3 DEF Worker, Synchronous
<1>5. task' = [task EXCEPT ![w] = s]
  BY <1>1 DEF TypeOK
<1> HIDE DEF r
<1>6. /\ s \in Worker /\ s.pc = "registered" /\ s.req = task[w].req /\ s.context = exchanges \cap c
  BY <1>3, <1>4 DEF Worker
<1> HIDE DEF s
<1> QED
  BY <1>2, <1>5, <1>6, SetTaskEffect DEF Goes

LEMMA ReceiveEffect ==
    ASSUME TypeOK, NEW w \in Workers, NEW m \in Messages,
           task' = [task EXCEPT ![w].req = m, ![w].pc = "lock"]
    PROVE  /\ task' \in [Workers -> Worker] /\ task'[w].pc = "lock" /\ task'[w].req = m
           /\ task'[w].context = task[w].context
           /\ \A u \in Workers \ {w} : task'[u] = task[u]
<1> DEFINE r == [task[w] EXCEPT !.req = m]
           s == [r EXCEPT !.pc = "lock"]
<1>1. task[w] \in Worker
  BY DEF TypeOK
<1>2. r \in Worker /\ r.req = m /\ r.context = task[w].context
  BY <1>1 DEF Worker
<1>3. task' = [task EXCEPT ![w] = s]
  BY DEF TypeOK
<1> HIDE DEF r
<1>4. s \in Worker /\ s.pc = "lock" /\ s.req = m /\ s.context = task[w].context
  BY <1>2 DEF Worker
<1> HIDE DEF s
<1> QED
  BY <1>3, <1>4, SetTaskEffect

LEMMA NotifyEffect ==
    ASSUME TypeOK, NEW w \in Workers, Notify(w)
    PROVE  Goes(w, "backend") /\ task'[w].context = task[w].context
<1> DEFINE n == task[w].notices + 1
           r == [task[w] EXCEPT !.notices = n]
<1>1. task[w] \in Worker /\ task[w].pc = "backend" /\ n \in Nat
  BY DEF TypeOK, Notify, At, Worker
<1>2. task' = [task EXCEPT ![w] = r]
  BY DEF TypeOK, Notify
<1> HIDE DEF n
<1>3. r \in Worker /\ r.pc = "backend" /\ r.req = task[w].req /\ r.context = task[w].context
  BY <1>1 DEF Worker
<1> HIDE DEF r
<1> QED
  BY <1>2, <1>3, SetTaskEffect DEF Goes

LEMMA CrashEffect ==
    ASSUME TypeOK, Crash
    PROVE  /\ task' \in [Workers -> Worker]
           /\ \A w \in Workers : task'[w].context = {}
           /\ task'[Starter] = Idle
           /\ \A t \in Tasks : \/ task[t].pc = "idle" /\ task'[t] = Idle
                               \/ /\ task[t].pc # "idle" /\ task'[t].pc = "done"
                                  /\ task'[t].req = task[t].req
           /\ lock' = [c \in Conversations |-> None] /\ flush' = Unflushed
           /\ recovery' = {m \in Messages : Recoverable(m)}
<1>1. Starter \in Workers /\ \A t \in Tasks : t \in Workers /\ t # Starter
  BY IdsAssumption DEF Workers
<1>2. ASSUME NEW w \in Workers
      PROVE  /\ Ends(w, "done") \in Worker /\ Ends(w, "done").pc = "done"
             /\ Ends(w, "done").req = task[w].req /\ Ends(w, "done").context = {}
  BY EndsType DEF Pcs
<1>3. \A w \in Workers :
        task'[w] = IF w = Starter \/ task[w].pc = "idle" THEN Idle ELSE Ends(w, "done")
  BY DEF Crash
<1>4. \A w \in Workers : task'[w] \in Worker /\ task'[w].context = {}
  BY <1>2, <1>3, IdleType
<1>5. task' \in [Workers -> Worker]
  BY <1>4 DEF Crash
<1>6. \A t \in Tasks : \/ task[t].pc = "idle" /\ task'[t] = Idle
                       \/ /\ task[t].pc # "idle" /\ task'[t].pc = "done"
                          /\ task'[t].req = task[t].req
  BY <1>1, <1>2, <1>3
<1> QED
  BY <1>1, <1>3, <1>4, <1>5, <1>6 DEF Crash

LEMMA ProceedEffect ==
    ASSUME TypeOK, NEW w \in Tasks, NEW parts, Proceed(w, parts)
    PROVE  \/ Goes(w, "done") /\ parts = {} /\ flush' = Unflushed
           \/ Goes(w, "flushing") /\ flush'.by = w
<1>1. w \in Workers /\ w # None
  BY IdsAssumption DEF Workers
<1>2. CASE parts = {}
  BY <1>1, <1>2, GotoEffect DEF Proceed, Pcs
<1>3. CASE parts # {}
  BY <1>1, <1>3, GotoEffect DEF Proceed, Pcs
<1> QED
  BY <1>2, <1>3

\* Nobody but w has moved, or has lost a lock or a flush.
StepOf(w) ==
    /\ \A u \in Workers \ {w} : /\ task'[u] = task[u]
                                /\ \A c \in Conversations : lock[c] = u => lock'[c] = u
                                /\ flush'.by = u => flush.by = u
    /\ task'[w].pc \in Synchronous => LoopFree \/ task[w].pc \in Synchronous
    /\ recovery' \subseteq recovery

LEMMA OneMoves ==
    ASSUME TypeOK, TasksOK, Keeps, NEW w \in Workers, StepOf(w), Sound(w)',
           ~Ready' => /\ ~Ready
                      /\ w \in Tasks => task'[w].pc \in {"idle", "done"},
           w = Starter =>
               /\ task'[w].pc \in Inside \cup {"idle", "lock", "failing"}
               /\ task'[w].pc # "idle" => task'[w].req \in Messages /\ request'[task'[w].req].status # "absent"
    PROVE  TasksOK'
<1>1. Starter \in Workers /\ Tasks \subseteq Workers
  BY DEF Workers
<1>2. ASSUME NEW u \in Workers \ {w}
      PROVE  Sound(u)'
  <2> DEFINE m == task[u].req
  <2>1. Sound(u) /\ task'[u] = task[u]
    BY DEF TasksOK, StepOf
  <2>2. m \in Messages => ConvOf(m) \in Conversations
    BY ConvOfMessage
  <2>3. task[u].pc \in Inside \cup {"reported"} => m \in Messages /\ Registered(m)
    BY <2>1 DEF Sound, Inside
  <2>4. task[u].pc \in Inside \cup {"reported"} => request'[m].status # "absent"
    BY <2>3 DEF Keeps, Registered
  <2>5. task[u].pc \in Inside \cup {"reported"} => request'[m].intent = request[m].intent
    BY <2>3 DEF Keeps
  <2>6. task[u].pc \in Inside => lock'[ConvOf(m)] = u
    BY <2>1, <2>2, <2>3 DEF Sound, StepOf
  <2>7. flush'.by = u => task[u].pc = "flushing"
    BY <2>1 DEF Sound, StepOf
  <2> QED
    BY <2>1, <2>4, <2>5, <2>6, <2>7 DEF Sound, Inside, Registered
<1>3. \A u \in Workers : Sound(u)'
  BY <1>2
<1>4. \A v, u \in Workers : {task'[v].pc, task'[u].pc} \subseteq Synchronous => v = u
  BY DEF TasksOK, StepOf, LoopFree
<1>5. /\ task'[Starter].pc \in Inside \cup {"idle", "lock", "failing"}
      /\ task'[Starter].pc # "idle" => request'[task'[Starter].req].status # "absent"
  <2>1. CASE w = Starter
    BY <2>1
  <2>2. CASE w # Starter
    <3>1. task'[Starter] = task[Starter]
      BY <1>1, <2>2 DEF StepOf
    <3>2. task[Starter].pc # "idle" => task[Starter].req \in Messages /\ Registered(task[Starter].req)
      BY <1>1 DEF TasksOK, Sound
    <3> QED
      BY <3>1, <3>2 DEF TasksOK, Keeps, Registered
  <2> QED
    BY <2>1, <2>2
<1>6. ~Ready' => \A t \in Tasks : task'[t].pc \in {"idle", "done"}
  BY <1>1 DEF TasksOK, StepOf
<1>7. \A m \in recovery' : Registered(m)'
  BY DEF TasksOK, StepOf, Keeps, TypeOK
<1> QED
  BY <1>3, <1>4, <1>5, <1>6, <1>7 DEF TasksOK, Registered

LEMMA ReadyStays ==
    ASSUME TypeOK, TasksOK, NEW w \in Workers, task[w].pc \notin {"idle", "done"}, StepOf(w),
           recovery' = recovery
    PROVE  ~Ready' => /\ ~Ready
                      /\ w \in Tasks => task'[w].pc \in {"idle", "done"}
<1>1. Starter \in Workers /\ Starter \notin Tasks
  BY IdsAssumption DEF Workers
<1>2. CASE w \in Tasks
  <2>1. Ready
    BY <1>2 DEF TasksOK
  <2>2. task'[Starter] = task[Starter]
    BY <1>1, <1>2 DEF StepOf
  <2> QED
    BY <2>1, <2>2 DEF Ready
<1>3. CASE w = Starter
  BY <1>1, <1>3 DEF Ready
<1> QED
  BY <1>2, <1>3 DEF Workers

\* A coroutine goes on to pc, and keeps the locks it has.
LEMMA GoTasks ==
    ASSUME TypeOK, TasksOK, Keeps, NEW w \in Workers, NEW pc \in Pcs, Goes(w, pc),
           task[w].pc \notin {"idle", "done"}, UNCHANGED <<lock, recovery>>,
           \A u \in Workers \ {w} : flush'.by = u => flush.by = u,
           flush'.by = w => pc = "flushing",
           pc \in Inside => task[w].pc \in Inside,
           pc = "reported" => request'[task[w].req].status # "absent",
           pc = "forgot" => request[task[w].req].intent = "forget",
           pc = "backend" => request[task[w].req].intent \in {"chat", "query"},
           pc \in Synchronous => LoopFree \/ task[w].pc \in Synchronous,
           w = Starter => pc \in Inside
    PROVE  TasksOK'
<1> DEFINE m == task[w].req
<1>1. Sound(w) /\ m \in Messages
  BY DEF TasksOK, Sound
<1>2. StepOf(w)
  BY DEF Goes, StepOf
<1>3. Registered(m) => request'[m].status # "absent" /\ request'[m].intent = request[m].intent
  BY <1>1 DEF Keeps, Registered
<1>4. task[w].pc \in Inside => Registered(m)
  BY <1>1 DEF Sound
<1>5. Sound(w)'
  BY <1>1, <1>3, <1>4 DEF Goes, Sound, Registered, Inside
<1>6. w = Starter => /\ task'[w].pc \in Inside \cup {"idle", "lock", "failing"}
                     /\ task'[w].pc # "idle" => /\ task'[w].req \in Messages
                                                /\ request'[task'[w].req].status # "absent"
  BY <1>1, <1>3, <1>4 DEF Goes
<1> QED
  BY <1>2, <1>5, <1>6, ReadyStays, OneMoves

\* A coroutine leaves the lock.
LEMMA LeaveTasks ==
    ASSUME TypeOK, TasksOK, Keeps, NEW w \in Workers, Leave(w),
           task[w].pc \notin {"idle", "done", "flushing"}, UNCHANGED <<flush, recovery>>
    PROVE  TasksOK'
<1>1. Sound(w) /\ task[w].req \in Messages
  BY DEF TasksOK, Sound
<1>2. StepOf(w)
  <2>1. task'[w].pc \notin Synchronous
    BY LeaveEffect, IdleType DEF Goes, Synchronous
  <2> QED
    BY <2>1, LeaveEffect DEF Releases, StepOf
<1>3. Sound(w)' /\ (w = Starter => task'[w].pc = "idle")
  <2>1. flush'.by # w
    BY <1>1 DEF Sound
  <2> QED
    BY <1>1, <2>1, LeaveEffect, IdleType DEF Goes, Sound, Inside
<1> QED
  BY <1>2, <1>3, ReadyStays, OneMoves

LEMMA RaiseTasks ==
    ASSUME TypeOK, TasksOK, Keeps, NEW w \in Workers, Raise(w)
    PROVE  TasksOK'
<1> DEFINE m == task[w].req
<1>1. /\ Sound(w) /\ task[w].pc \in {"lock", "registered", "forgot", "backend", "answered"}
      /\ w = Starter => task[w].pc # "lock"
      /\ UNCHANGED <<flush, recovery>>
  BY DEF TasksOK, Raise, At
<1>2. m \in Messages
  BY <1>1 DEF Sound
<1>3. StepOf(w)
  BY <1>1, RaiseEffect DEF Releases, StepOf, Goes, Synchronous
<1>4. Sound(w)'
  BY <1>1, <1>2, RaiseEffect DEF Goes, Sound, Inside
<1>5. w = Starter => /\ task'[w].pc \in Inside \cup {"idle", "lock", "failing"}
                     /\ task'[w].pc # "idle" => /\ task'[w].req \in Messages
                                                /\ request'[task'[w].req].status # "absent"
  BY <1>1, <1>2, RaiseEffect DEF Goes, Sound, Inside, Keeps, Registered
<1> QED
  BY <1>1, <1>3, <1>4, <1>5, ReadyStays, OneMoves

LEMMA EnterTasks ==
    ASSUME TypeOK, TasksOK, Keeps, NEW w \in Workers, At(w, "lock"), ~Locked(ConvOf(task[w].req)),
           Enter(w, ConvOf(task[w].req)), request'[task[w].req].status # "absent",
           UNCHANGED <<flush, recovery>>
    PROVE  TasksOK'
<1> DEFINE m == task[w].req
           c == ConvOf(m)
<1>1. Sound(w) /\ task[w].pc = "lock" /\ LoopFree
  BY DEF TasksOK, At, Synchronous
<1>2. m \in Messages /\ c \in Conversations
  BY <1>1, ConvOfMessage DEF Sound
<1>3. Goes(w, "registered") /\ Locks(w, c)
  BY <1>2, EnterEffect
<1>4. StepOf(w)
  BY <1>1, <1>3, IdsAssumption DEF Goes, Locks, StepOf, Workers
<1>5. Sound(w)'
  BY <1>1, <1>2, <1>3 DEF Goes, Locks, Sound, Inside, Registered
<1>6. w = Starter => /\ task'[w].pc \in Inside \cup {"idle", "lock", "failing"}
                     /\ task'[w].pc # "idle" => /\ task'[w].req \in Messages
                                                /\ request'[task'[w].req].status # "absent"
  BY <1>2, <1>3 DEF Goes, Inside
<1> QED
  BY <1>1, <1>4, <1>5, <1>6, ReadyStays, OneMoves

TasksTyped ==
    /\ task' \in [Workers -> Worker] /\ lock' \in [Conversations -> Workers \cup {None}]
    /\ recovery' \subseteq Messages

LEMMA GotoStep ==
    ASSUME TypeOK, TasksOK, Keeps, NEW w \in Workers, NEW pc \in Pcs, Goto(w, pc),
           UNCHANGED <<lock, flush, recovery>>, task[w].pc \notin {"idle", "done", "flushing"},
           pc \in Inside => task[w].pc \in Inside,
           pc = "reported" => request'[task[w].req].status # "absent",
           pc = "forgot" => request[task[w].req].intent = "forget",
           pc = "backend" => request[task[w].req].intent \in {"chat", "query"},
           pc \in Synchronous => LoopFree \/ task[w].pc \in Synchronous,
           w = Starter => pc \in Inside
    PROVE  TasksTyped /\ TasksOK'
<1>1. Goes(w, pc)
  BY GotoEffect
<1>2. flush'.by # w
  BY DEF TasksOK, Sound
<1>3. TasksOK'
  BY <1>1, <1>2, GoTasks
<1> QED
  BY <1>1, <1>3 DEF TasksTyped, TypeOK, Goes

LEMMA LeaveStep ==
    ASSUME TypeOK, TasksOK, Keeps, NEW w \in Workers, Leave(w),
           task[w].pc \notin {"idle", "done", "flushing"}, UNCHANGED <<flush, recovery>>
    PROVE  TasksTyped /\ TasksOK'
BY LeaveTasks, LeaveEffect DEF Releases, TasksTyped, TypeOK

LEMMA MovingStep ==
    ASSUME TypeOK, TasksOK, RequestsOK, Keeps, NEW w \in Workers, Moving(w)
    PROVE  TasksTyped /\ TasksOK'
<1> DEFINE m == task[w].req
<1>1. Sound(w) /\ UNCHANGED flush
  BY MovingFrame DEF TasksOK
<1>2. ASSUME w \in Tasks, NEW k \in Messages, Receive(w, k)
      PROVE  TasksTyped /\ TasksOK'
  <2>1. /\ task' = [task EXCEPT ![w].req = k, ![w].pc = "lock"] /\ UNCHANGED <<lock, recovery>>
        /\ Ready /\ task[w].pc = "idle" /\ LoopFree
    BY <1>2 DEF Receive, At, Synchronous
  <2>2. /\ task' \in [Workers -> Worker] /\ task'[w].pc = "lock" /\ task'[w].req = k
        /\ \A u \in Workers \ {w} : task'[u] = task[u]
    BY <2>1, ReceiveEffect
  <2>3. StepOf(w)
    BY <1>1, <2>1, <2>2 DEF StepOf, Synchronous
  <2>4. w # Starter /\ Starter \in Workers
    BY <1>2, IdsAssumption DEF Workers
  <2>5. Ready'
    BY <2>1, <2>2, <2>4 DEF Ready
  <2>6. Sound(w)'
    BY <1>1, <2>1, <2>2 DEF Sound, Inside
  <2>7. TasksOK'
    BY <2>3, <2>4, <2>5, <2>6, OneMoves
  <2> QED
    BY <2>1, <2>2, <2>7 DEF TasksTyped, TypeOK
<1>3. CASE Register(w) \/ Resume(w)
  <2>1. /\ At(w, "lock") /\ ~Locked(ConvOf(m)) /\ Enter(w, ConvOf(m)) /\ UNCHANGED <<flush, recovery>>
    BY <1>3 DEF Register, Resume
  <2>2. m \in Messages /\ ConvOf(m) \in Conversations
    BY <1>1, <2>1, ConvOfMessage DEF At, Sound
  <2>3. request'[m].status # "absent"
    <3>1. CASE Register(w)
      BY <2>2, <3>1 DEF Register, TypeOK
    <3>2. CASE Resume(w)
      BY <2>2, <3>2 DEF Resume
    <3> QED
      BY <1>3, <3>1, <3>2
  <2>4. TasksOK'
    BY <2>1, <2>3, EnterTasks
  <2>5. TasksTyped
    BY <2>1, <2>2, EnterEffect DEF Goes, Locks, TasksTyped, TypeOK
  <2> QED
    BY <2>4, <2>5
<1>4. CASE Skip(w) \/ Settle(w)
  <2>1. Leave(w) /\ task[w].pc \in {"lock", "answered"} /\ UNCHANGED <<flush, recovery>>
    BY <1>4 DEF Skip, Settle, At
  <2> QED
    BY <2>1, LeaveStep
<1>5. CASE Raise(w)
  <2>1. TasksTyped
    BY <1>5, RaiseEffect DEF Goes, Releases, TasksTyped, TypeOK, Raise
  <2> QED
    BY <1>5, <2>1, RaiseTasks
<1>6. CASE Forget(w) \/ Ask(w)
  <2>1. /\ task[w].pc = "registered" /\ UNCHANGED <<lock, recovery>>
        /\ \/ Goto(w, "forgot") /\ request[m].intent = "forget"
           \/ Goto(w, "backend") /\ request[m].intent \in {"chat", "query"}
    BY <1>6 DEF Forget, Ask, Executes, At
  <2>2. CASE Goto(w, "forgot") /\ request[m].intent = "forget"
    BY <1>1, <2>1, <2>2, GotoStep DEF Pcs, Synchronous, Inside
  <2>3. CASE Goto(w, "backend") /\ request[m].intent \in {"chat", "query"}
    BY <1>1, <2>1, <2>3, GotoStep DEF Pcs, Synchronous, Inside
  <2> QED
    BY <2>1, <2>2, <2>3
<1>7. CASE RecordFailure(w)
  <2>1. /\ task[w].pc = "failing" /\ LoopFree /\ UNCHANGED <<lock, recovery>> /\ w # Starter
        /\ Goto(w, "flush") \/ Goto(w, "reported")
    BY <1>7 DEF RecordFailure, At, Synchronous
  <2>2. CASE Goto(w, "flush")
    BY <1>1, <2>1, <2>2, GotoStep DEF Pcs, Synchronous, Inside
  <2>3. CASE Goto(w, "reported") /\ ~Goto(w, "flush")
    <3>1. m \in Messages
      BY <1>1, <2>1 DEF Sound
    <3>2. request'[m].status # "absent"
      <4>1. CASE Registered(m)
        BY <3>1, <4>1 DEF Keeps, Registered
      <4>2. CASE ~Registered(m)
        BY <1>7, <2>3, <3>1, <4>2 DEF RecordFailure, Registered, TypeOK
      <4> QED
        BY <4>1, <4>2
    <3> QED
      BY <1>1, <2>1, <2>3, <3>2, GotoStep DEF Pcs, Synchronous, Inside
  <2> QED
    BY <2>1, <2>2, <2>3
<1>8. CASE GiveUp(w)
  <2>1. /\ task[w].pc \in {"failing", "reported"} /\ UNCHANGED <<lock, recovery>> /\ w # Starter
        /\ Goto(w, "done")
    BY <1>8 DEF GiveUp, At
  <2> QED
    BY <1>1, <2>1, GotoStep DEF Pcs, Synchronous, Inside
<1>9. CASE w = Starter /\ RecoverNext
  <2>1. PICK k \in recovery : /\ task' = [task EXCEPT ![w].req = k, ![w].pc = "lock"]
                              /\ recovery' = recovery \ {k}
    BY <1>9 DEF RecoverNext
  <2>2. k \in Messages /\ Registered(k) /\ UNCHANGED lock /\ task[w].pc = "idle"
    BY <1>9 DEF TypeOK, TasksOK, RecoverNext, At
  <2>3. /\ task' \in [Workers -> Worker] /\ task'[w].pc = "lock" /\ task'[w].req = k
        /\ \A u \in Workers \ {w} : task'[u] = task[u]
    BY <2>1, <2>2, ReceiveEffect
  <2>4. StepOf(w)
    BY <1>1, <2>1, <2>2, <2>3 DEF StepOf, Synchronous
  <2>5. Sound(w)' /\ ~Ready /\ w \notin Tasks
    BY <1>1, <1>9, <2>2, <2>3, IdsAssumption DEF Sound, Inside, Ready
  <2>6. request'[task'[w].req].status # "absent"
    BY <2>2, <2>3 DEF Keeps, Registered
  <2>7. TasksOK'
    BY <2>2, <2>3, <2>4, <2>5, <2>6, OneMoves
  <2> QED
    BY <2>1, <2>2, <2>3, <2>7 DEF TasksTyped, TypeOK
<1> QED
  BY <1>2, <1>3, <1>4, <1>5, <1>6, <1>7, <1>8, <1>9 DEF Moving

LEMMA AnsweringStep ==
    ASSUME TypeOK, TasksOK, Keeps, NEW w \in Workers, Answering(w)
    PROVE  TasksTyped /\ TasksOK'
<1>1. Sound(w) /\ UNCHANGED <<flush, recovery>>
  BY AnsweringFrame DEF TasksOK
<1>2. CASE Acknowledge(w) \/ Refuse(w) \/ AnswerChat(w) \/ AnswerFailure(w)
  <2>1. Leave(w) /\ task[w].pc \in {"registered", "backend"}
    BY <1>2 DEF Acknowledge, Refuse, AnswerChat, AnswerFailure, Executes, At
  <2> QED
    BY <1>1, <2>1, LeaveStep
<1>3. CASE AnswerForget(w) \/ AnswerQuery(w)
  <2>1. /\ Goto(w, "answered") /\ UNCHANGED lock /\ task[w].pc \in {"forgot", "backend"}
        /\ LoopFree \/ task[w].pc \in Synchronous
    BY <1>3 DEF AnswerForget, AnswerQuery, At
  <2> QED
    BY <1>1, <2>1, GotoStep DEF Pcs, Synchronous, Inside
<1>4. CASE Notify(w)
  <2>1. /\ UNCHANGED lock /\ task[w].pc = "backend" /\ Goes(w, "backend")
    BY <1>4, NotifyEffect DEF Notify, At
  <2>2. flush'.by # w /\ request[task[w].req].intent \in {"chat", "query"}
    BY <1>1, <2>1 DEF Sound
  <2>3. TasksOK'
    BY <1>1, <2>1, <2>2, GoTasks DEF Pcs, Synchronous, Inside
  <2> QED
    BY <1>1, <2>1, <2>3 DEF TasksTyped, TypeOK, Goes
<1>5. CASE w \in Tasks /\ ReportFailure(w)
  <2>1. /\ Goto(w, "flush") /\ UNCHANGED lock /\ task[w].pc = "reported" /\ w # Starter
    BY <1>5, IdsAssumption DEF ReportFailure, At
  <2> QED
    BY <1>1, <2>1, GotoStep DEF Pcs, Synchronous, Inside
<1>6. CASE w = Starter /\ RecoverFailure
  <2>1. /\ task' = [task EXCEPT ![w] = Idle] /\ UNCHANGED lock /\ task[w].pc = "failing"
    BY <1>6 DEF RecoverFailure, At
  <2>2. /\ task' \in [Workers -> Worker] /\ task'[w] = Idle
        /\ \A u \in Workers \ {w} : task'[u] = task[u]
    BY <2>1, IdleType, SetTaskEffect
  <2>3. StepOf(w) /\ task'[w].pc = "idle"
    BY <1>1, <2>1, <2>2, IdleType DEF StepOf, Synchronous
  <2>4. Sound(w)'
    BY <1>1, <2>1, <2>3 DEF Sound, Inside
  <2>5. TasksOK'
    BY <1>1, <2>1, <2>3, <2>4, ReadyStays, OneMoves
  <2> QED
    BY <1>1, <2>1, <2>2, <2>5 DEF TasksTyped, TypeOK
<1> QED
  BY <1>2, <1>3, <1>4, <1>5, <1>6 DEF Answering

LEMMA StillStep ==
    ASSUME TypeOK, TasksOK, Keeps, UNCHANGED <<task, lock, recovery>>,
           \A u \in Workers : flush'.by = u => flush.by = u
    PROVE  TasksTyped /\ TasksOK'
<1>1. Starter \in Workers
  BY DEF Workers
<1>2. ASSUME NEW u \in Workers
      PROVE  Sound(u)'
  <2> DEFINE m == task[u].req
  <2>1. Sound(u)
    BY DEF TasksOK
  <2>2. task[u].pc \in Inside \cup {"reported"} => m \in Messages /\ Registered(m)
    BY <2>1 DEF Sound, Inside
  <2>3. task[u].pc \in Inside \cup {"reported"} =>
          request'[m].status # "absent" /\ request'[m].intent = request[m].intent
    BY <2>2 DEF Keeps, Registered
  <2> QED
    BY <2>1, <2>3 DEF Sound, Inside, Registered
<1>3. task[Starter].pc # "idle" => request'[task[Starter].req].status # "absent"
  BY <1>1 DEF TasksOK, Sound, Keeps, Registered
<1>4. \A m \in recovery' : Registered(m)'
  BY DEF TasksOK, Keeps, TypeOK
<1>5. TasksOK'
  BY <1>2, <1>3, <1>4 DEF TasksOK, Ready, Registered
<1> QED
  BY <1>5 DEF TasksTyped, TypeOK

LEMMA OfJobStep ==
    ASSUME TypeOK, TasksOK, Keeps, NEW m, OfJob(m)
    PROVE  TasksTyped /\ TasksOK'
BY OfJobFrame, StillStep

\* Whoever flushes goes on.
LEMMA ProceedStep ==
    ASSUME TypeOK, TasksOK, Keeps, NEW w \in Tasks \cup {None}, NEW parts, Proceed(w, parts),
           UNCHANGED <<lock, recovery>>, w # None => task[w].pc \in {"flush", "flushing"},
           w = flush.by \/ flush = Unflushed
    PROVE  TasksTyped /\ TasksOK'
<1>1. None \notin Workers /\ Tasks \subseteq Workers /\ Starter \notin Tasks
  BY IdsAssumption DEF Workers, Messages
<1>2. flush'.by \in {w, None} /\ (parts = {} => flush'.by = None)
  BY DEF Proceed, Unflushed
<1>3. CASE w = None
  <2>1. UNCHANGED task
    BY <1>3 DEF Proceed
  <2> QED
    BY <1>1, <1>2, <1>3, <2>1, StillStep
<1>4. CASE w # None
  <2>1. \A u \in Workers \ {w} : flush'.by = u => flush.by = u
    BY <1>1, <1>2
  <2>2. CASE Goes(w, "done") /\ parts = {} /\ flush' = Unflushed
    <3>1. TasksOK'
      BY <1>1, <1>2, <1>4, <2>1, <2>2, GoTasks DEF Pcs, Synchronous, Inside
    <3> QED
      BY <2>2, <3>1 DEF TasksTyped, TypeOK, Goes
  <2>3. CASE Goes(w, "flushing") /\ flush'.by = w
    <3>1. TasksOK'
      BY <1>1, <1>2, <1>4, <2>1, <2>3, GoTasks DEF Pcs, Synchronous, Inside
    <3> QED
      BY <2>3, <3>1 DEF TasksTyped, TypeOK, Goes
  <2> QED
    BY <1>4, <2>2, <2>3, ProceedEffect
<1> QED
  BY <1>3, <1>4

LEMMA DeliveryStep ==
    ASSUME TypeOK, TasksOK, Keeps, Beginning \/ Sent \/ SendFails
    PROVE  TasksTyped /\ TasksOK'
<1>1. Tasks \subseteq Workers
  BY DEF Workers
<1>2. UNCHANGED <<lock, recovery>>
  BY BeginningFrame, SentFrame, SendFailsFrame
<1>3. ASSUME NEW t \in Tasks, FlushOwn(t)
      PROVE  TasksTyped /\ TasksOK'
  BY <1>2, <1>3, ProceedStep DEF FlushOwn, At
<1>4. CASE FlushAll
  BY <1>2, <1>4, ProceedStep DEF FlushAll
<1>5. CASE Sent \/ SendFails
  <2> DEFINE w == flush.by
  <2>1. w \in Tasks \cup {None} /\ (w # None => task[w].pc = "flushing")
    BY <1>1 DEF TypeOK, TasksOK, Sound
  <2>2. CASE Sent
    BY <1>2, <2>1, <2>2, ProceedStep DEF Sent
  <2>3. CASE SendFails
    BY <1>2, <2>1, <2>3, ProceedStep DEF SendFails
  <2> QED
    BY <1>5, <2>2, <2>3
<1> QED
  BY <1>3, <1>4, <1>5 DEF Beginning

LEMMA CrashStep ==
    ASSUME TypeOK, TasksOK, Keeps, Crash
    PROVE  TasksTyped /\ TasksOK'
<1>1. Starter \in Workers /\ Workers = Tasks \cup {Starter} /\ None \notin Workers
  BY IdsAssumption DEF Workers
<1>2. \A t \in Tasks : task'[t].pc \in {"idle", "done"}
                       /\ (task'[t].pc = "done" => task'[t].req = task[t].req /\ task[t].pc # "idle")
  BY CrashEffect, IdleType
<1>3. task'[Starter].pc = "idle" /\ flush'.by = None
  BY CrashEffect, IdleType DEF Unflushed
<1>4. \A u \in Workers : Sound(u)'
  BY <1>1, <1>2, <1>3 DEF TasksOK, Sound, Inside
<1>5. \A m \in recovery' : m \in Messages /\ Registered(m)'
  BY CrashEffect DEF Recoverable, Registered, Keeps
<1>6. TasksOK'
  BY <1>1, <1>2, <1>3, <1>4, <1>5 DEF TasksOK, Synchronous
<1> QED
  BY <1>5, <1>6, CrashEffect DEF TasksTyped

LEMMA TasksStep ==
    ASSUME IInv, Next
    PROVE  TasksTyped /\ TasksOK'
<1>1. Keeps
  BY RequestKinds, RequestType DEF IInv
<1>2. ASSUME Rest
      PROVE  TasksTyped /\ TasksOK'
  BY <1>1, <1>2, RestFrame, StillStep DEF IInv, vars
<1> QED
  BY <1>1, <1>2, StepKinds, MovingStep, AnsweringStep, OfJobStep, DeliveryStep, CrashStep DEF IInv

-----------------------------------------------------------------------------
(* The other variables.                                                    *)

LEMMA MemoryKinds ==
    ASSUME Next
    PROVE  Sent \/ (\E w \in Workers : Forget(w)) \/ UNCHANGED <<gen, exchanges>>
<1>1. ASSUME NEW w, Moving(w)
      PROVE  Forget(w) \/ UNCHANGED <<gen, exchanges>>
  BY <1>1 DEF Moving, Receive, Register, Resume, Skip, Ask, Settle, Raise, RecordFailure, GiveUp,
     RecoverNext
<1>2. Rest => UNCHANGED <<gen, exchanges>>
  BY RestFrame DEF vars
<1> QED
  BY <1>1, <1>2, StepKinds, AnsweringFrame, OfJobFrame, BeginningFrame, SendFailsFrame, CrashFrame

LEMMA SentMemory ==
    ASSUME TypeOK, FlushOK, Sent
    PROVE  exchanges' = exchanges \/ \E m \in Messages : exchanges' = exchanges \cup {m}
<1> DEFINE i == flush.part[1]
<1>1. out[i] \in Output /\ out'[i].req = out[i].req
  BY SentEffect, PartBeingSent DEF Sent, Acknowledged
<1>2. out[i].req \in Messages
  BY <1>1 DEF Output
<1>3. exchanges' = exchanges \/ exchanges' = exchanges \cup {out'[i].req}
  BY SentEffect DEF Completed
<1> QED
  BY <1>1, <1>2, <1>3

LEMMA MemoryType ==
    ASSUME TypeOK, TasksOK, FlushOK, Next
    PROVE  gen' \in [Conversations -> Nat] /\ exchanges' \subseteq Messages
<1>1. CASE Sent
  BY <1>1, SentMemory, SentFrame DEF TypeOK
<1>2. ASSUME NEW w \in Workers, Forget(w)
      PROVE  gen' \in [Conversations -> Nat] /\ exchanges' \subseteq Messages
  <2> DEFINE c == ConvOf(task[w].req)
  <2>1. gen' = [gen EXCEPT ![c] = NextGeneration(@)] /\ exchanges' = exchanges \ c
    BY <1>2 DEF Forget
  <2>2. c \in Conversations
    BY <1>2, ConvOfMessage DEF Forget, Executes, At, TasksOK, Sound
  <2>3. gen[c] \in Nat /\ gen[c] + 1 \in Nat
    BY <2>2 DEF TypeOK
  <2> QED
    BY <2>1, <2>2, <2>3 DEF NextGeneration, TypeOK
<1> QED
  BY <1>1, <1>2, MemoryKinds DEF TypeOK

LEMMA JobKinds ==
    ASSUME Next
    PROVE  \/ UNCHANGED job
           \/ \E w \in Workers : Register(w)
           \/ \E m \in Messages, s \in JobStates \ {"none"} :
                 job[m] # "none" /\ job' = [job EXCEPT ![m] = s]
<1>1. ASSUME NEW w, Moving(w)
      PROVE  Register(w) \/ UNCHANGED job
  BY <1>1 DEF Moving, Receive, Forget, Resume, Skip, Ask, Settle, Raise, RecordFailure, GiveUp,
     RecoverNext
<1>2. ASSUME NEW m \in Messages, OfJob(m)
      PROVE  \/ UNCHANGED job
             \/ \E s \in JobStates \ {"none"} : job[m] # "none" /\ job' = [job EXCEPT ![m] = s]
  BY <1>2 DEF OfJob, RunJob, StartJob, EndJob, NotifyJob, MarkNotified, JobProgress, JobStates
<1>3. Rest => UNCHANGED job
  BY RestFrame DEF vars
<1> QED
  BY <1>1, <1>2, <1>3, StepKinds, AnsweringFrame, BeginningFrame, SendFailsFrame, SentFrame,
     CrashFrame

LEMMA JobType ==
    ASSUME TypeOK, Next
    PROVE  job' \in [Messages -> JobStates]
<1>1. ASSUME NEW w \in Workers, Register(w)
      PROVE  job' \in [Messages -> JobStates]
  BY <1>1 DEF Register, TypeOK, JobStates
<1> QED
  BY <1>1, JobKinds DEF TypeOK

LEMMA UsedType ==
    ASSUME TypeOK, Next
    PROVE  used' \in [crashes: Nat, failures: Nat, losses: Nat]
<1>1. ASSUME NEW w, Moving(w)
      PROVE  UNCHANGED used \/ used' = [used EXCEPT !.failures = @ + 1]
  BY <1>1 DEF Moving, Receive, Register, Forget, Resume, Skip, Ask, Settle, Raise, RecordFailure,
     GiveUp, RecoverNext
<1>2. /\ SendFails => used' = [used EXCEPT !.losses = @ + 1]
      /\ Crash => used' = [used EXCEPT !.crashes = @ + 1]
      /\ Rest => UNCHANGED used
  BY RestFrame DEF SendFails, Crash, vars
<1>3. \/ UNCHANGED used
      \/ used' = [used EXCEPT !.failures = @ + 1]
      \/ used' = [used EXCEPT !.losses = @ + 1]
      \/ used' = [used EXCEPT !.crashes = @ + 1]
  BY <1>1, <1>2, StepKinds, AnsweringFrame, OfJobFrame, BeginningFrame, SentFrame
<1> DEFINE Used == [crashes: Nat, failures: Nat, losses: Nat]
<1>4. used \in Used
  BY DEF TypeOK
<1>5. used' = [used EXCEPT !.failures = @ + 1] => used' \in Used
  BY <1>4
<1>6. used' = [used EXCEPT !.losses = @ + 1] => used' \in Used
  BY <1>4
<1>7. used' = [used EXCEPT !.crashes = @ + 1] => used' \in Used
  BY <1>4
<1> QED
  BY <1>3, <1>4, <1>5, <1>6, <1>7

\* What the user sees.
ShownKinds ==
    \/ shown' = shown
    \/ flush # Unflushed /\ shown' = Append(shown, flush.part)

LEMMA ShownMoves ==
    ASSUME Storing \/ Beginning \/ Sent \/ Breaking \/ UNCHANGED <<out, shown, flush>>
    PROVE  ShownKinds
BY BeginningFrame DEF Storing, Sent, Breaking, SendFails, Crash, BreakOff, ShownKinds

LEMMA ShownType ==
    ASSUME TypeOK, FlushOK, ShownKinds, out' \in Seq(Output), Extends(out, out')
    PROVE  shown' \in Seq((DOMAIN out') \X (1..MaxParts))
<1> DEFINE S == (DOMAIN out) \X (1..MaxParts)
           T == (DOMAIN out') \X (1..MaxParts)
<1>1. S \subseteq T
  BY ExtendsKeeps DEF TypeOK
<1>2. shown \in Seq(S)
  BY DEF TypeOK
<1>3. shown' \in Seq(S)
  <2>1. CASE shown' = shown
    BY <1>2, <2>1
  <2>2. CASE flush # Unflushed /\ shown' = Append(shown, flush.part)
    <3>1. flush.part \in S
      BY <2>2, PartBeingSent DEF AllParts
    <3> HIDE DEF S
    <3> QED
      BY <1>2, <2>2, <3>1
  <2> QED
    BY <2>1, <2>2 DEF ShownKinds
<1> HIDE DEF S, T
<1>4. shown' \in Seq(T)
  BY <1>1, <1>3, SeqMonotonic
<1> QED
  BY <1>4 DEF T

\* A flush goes on with some parts of the outbox, or ends.
FlushKinds ==
    \/ flush' = flush
    \/ flush' = Unflushed
    \/ \E w \in Tasks \cup {None}, parts \in SUBSET AllParts(out') : \E x \in parts :
          flush' = [by |-> w, part |-> x, todo |-> parts \ {x}]

LEMMA ProceedFlush ==
    ASSUME NEW w \in Tasks \cup {None}, NEW parts \in SUBSET AllParts(out'), Proceed(w, parts)
    PROVE  FlushKinds
BY DEF Proceed, FlushKinds

LEMMA FlushMoves ==
    ASSUME TypeOK, FlushOK, Storing \/ Beginning \/ Sent \/ Breaking \/ UNCHANGED <<out, shown, flush>>
    PROVE  FlushKinds
<1>1. CASE Storing \/ UNCHANGED <<out, shown, flush>> \/ Breaking
  BY <1>1 DEF Storing, Breaking, SendFails, Crash, Proceed, FlushKinds
<1>2. CASE Beginning
  <2>1. UNCHANGED out
    BY <1>2, BeginningFrame
  <2>2. \E w \in Tasks \cup {None} : \E ms : Proceed(w, PendingParts(out, ms))
    BY <1>2 DEF Beginning, FlushAll, FlushOwn
  <2>3. PICK w \in Tasks \cup {None} : \E ms : Proceed(w, PendingParts(out, ms))
    BY <2>2
  <2>4. PICK ms : Proceed(w, PendingParts(out, ms))
    BY <2>3
  <2>5. PendingParts(out, ms) \in SUBSET AllParts(out')
    BY <2>1 DEF PendingParts
  <2> QED
    BY <2>4, <2>5, ProceedFlush
<1>3. CASE Sent
  <2>1. Proceed(flush.by, StillPending(out', flush.todo)) /\ flush.by \in Tasks \cup {None}
    BY <1>3 DEF Sent, TypeOK
  <2>2. AllParts(out) \subseteq AllParts(out')
    BY <1>3, OutType, ExtendsKeeps DEF TypeOK
  <2>3. StillPending(out', flush.todo) \in SUBSET AllParts(out')
    BY <2>2 DEF TypeOK, StillPending
  <2> QED
    BY <2>1, <2>3, ProceedFlush
<1> QED
  BY <1>1, <1>2, <1>3

LEMMA FlushType ==
    ASSUME TypeOK, FlushKinds, AllParts(out) \subseteq AllParts(out')
    PROVE  flush' \in [by: Tasks \cup {None}, part: AllParts(out') \cup {NoPart},
                       todo: SUBSET AllParts(out')]
<1>1. CASE flush' = flush \/ flush' = Unflushed
  BY <1>1 DEF TypeOK, Unflushed
<1>2. ASSUME NEW w \in Tasks \cup {None}, NEW parts \in SUBSET AllParts(out'), NEW x \in parts,
             flush' = [by |-> w, part |-> x, todo |-> parts \ {x}]
      PROVE  flush' \in [by: Tasks \cup {None}, part: AllParts(out') \cup {NoPart},
                         todo: SUBSET AllParts(out')]
  BY <1>2
<1> QED
  BY <1>1, <1>2 DEF FlushKinds

LEMMA TypeStep ==
    ASSUME IInv, Next
    PROVE  TypeOK'
<1>1. request' \in [Messages -> Request] /\ arrival' \in Seq(Messages)
  BY RequestKinds, RequestType DEF IInv
<1>2. TasksTyped
  BY TasksStep
<1>3. Storing \/ Beginning \/ Sent \/ Breaking \/ UNCHANGED <<out, shown, flush>>
  BY OutKinds DEF IInv
<1>4. out' \in Seq(Output) /\ Extends(out, out')
  BY <1>3, OutType DEF IInv
<1>5. shown' \in Seq((DOMAIN out') \X (1..MaxParts))
  BY <1>3, <1>4, ShownMoves, ShownType DEF IInv
<1>6. AllParts(out) \subseteq AllParts(out')
  BY <1>4, ExtendsKeeps DEF IInv, TypeOK
<1>7. flush' \in [by: Tasks \cup {None}, part: AllParts(out') \cup {NoPart},
                  todo: SUBSET AllParts(out')]
  BY <1>3, <1>6, FlushMoves, FlushType DEF IInv
<1>8. /\ gen' \in [Conversations -> Nat] /\ exchanges' \subseteq Messages
      /\ job' \in [Messages -> JobStates]
      /\ used' \in [crashes: Nat, failures: Nat, losses: Nat]
  BY MemoryType, JobType, UsedType DEF IInv
<1> QED
  BY <1>1, <1>2, <1>4, <1>5, <1>7, <1>8 DEF TypeOK, TasksTyped

-----------------------------------------------------------------------------
(* Requests, jobs and arrivals.                                            *)

LEMMA NextExtends ==
    ASSUME IInv, Next
    PROVE  /\ out' \in Seq(Output) /\ Extends(out, out')
           /\ \A m : HasFinal(out, m) => HasFinal(out', m)
BY OutKinds, OutType, ExtendsKeeps DEF IInv, TypeOK

LEMMA NextKeeps ==
    ASSUME IInv, Next
    PROVE  RequestChanges /\ Keeps
BY RequestKinds, RequestType DEF IInv

LEMMA GenGrows ==
    ASSUME IInv, Next
    PROVE  \A c \in Conversations : gen[c] <= gen'[c]
<1>1. \A c \in Conversations : gen[c] \in Nat
  BY DEF IInv, TypeOK
<1>2. ASSUME NEW w \in Workers, Forget(w)
      PROVE  \A c \in Conversations : gen[c] <= gen'[c]
  BY <1>1, <1>2 DEF Forget, NextGeneration, IInv, TypeOK
<1> QED
  BY <1>1, <1>2, MemoryKinds, SentFrame

LEMMA StatusStep ==
    ASSUME IInv, Next, NEW m \in Messages, request'[m].status = "completed"
    PROVE  HasFinal(out', m)
<1>1. request[m].status = "completed" => HasFinal(out, m)
  BY DEF IInv, RequestsOK
<1>2. CASE UNCHANGED <<request, arrival>>
  BY <1>1, <1>2, NextExtends
<1>3. ASSUME NEW k \in Messages, NEW s \in {"processing", "failed", "completed"}, GetsStatus(k, s)
      PROVE  HasFinal(out', m)
  <2>1. request' = [request EXCEPT ![k].status = s] /\ (s = "completed" => HasFinal(out, k))
    BY <1>3 DEF GetsStatus, SetStatus
  <2>2. request \in [Messages -> Request] /\ request[m] \in Request
    BY DEF IInv, TypeOK
  <2>3. request'[m].status = IF m = k THEN s ELSE request[m].status
    BY <2>1, <2>2 DEF Request
  <2> QED
    BY <1>1, <2>1, <2>3, NextExtends
<1>4. ASSUME NEW k \in Messages, NEW r \in Request, GetsRow(k, r)
      PROVE  HasFinal(out', m)
  <2>1. request' = [request EXCEPT ![k] = r] /\ r.status # "completed"
    BY <1>4 DEF GetsRow
  <2>2. request'[m] = IF m = k THEN r ELSE request[m]
    BY <2>1 DEF IInv, TypeOK
  <2> QED
    BY <1>1, <2>1, <2>2, NextExtends
<1> QED
  BY <1>2, <1>3, <1>4, NextKeeps DEF RequestChanges, GettingStatus, GettingRow

LEMMA JobStep ==
    ASSUME IInv, Next, NEW m \in Messages, job'[m] # "none"
    PROVE  Registered(m)' /\ m \in JobMessages
<1>1. job[m] # "none" => Registered(m) /\ m \in JobMessages
  BY DEF IInv, RequestsOK
<1>2. Registered(m) => Registered(m)'
  BY NextKeeps DEF Keeps
<1>3. CASE UNCHANGED job
  BY <1>1, <1>2, <1>3
<1>4. ASSUME NEW w \in Workers, Register(w)
      PROVE  Registered(m)' /\ m \in JobMessages
  <2> DEFINE k == task[w].req
  <2>1. job' = [job EXCEPT ![k] = IF k \in JobMessages THEN "queued" ELSE "none"]
    BY <1>4 DEF Register
  <2>2. job'[m] = IF m = k THEN IF k \in JobMessages THEN "queued" ELSE "none" ELSE job[m]
    BY <2>1 DEF IInv, TypeOK
  <2>3. m = k => request'[m].status = "received"
    BY <1>4 DEF Register, IInv, TypeOK
  <2> QED
    BY <1>1, <1>2, <2>2, <2>3 DEF Registered
<1>5. ASSUME NEW k \in Messages, NEW s, job[k] # "none", job' = [job EXCEPT ![k] = s]
      PROVE  Registered(m)' /\ m \in JobMessages
  <2>1. job[m] # "none"
    BY <1>5 DEF IInv, TypeOK
  <2> QED
    BY <1>1, <1>2, <2>1
<1> QED
  BY <1>3, <1>4, <1>5, JobKinds

\* The order of registration.
ArrivalOK ==
    /\ \A m \in Messages : Registered(m) => \E n \in DOMAIN arrival : arrival[n] = m
    /\ \A n \in DOMAIN arrival : Registered(arrival[n])
    /\ \A n, k \in DOMAIN arrival : arrival[n] = arrival[k] => n = k

LEMMA ArrivalStep ==
    ASSUME IInv, Next
    PROVE  ArrivalOK'
<1>1. ArrivalOK /\ arrival \in Seq(Messages) /\ request \in [Messages -> Request]
  BY DEF IInv, RequestsOK, ArrivalOK, TypeOK
<1>2. CASE UNCHANGED <<request, arrival>>
  BY <1>1, <1>2 DEF ArrivalOK, Registered
<1>3. ASSUME NEW k \in Messages, NEW s \in {"processing", "failed", "completed"}, GetsStatus(k, s)
      PROVE  ArrivalOK'
  <2>1. request' = [request EXCEPT ![k].status = s] /\ UNCHANGED arrival /\ Registered(k)
    BY <1>3 DEF GetsStatus, SetStatus
  <2>2. \A m \in Messages : request'[m].status = IF m = k THEN s ELSE request[m].status
    BY <1>1, <2>1 DEF Request
  <2>3. \A m \in Messages : request'[m].status # "absent" <=> request[m].status # "absent"
    BY <2>1, <2>2 DEF Registered
  <2>4. \A n \in DOMAIN arrival : arrival[n] \in Messages
    BY <1>1
  <2> QED
    BY <1>1, <2>1, <2>3, <2>4 DEF ArrivalOK, Registered
<1>4. ASSUME NEW k \in Messages, NEW r \in Request, GetsRow(k, r)
      PROVE  ArrivalOK'
  <2>1. /\ request' = [request EXCEPT ![k] = r] /\ r.status # "absent" /\ ~Registered(k)
        /\ arrival' = Append(arrival, k)
    BY <1>4 DEF GetsRow
  <2>2. \A m \in Messages : request'[m].status # "absent" <=> request[m].status # "absent" \/ m = k
    BY <1>1, <2>1
  <2>3. /\ DOMAIN arrival' = 1..(Len(arrival) + 1) /\ DOMAIN arrival = 1..Len(arrival)
        /\ Len(arrival) \in Nat /\ arrival'[Len(arrival) + 1] = k
        /\ \A n \in DOMAIN arrival : arrival'[n] = arrival[n] /\ arrival[n] \in Messages
    BY <1>1, <2>1
  <2>4. \A n \in DOMAIN arrival : arrival[n] # k
    BY <1>1, <2>1 DEF ArrivalOK
  <2>5. \A n \in DOMAIN arrival' : request'[arrival'[n]].status # "absent"
    <3> TAKE n \in DOMAIN arrival'
    <3>1. CASE n \in DOMAIN arrival
      BY <1>1, <2>2, <2>3, <3>1 DEF ArrivalOK, Registered
    <3>2. CASE n = Len(arrival) + 1
      BY <2>2, <2>3, <3>2
    <3> QED
      BY <2>3, <3>1, <3>2
  <2>6. \A m \in Messages : request'[m].status # "absent" => \E n \in DOMAIN arrival' : arrival'[n] = m
    <3> TAKE m \in Messages
    <3>1. CASE Registered(m)
      BY <1>1, <2>3, <3>1 DEF ArrivalOK
    <3>2. CASE m = k
      BY <2>3, <3>2
    <3> QED
      BY <2>2, <3>1, <3>2 DEF Registered
  <2>7. \A n, j \in DOMAIN arrival' : arrival'[n] = arrival'[j] => n = j
    BY <1>1, <2>3, <2>4 DEF ArrivalOK
  <2> QED
    BY <2>5, <2>6, <2>7 DEF ArrivalOK, Registered
<1> QED
  BY <1>2, <1>3, <1>4, NextKeeps DEF RequestChanges, GettingStatus, GettingRow

LEMMA RowStep ==
    ASSUME IInv, Next, NEW m \in Messages
    PROVE  /\ request'[m].gen <= gen'[ConvOf(m)]
           /\ request'[m].intent \in {"none", IntentOf(m)}
<1> DEFINE c == ConvOf(m)
<1>1. /\ request[m].gen <= gen[c] /\ request[m].intent \in {"none", IntentOf(m)}
      /\ request \in [Messages -> Request] /\ request[m] \in Request
  BY DEF IInv, RequestsOK, TypeOK
<1>2. c \in Conversations /\ gen[c] \in Nat /\ gen'[c] \in Nat /\ gen[c] <= gen'[c]
  BY ConvOfMessage, GenGrows, TypeStep DEF IInv, TypeOK
<1>3. request[m].gen \in Nat /\ request[m].gen <= gen'[c]
  BY <1>1, <1>2 DEF Request
<1>4. CASE UNCHANGED <<request, arrival>>
  BY <1>1, <1>3, <1>4
<1>5. ASSUME NEW k \in Messages, NEW s, GetsStatus(k, s)
      PROVE  request'[m].gen = request[m].gen /\ request'[m].intent = request[m].intent
  BY <1>1, <1>5 DEF GetsStatus, SetStatus, Request
<1>6. ASSUME NEW k \in Messages, NEW r \in Request, GetsRow(k, r)
      PROVE  /\ request'[m].gen <= gen'[c]
             /\ request'[m].intent \in {"none", IntentOf(m)}
  <2>1. /\ request' = [request EXCEPT ![k] = r] /\ r.gen = gen[ConvOf(k)]
        /\ r.intent \in {"none", IntentOf(k)}
    BY <1>6 DEF GetsRow
  <2>2. request'[m] = IF m = k THEN r ELSE request[m]
    BY <1>1, <2>1
  <2> QED
    BY <1>1, <1>2, <1>3, <2>1, <2>2
<1> QED
  BY <1>1, <1>3, <1>4, <1>5, <1>6, NextKeeps DEF RequestChanges, GettingStatus, GettingRow

LEMMA RequestsStep ==
    ASSUME IInv, Next
    PROVE  RequestsOK'
<1>1. \A m \in Messages : request'[m].status = "completed" => HasFinal(out', m)
  BY StatusStep
<1>2. \A m \in Messages : job'[m] # "none" => request'[m].status # "absent" /\ m \in JobMessages
  BY JobStep DEF Registered
<1>3. \A m \in Messages : /\ request'[m].gen <= gen'[ConvOf(m)]
                          /\ request'[m].intent \in {"none", IntentOf(m)}
  BY RowStep
<1> QED
  BY <1>1, <1>2, <1>3, ArrivalStep DEF RequestsOK, ArrivalOK, Registered

-----------------------------------------------------------------------------
(* The rows of the outbox.                                                 *)

\* Nothing is acknowledged of a new row.
NewRow(o) == o.acked = {} /\ o.done = FALSE /\ (o.remember => o.kind = "response")

LEMMA RowsGrow ==
    ASSUME NEW q \in Seq(Output), NEW r \in Seq(Output), NEW o \in Output, NewRow(o), Grows(q, r, o),
           \A i \in DOMAIN q : RowOK(q[i]) /\ Current(q, i)
    PROVE  \A i \in DOMAIN r : RowOK(r[i]) /\ Current(r, i)
<1> DEFINE n == Len(q) + 1
           Closes(i) == /\ q[i].kind = "progress" /\ q[i].req = o.req
                        /\ o.kind \in FinalKinds \cup {"progress"}
<1>1. /\ Len(q) \in Nat /\ DOMAIN q = 1..Len(q) /\ DOMAIN r = 1..n /\ Len(r) = n
      /\ \A i \in DOMAIN q : q[i] \in Output
      /\ \A i \in DOMAIN r : r[i] \in Output
  BY DEF Grows
<1>2. /\ \A i \in DOMAIN q : MayClose(q[i], r[i], Closes(i))
      /\ MayClose(o, r[n], o.kind = "progress" /\ HasFinal(q, o.req))
  BY <1>1 DEF Grows
<1>3. \A m : HasFinal(r, m) <=> HasFinal(q, m) \/ (o.req = m /\ o.kind \in FinalKinds)
  BY HasFinalGrows
<1> HIDE DEF n
<1>4. ASSUME NEW i \in DOMAIN q
      PROVE  RowOK(r[i]) /\ Current(r, i)
  <2>1. RowOK(q[i]) /\ Current(q, i) /\ MayClose(q[i], r[i], Closes(i))
    BY <1>2
  <2>2. RowOK(r[i])
    BY <2>1 DEF MayClose, RowOK, WhollyAcked
  <2>3. ASSUME r[i].kind = "progress", ~r[i].done
        PROVE  /\ ~HasFinal(r, r[i].req)
               /\ \A k \in DOMAIN r : k > i /\ r[k].req = r[i].req => r[k].kind # "progress"
    <3>1. /\ q[i].kind = "progress" /\ ~q[i].done /\ ~Closes(i) /\ r[i].req = q[i].req
      BY <2>1, <2>3 DEF MayClose
    <3>2. ~HasFinal(r, r[i].req)
      BY <1>3, <2>1, <3>1 DEF Current
    <3>3. ASSUME NEW k \in DOMAIN r, k > i, r[k].req = r[i].req
          PROVE  r[k].kind # "progress"
      <4>1. CASE k \in DOMAIN q
        BY <1>2, <2>1, <3>1, <3>3, <4>1 DEF Current, MayClose
      <4>2. CASE k = n
        BY <1>2, <3>1, <3>3, <4>2 DEF MayClose
      <4> QED
        BY <1>1, <4>1, <4>2 DEF n
    <3> QED
      BY <3>2, <3>3
  <2> QED
    BY <2>2, <2>3 DEF Current
<1>5. RowOK(r[n]) /\ Current(r, n)
  <2>1. MayClose(o, r[n], o.kind = "progress" /\ HasFinal(q, o.req))
    BY <1>2
  <2>2. o.size \in 1..MaxParts /\ o.size \in Nat /\ 1 <= o.size
    BY BoundsAssumption DEF Output
  <2>3. r[n].acked = {} /\ r[n].size = o.size /\ (r[n].done => r[n].kind = "progress")
    BY <2>1 DEF MayClose, NewRow
  <2>4. ~WhollyAcked(r[n])
    BY <2>2, <2>3 DEF WhollyAcked
  <2>5. 0 \in 0..r[n].size /\ r[n].acked = 1..0
    BY <2>2, <2>3
  <2>6. RowOK(r[n])
    <3>1. r[n].remember => r[n].kind = "response"
      BY <2>1 DEF MayClose, NewRow
    <3>2. \E k \in 0..r[n].size : r[n].acked = 1..k
      BY <2>5
    <3> QED
      BY <2>3, <2>4, <3>1, <3>2 DEF RowOK
  <2>7. Current(r, n)
    <3>1. ASSUME r[n].kind = "progress", ~r[n].done
          PROVE  ~HasFinal(r, r[n].req)
      BY <1>3, <2>1, <3>1 DEF MayClose, FinalKinds
    <3>2. \A k \in DOMAIN r : ~(k > n)
      BY <1>1 DEF n
    <3> QED
      BY <3>1, <3>2 DEF Current
  <2> QED
    BY <2>6, <2>7
<1> QED
  BY <1>1, <1>4, <1>5 DEF n

\* The part that is acknowledged is the next one of its row.
LEMMA RowAcknowledged ==
    ASSUME NEW o \in Output, NEW p \in Output, NEW n \in 1..o.size, o.acked = 1..(n - 1), RowOK(o),
           p.size = o.size, p.kind = o.kind, p.remember = o.remember,
           p.acked = o.acked \cup {n}, p.done <=> o.done \/ WhollyAcked(p)
    PROVE  RowOK(p) /\ p.acked = 1..n
<1>1. o.size \in Nat
  BY BoundsAssumption DEF Output
<1>2. p.acked = 1..n /\ n \in 0..p.size
  BY <1>1
<1>3. o.done /\ o.kind # "progress" => WhollyAcked(o)
  BY DEF RowOK
<1>4. o.done /\ o.kind # "progress" => WhollyAcked(p)
  BY <1>1, <1>3 DEF WhollyAcked
<1>5. \E k \in 0..p.size : p.acked = 1..k
  BY <1>2
<1> QED
  BY <1>2, <1>4, <1>5 DEF RowOK

LEMMA OutboxStep ==
    ASSUME IInv, Next
    PROVE  OutboxOK'
<1>1. out \in Seq(Output) /\ out' \in Seq(Output) /\ DOMAIN out = 1..Len(out)
  BY NextExtends DEF IInv, TypeOK
<1>2. \A i \in DOMAIN out : /\ out[i] \in Output /\ out[i].req \in Messages
                            /\ Registered(out[i].req) /\ RowOK(out[i]) /\ Current(out, i)
  <2>1. \A i \in DOMAIN out : Registered(out[i].req) /\ RowOK(out[i]) /\ Current(out, i)
    BY DEF IInv, OutboxOK
  <2>2. \A i \in DOMAIN out : out[i] \in Output
    BY <1>1
  <2> QED
    BY <2>1, <2>2 DEF Output
<1>3. \A m \in Messages : Registered(m) => request'[m].status # "absent"
  BY NextKeeps DEF Keeps, Registered
<1>4. CASE Storing
  <2>1. PICK o \in Output : Added(o)
    BY <1>4 DEF Storing
  <2>2. NewRow(o) /\ Grows(out, out', o) /\ Registered(o.req) /\ o.req \in Messages
    BY <2>1 DEF Added, NewRow, Output
  <2>3. \A i \in DOMAIN out' : RowOK(out'[i]) /\ Current(out', i)
    BY <1>1, <1>2, <2>2, RowsGrow
  <2>4. /\ DOMAIN out' = 1..(Len(out) + 1)
        /\ \A i \in DOMAIN out : out'[i].req = out[i].req
        /\ out'[Len(out) + 1].req = o.req
    BY <1>1, <2>2 DEF Grows, MayClose
  <2>5. \A i \in DOMAIN out' : request'[out'[i].req].status # "absent"
    <3> TAKE i \in DOMAIN out'
    <3>1. CASE i \in DOMAIN out
      BY <1>2, <1>3, <2>4, <3>1
    <3>2. CASE i = Len(out) + 1
      BY <1>3, <2>2, <2>4, <3>2
    <3> QED
      BY <1>1, <2>4, <3>1, <3>2
  <2> QED
    BY <2>3, <2>5 DEF OutboxOK, RowOK, Current, Registered, WhollyAcked
<1>5. CASE Sent
  <2> DEFINE x == flush.part
  <2>1. /\ Acknowledged(x) /\ x[1] \in DOMAIN out /\ x[2] \in 1..out[x[1]].size
        /\ out[x[1]].acked = 1..(x[2] - 1)
    BY <1>5, SentEffect, PartBeingSent DEF IInv, Sent
  <2>2. DOMAIN out' = DOMAIN out /\ out'[x[1]] \in Output
    BY <1>1, <2>1 DEF Acknowledged
  <2>3. RowOK(out'[x[1]])
    <3> DEFINE o == out[x[1]]
               p == out'[x[1]]
    <3>1. /\ p.size = o.size /\ p.kind = o.kind /\ p.remember = o.remember
          /\ p.acked = o.acked \cup {x[2]} /\ (p.done <=> o.done \/ WhollyAcked(p))
      BY <2>1 DEF Acknowledged
    <3>2. o \in Output /\ p \in Output /\ RowOK(o) /\ x[2] \in 1..o.size /\ o.acked = 1..(x[2] - 1)
      BY <1>2, <2>1, <2>2
    <3> HIDE DEF o, p
    <3>3. RowOK(p)
      BY <3>1, <3>2, RowAcknowledged
    <3> QED
      BY <3>3 DEF p
  <2>4. \A i \in DOMAIN out :
          /\ out'[i].req = out[i].req /\ out'[i].kind = out[i].kind /\ (out[i].done => out'[i].done)
          /\ i # x[1] => out'[i] = out[i]
    BY <2>1 DEF Acknowledged
  <2>5. \A m : HasFinal(out', m) <=> HasFinal(out, m)
    BY <2>2, <2>4 DEF HasFinal
  <2>6. \A i \in DOMAIN out' : Current(out', i)
    BY <1>2, <2>2, <2>4, <2>5 DEF Current
  <2>7. \A i \in DOMAIN out' : RowOK(out'[i]) /\ request'[out'[i].req].status # "absent"
    BY <1>2, <1>3, <2>2, <2>3, <2>4
  <2> QED
    BY <2>6, <2>7 DEF OutboxOK, RowOK, Current, Registered, WhollyAcked
<1>6. CASE out' = out
  BY <1>2, <1>3, <1>6 DEF OutboxOK, RowOK, Current, Registered, WhollyAcked
<1> QED
  BY <1>4, <1>5, <1>6, OutKinds, BeginningFrame, SendFailsFrame, CrashFrame DEF IInv, Breaking

-----------------------------------------------------------------------------
(* What is shown and what is being sent.                                   *)

\* An entry of what is shown: the parts before it are acknowledged, the outputs before it
\* in the conversation are done.
EntryOK(q, x) ==
    /\ x[2] <= q[x[1]].size
    /\ x[2] = 1 \/ x[2] - 1 \in q[x[1]].acked
    /\ \A k \in DOMAIN q : k < x[1] /\ ConvOf(q[k].req) = ConvOf(q[x[1]].req) => q[k].done

LEMMA ShownEntries ==
    ASSUME ShownOK, NEW n \in DOMAIN shown
    PROVE  EntryOK(out, shown[n])
BY DEF ShownOK, EntryOK, OneConversation

LEMMA EntryStays ==
    ASSUME NEW q \in Seq(Output), NEW r \in Seq(Output), Extends(q, r),
           NEW x \in (DOMAIN q) \X (1..MaxParts), EntryOK(q, x)
    PROVE  EntryOK(r, x)
<1>1. /\ DOMAIN q = 1..Len(q) /\ DOMAIN r = 1..Len(r) /\ Len(q) \in Nat /\ Len(r) \in Nat
      /\ x[1] \in DOMAIN q
  OBVIOUS
<1>2. \A i \in DOMAIN q : /\ r[i].req = q[i].req /\ r[i].size = q[i].size
                          /\ q[i].acked \subseteq r[i].acked
                          /\ q[i].done => r[i].done
  BY DEF Extends
<1>3. \A k \in DOMAIN r : k < x[1] => k \in DOMAIN q
  BY <1>1
<1> QED
  BY <1>1, <1>2, <1>3 DEF EntryOK

LEMMA PartEntry ==
    ASSUME TypeOK, FlushOK, flush # Unflushed
    PROVE  EntryOK(out, flush.part)
<1> DEFINE i == flush.part[1]
           p == flush.part[2]
<1>1. i \in DOMAIN out /\ p \in 1..out[i].size /\ out[i].acked = 1..(p - 1) /\ out[i] \in Output
  BY PartBeingSent
<1>2. out[i].size \in Nat
  BY <1>1, BoundsAssumption DEF Output
<1>3. \A k \in DOMAIN out : k < i /\ ConvOf(out[k].req) = ConvOf(out[i].req) => out[k].done
  <2>1. flush.part # NoPart
    <3>1. DOMAIN out = 1..Len(out)
      BY DEF TypeOK
    <3> QED
      BY <1>1, <3>1 DEF NoPart
  <2> QED
    BY <2>1 DEF FlushOK, OneConversation
<1>4. p <= out[i].size /\ (p = 1 \/ p - 1 \in out[i].acked)
  BY <1>1, <1>2
<1> QED
  BY <1>3, <1>4 DEF EntryOK

LEMMA ShownStep ==
    ASSUME IInv, Next
    PROVE  ShownOK'
<1>1. /\ out \in Seq(Output) /\ out' \in Seq(Output) /\ Extends(out, out')
      /\ DOMAIN out = 1..Len(out) /\ Len(out) \in Nat
  BY NextExtends DEF IInv, TypeOK
<1>2. ShownKinds
  BY OutKinds, ShownMoves DEF IInv
<1>3. /\ shown \in Seq((DOMAIN out) \X (1..MaxParts)) /\ DOMAIN shown = 1..Len(shown)
      /\ Len(shown) \in Nat
      /\ \A n \in DOMAIN shown : shown[n] \in (DOMAIN out) \X (1..MaxParts)
  BY DEF IInv, TypeOK
<1>4. \A n \in DOMAIN shown : EntryOK(out', shown[n])
  BY <1>1, <1>3, ShownEntries, EntryStays DEF IInv
<1>5. ASSUME flush # Unflushed
      PROVE  /\ EntryOK(out', flush.part) /\ flush.part \in (DOMAIN out) \X (1..MaxParts)
             /\ flush.part = <<flush.part[1], flush.part[2]>>
  <2>1. EntryOK(out, flush.part) /\ flush.part \in AllParts(out)
    BY <1>5, PartEntry, PartBeingSent DEF IInv
  <2>2. flush.part \in (DOMAIN out) \X (1..MaxParts)
    BY <2>1 DEF AllParts
  <2> QED
    BY <1>1, <2>1, <2>2, EntryStays
<1>6. /\ \A n \in DOMAIN shown' : EntryOK(out', shown'[n])
      /\ \A n \in DOMAIN shown : n \in DOMAIN shown' /\ shown'[n] = shown[n]
  <2>1. CASE shown' = shown
    BY <1>4, <2>1
  <2>2. CASE flush # Unflushed /\ shown' = Append(shown, flush.part)
    <3>1. /\ DOMAIN shown' = 1..(Len(shown) + 1) /\ shown'[Len(shown) + 1] = flush.part
          /\ \A n \in DOMAIN shown : shown'[n] = shown[n]
      BY <1>3, <2>2
    <3> QED
      BY <1>3, <1>4, <1>5, <2>2, <3>1
  <2> QED
    BY <1>2, <2>1, <2>2 DEF ShownKinds
<1>7. ASSUME NEW i \in DOMAIN out', NEW p \in out'[i].acked
      PROVE  \E n \in DOMAIN shown' : shown'[n] = <<i, p>>
  <2>1. ASSUME i \in DOMAIN out, p \in out[i].acked
        PROVE  \E n \in DOMAIN shown' : shown'[n] = <<i, p>>
    BY <1>6, <2>1 DEF IInv, ShownOK, IsShown
  <2>2. CASE Storing
    <3>1. PICK o \in Output : Added(o)
      BY <2>2 DEF Storing
    <3>2. /\ DOMAIN out' = 1..(Len(out) + 1) /\ out'[Len(out) + 1].acked = {}
          /\ \A k \in DOMAIN out : out'[k].acked = out[k].acked
      BY <1>1, <3>1 DEF Added, Grows, MayClose
    <3> QED
      BY <1>1, <1>7, <2>1, <3>2
  <2>3. CASE Sent
    <3>1. /\ Acknowledged(flush.part) /\ flush # Unflushed /\ shown' = Append(shown, flush.part)
      BY <2>3, SentEffect DEF Sent, IInv
    <3>2. DOMAIN out' = DOMAIN out
      BY <1>1, <3>1 DEF Acknowledged
    <3>3. CASE p \in out[i].acked
      BY <2>1, <3>2, <3>3, <1>7
    <3>4. CASE p \notin out[i].acked
      <4>1. i = flush.part[1] /\ p = flush.part[2]
        BY <1>7, <3>1, <3>2, <3>4 DEF Acknowledged
      <4>2. Len(shown) + 1 \in DOMAIN shown' /\ shown'[Len(shown) + 1] = flush.part
        BY <1>3, <3>1
      <4> QED
        BY <1>5, <3>1, <4>1, <4>2
    <3> QED
      BY <3>3, <3>4
  <2>4. CASE out' = out
    BY <1>7, <2>1, <2>4
  <2> QED
    BY <2>2, <2>3, <2>4, OutKinds, BeginningFrame, SendFailsFrame, CrashFrame DEF IInv, Breaking
<1>8. \A n \in DOMAIN shown' :
        LET i == shown'[n][1]
            p == shown'[n][2]
        IN  /\ p <= out'[i].size
            /\ p = 1 \/ p - 1 \in out'[i].acked
            /\ \A k \in DOMAIN out' : k < i /\ ConvOf(out'[k].req) = ConvOf(out'[i].req) => out'[k].done
  BY <1>6 DEF EntryOK
<1> QED
  BY <1>7, <1>8 DEF ShownOK, IsShown, OneConversation

\* P is a set of pending parts with all that come before one of them in its conversation.
Closed(q, P) ==
    \A y \in P :
       /\ y \in AllParts(q) /\ IsPending(q, y)
       /\ \A z \in AllParts(q) :
             /\ IsPending(q, z) /\ ConvOf(q[z[1]].req) = ConvOf(q[y[1]].req)
             /\ Earlier(z, y)
             => z \in P

LEMMA PartOf ==
    ASSUME NEW q \in Seq(Output), NEW x \in AllParts(q)
    PROVE  /\ x[1] \in 1..Len(q) /\ x[1] \in DOMAIN q /\ q[x[1]] \in Output
           /\ x[2] \in 1..q[x[1]].size /\ x = <<x[1], x[2]>> /\ x # NoPart
<1>1. x \in (DOMAIN q) \X (1..MaxParts) /\ x[2] <= q[x[1]].size /\ DOMAIN q = 1..Len(q)
  BY DEF AllParts
<1>2. x[1] \in DOMAIN q /\ x[2] \in 1..MaxParts /\ x = <<x[1], x[2]>>
  BY <1>1
<1>3. q[x[1]] \in Output
  BY <1>2
<1>4. q[x[1]].size \in Nat
  BY <1>3, BoundsAssumption DEF Output
<1>5. x # NoPart
  BY <1>1, <1>2 DEF NoPart
<1> QED
  BY <1>1, <1>2, <1>3, <1>4, <1>5, BoundsAssumption

LEMMA PendingRow ==
    ASSUME NEW o \in Output, RowOK(o), ~o.done
    PROVE  \E n \in 1..o.size : o.acked = 1..(n - 1)
<1>1. o.size \in Nat /\ o.acked # 1..o.size
  BY BoundsAssumption DEF Output, RowOK, WhollyAcked
<1>2. PICK n \in 0..o.size : o.acked = 1..n
  BY DEF RowOK
<1> QED
  BY <1>1, <1>2

LEMMA FirstPart ==
    ASSUME NEW q \in Seq(Output), \A i \in DOMAIN q : RowOK(q[i]), NEW P, Closed(q, P),
           NEW x \in P, IsFirst(x, P)
    PROVE  /\ q[x[1]].acked = 1..(x[2] - 1) /\ ~q[x[1]].done
           /\ \A k \in DOMAIN q :
                 k < x[1] /\ ConvOf(q[k].req) = ConvOf(q[x[1]].req) => q[k].done
           /\ \A y \in P \ {x} : Earlier(x, y)
<1> DEFINE i == x[1]
           p == x[2]
<1>1. x \in AllParts(q) /\ IsPending(q, x)
  BY DEF Closed
<1>2. /\ i \in DOMAIN q /\ i \in 1..Len(q) /\ q[i] \in Output /\ p \in 1..q[i].size
      /\ ~q[i].done /\ p \notin q[i].acked /\ DOMAIN q = 1..Len(q)
  BY <1>1, PartOf DEF IsPending
<1>3. \A y \in P : i < y[1] \/ (i = y[1] /\ p <= y[2])
  BY DEF IsFirst
<1>4. ASSUME NEW k \in DOMAIN q, NEW n \in 1..q[k].size, q[k].acked = 1..(n - 1), ~q[k].done,
             ConvOf(q[k].req) = ConvOf(q[i].req), k < i \/ (k = i /\ n < p)
      PROVE  FALSE
  <2> DEFINE z == <<k, n>>
  <2>1. q[k] \in Output /\ q[k].size \in 1..MaxParts
    <3>1. q[k] \in Output
      OBVIOUS
    <3> QED
      BY <3>1 DEF Output
  <2>2. z \in AllParts(q)
    BY <2>1, BoundsAssumption DEF AllParts
  <2>3. IsPending(q, z) /\ Earlier(z, x)
    BY <1>2, <1>4 DEF IsPending, Earlier
  <2>4. z \in P
    BY <1>4, <2>2, <2>3 DEF Closed
  <2>5. i < k \/ (i = k /\ p <= n)
    BY <1>3, <2>4
  <2> QED
    BY <1>2, <1>4, <2>1, <2>5, BoundsAssumption
<1>5. ASSUME NEW k \in DOMAIN q, k < i, ConvOf(q[k].req) = ConvOf(q[i].req)
      PROVE  q[k].done
  <2>1. SUFFICES ASSUME ~q[k].done
                 PROVE  FALSE
    OBVIOUS
  <2>2. PICK n \in 1..q[k].size : q[k].acked = 1..(n - 1)
    BY <2>1, PendingRow
  <2> QED
    BY <1>4, <1>5, <2>1, <2>2
<1>6. q[i].acked = 1..(p - 1)
  <2>1. PICK n \in 1..q[i].size : q[i].acked = 1..(n - 1)
    BY <1>2, PendingRow
  <2>2. q[i].size \in Nat
    BY <1>2, BoundsAssumption DEF Output
  <2>3. ~(n < p)
    BY <1>2, <1>4, <2>1
  <2>4. ~(p < n)
    BY <1>2, <2>1, <2>2
  <2> QED
    BY <1>2, <2>1, <2>2, <2>3, <2>4
<1>7. ASSUME NEW y \in P \ {x}
      PROVE  Earlier(x, y)
  <2>1. y \in AllParts(q) /\ y = <<y[1], y[2]>> /\ x = <<x[1], x[2]>>
    BY <1>1, PartOf DEF Closed
  <2>2. q[y[1]] \in Output /\ y[2] \in 1..q[y[1]].size /\ y[1] \in 1..Len(q)
    BY <2>1, PartOf
  <2>3. y[2] \in Nat /\ p \in Nat
    BY <1>2, <2>2, BoundsAssumption DEF Output
  <2> QED
    BY <1>2, <1>3, <2>1, <2>2, <2>3 DEF Earlier
<1> QED
  BY <1>2, <1>5, <1>6, <1>7

LEMMA ProceedOK ==
    ASSUME TypeOK', OutboxOK', ShownOK', NEW w, NEW P, Closed(out', P), Proceed(w, P)
    PROVE  FlushOK'
<1>1. /\ out' \in Seq(Output) /\ \A i \in DOMAIN out' : RowOK(out'[i])
      /\ shown' \in Seq((DOMAIN out') \X (1..MaxParts))
  BY DEF TypeOK, OutboxOK, RowOK, WhollyAcked
<1>2. CASE P = {}
  <2>1. flush' = Unflushed
    BY <1>2 DEF Proceed
  <2> QED
    BY <2>1 DEF FlushOK, Unflushed
<1>3. CASE P # {}
  <2>1. PICK x \in P : IsFirst(x, P) /\ flush' = [by |-> w, part |-> x, todo |-> P \ {x}]
    BY <1>3 DEF Proceed
  <2> DEFINE i == x[1]
  <2>2. /\ out'[i].acked = 1..(x[2] - 1) /\ ~out'[i].done
        /\ \A k \in DOMAIN out' : k < i /\ ConvOf(out'[k].req) = ConvOf(out'[i].req) => out'[k].done
        /\ \A y \in P \ {x} : Earlier(x, y)
    BY <1>1, <2>1, FirstPart
  <2>3. x \in AllParts(out') /\ x # NoPart /\ i \in DOMAIN out' /\ DOMAIN out' = 1..Len(out')
    BY <1>1, PartOf DEF Closed
  <2>4. ASSUME NEW k \in DOMAIN out', ConvOf(out'[k].req) = ConvOf(out'[i].req), k > i,
               NEW n \in DOMAIN shown'
        PROVE  shown'[n][1] # k
    <3>1. ASSUME shown'[n][1] = k
          PROVE  \A j \in DOMAIN out' : j < k /\ ConvOf(out'[j].req) = ConvOf(out'[k].req) => out'[j].done
      BY <3>1 DEF ShownOK, OneConversation
    <3> QED
      BY <2>2, <2>3, <2>4, <3>1
  <2>5. ASSUME NEW y \in P \ {x}, NEW z \in AllParts(out'), IsPending(out', z),
               ConvOf(out'[z[1]].req) = ConvOf(out'[y[1]].req), Earlier(z, y)
        PROVE  z = x \/ z \in P \ {x}
    BY <2>5 DEF Closed
  <2>6. flush'.part = x /\ flush'.todo = P \ {x}
    BY <2>1
  <2> HIDE DEF i
  <2>7. \A k \in DOMAIN out' : ConvOf(out'[k].req) = ConvOf(out'[i].req) =>
           /\ k < i => out'[k].done
           /\ k > i => \A n \in DOMAIN shown' : shown'[n][1] # k
    BY <2>2, <2>4
  <2>8. \A y \in flush'.todo :
           /\ Earlier(x, y)
           /\ \A z \in AllParts(out') :
                 IsPending(out', z) /\ ConvOf(out'[z[1]].req) = ConvOf(out'[y[1]].req) /\ Earlier(z, y)
                 => z = x \/ z \in flush'.todo
    BY <2>2, <2>5, <2>6
  <2> QED
    BY <2>2, <2>3, <2>6, <2>7, <2>8 DEF FlushOK, OneConversation, Earlier, i
<1> QED
  BY <1>2, <1>3

\* The parts that are pending, of a conversation or of all.
LEMMA PendingClosed ==
    ASSUME NEW q \in Seq(Output), NEW ms, ms = Messages \/ ms \in Conversations
    PROVE  Closed(q, PendingParts(q, ms))
<1>1. ASSUME NEW y \in PendingParts(q, ms), NEW z \in AllParts(q), IsPending(q, z),
             ConvOf(q[z[1]].req) = ConvOf(q[y[1]].req)
      PROVE  z \in PendingParts(q, ms)
  <2>1. y \in AllParts(q) /\ q[y[1]].req \in ms
    BY DEF PendingParts
  <2>2. q[z[1]] \in Output
    BY PartOf
  <2>3. q[z[1]].req \in Messages
    BY <2>2 DEF Output
  <2>4. q[z[1]].req \in ms
    <3>1. CASE ms = Messages
      BY <2>3, <3>1
    <3>2. CASE ms \in Conversations
      <4>1. ConvOf(q[y[1]].req) = ms
        BY <2>1, <3>2, ConvOfMember
      <4> QED
        BY <1>1, <2>3, <4>1, ConvOfMessage
    <3> QED
      BY <3>1, <3>2
  <2> QED
    BY <1>1, <2>4 DEF PendingParts
<1>2. \A y \in PendingParts(q, ms) : y \in AllParts(q) /\ IsPending(q, y)
  BY DEF PendingParts
<1> QED
  BY <1>1, <1>2 DEF Closed

\* What is left of the snapshot of a flush.
LEMMA StillClosed ==
    ASSUME IInv, Sent
    PROVE  Closed(out', StillPending(out', flush.todo))
<1> DEFINE x == flush.part
           P == StillPending(out', flush.todo)
<1>1. /\ Acknowledged(x) /\ x \in AllParts(out) /\ x[1] \in DOMAIN out
      /\ out \in Seq(Output) /\ out' \in Seq(Output) /\ flush.part # NoPart
  <2>1. out \in Seq(Output) /\ x \in AllParts(out)
    BY PartBeingSent DEF Sent, IInv, TypeOK
  <2> QED
    BY <2>1, SentEffect, PartOf DEF IInv, Acknowledged
<1>2. /\ DOMAIN out' = DOMAIN out
      /\ \A k \in DOMAIN out :
            /\ out'[k].req = out[k].req /\ out'[k].size = out[k].size
            /\ out[k].acked \subseteq out'[k].acked /\ (out[k].done => out'[k].done)
  BY <1>1 DEF Acknowledged
<1>3. AllParts(out') = AllParts(out)
  BY <1>2 DEF AllParts
<1>4. \A z \in AllParts(out) : z[1] \in DOMAIN out
  BY <1>1, PartOf
<1>5. \A z \in AllParts(out) : IsPending(out', z) => IsPending(out, z) /\ z # x
  BY <1>1, <1>2, <1>4 DEF IsPending, Acknowledged
<1>6. flush.todo \in SUBSET AllParts(out)
  BY DEF IInv, TypeOK
<1>7. \A y \in flush.todo : \A z \in AllParts(out) :
         IsPending(out, z) /\ ConvOf(out[z[1]].req) = ConvOf(out[y[1]].req) /\ Earlier(z, y)
         => z = x \/ z \in flush.todo
  BY <1>1 DEF IInv, FlushOK, OneConversation
<1>8. ASSUME NEW y \in P, NEW z \in AllParts(out'), IsPending(out', z),
             ConvOf(out'[z[1]].req) = ConvOf(out'[y[1]].req), Earlier(z, y)
      PROVE  z \in P
  <2>1. y \in flush.todo /\ y \in AllParts(out) /\ z \in AllParts(out)
    BY <1>3, <1>6 DEF StillPending
  <2>2. ConvOf(out[z[1]].req) = ConvOf(out[y[1]].req)
    BY <1>2, <1>4, <1>8, <2>1
  <2> QED
    BY <1>5, <1>7, <1>8, <2>1, <2>2 DEF StillPending
<1>9. \A y \in P : y \in AllParts(out') /\ IsPending(out', y)
  BY <1>3, <1>6 DEF StillPending
<1> QED
  BY <1>8, <1>9 DEF Closed

\* Storing an output changes nothing for the flush that is going on.
LEMMA StoringFlush ==
    ASSUME IInv, Storing
    PROVE  FlushOK'
<1>1. PICK o \in Output : Added(o)
  BY DEF Storing
<1>2. /\ out \in Seq(Output) /\ out' \in Seq(Output) /\ Len(out) \in Nat
      /\ DOMAIN out = 1..Len(out) /\ DOMAIN out' = 1..(Len(out) + 1)
      /\ \A k \in DOMAIN out :
            /\ out'[k].req = out[k].req /\ out'[k].size = out[k].size
            /\ out'[k].acked = out[k].acked /\ (out[k].done => out'[k].done)
      /\ UNCHANGED <<shown, flush>>
  BY <1>1 DEF Added, Grows, MayClose, Storing, IInv, TypeOK
<1>3. CASE flush.part = NoPart
  BY <1>2, <1>3 DEF IInv, FlushOK, Unflushed, NoPart
<1>4. CASE flush.part # NoPart
  <2> DEFINE x == flush.part
             i == x[1]
  <2>1. /\ x \in AllParts(out) /\ out[i].acked = 1..(x[2] - 1)
        /\ \A k \in DOMAIN out : ConvOf(out[k].req) = ConvOf(out[i].req) =>
              /\ k < i => out[k].done
              /\ k > i => \A n \in DOMAIN shown : shown[n][1] # k
        /\ \A y \in flush.todo :
              /\ Earlier(x, y)
              /\ \A z \in AllParts(out) :
                    IsPending(out, z) /\ ConvOf(out[z[1]].req) = ConvOf(out[y[1]].req) /\ Earlier(z, y)
                    => z = x \/ z \in flush.todo
    BY <1>4 DEF IInv, FlushOK, OneConversation
  <2>2. i \in DOMAIN out /\ flush.todo \in SUBSET AllParts(out)
    BY <1>2, <2>1, PartOf DEF IInv, TypeOK
  <2>3. \A n \in DOMAIN shown : shown[n][1] \in DOMAIN out
    BY DEF IInv, TypeOK
  <2>4. AllParts(out) \subseteq AllParts(out')
    BY <1>2 DEF AllParts
  <2>5. ASSUME NEW k \in DOMAIN out', ConvOf(out'[k].req) = ConvOf(out'[i].req)
        PROVE  /\ k < i => out'[k].done
               /\ k > i => \A n \in DOMAIN shown : shown[n][1] # k
    <3>1. CASE k \in DOMAIN out
      BY <1>2, <2>1, <2>2, <2>5, <3>1
    <3>2. CASE k = Len(out) + 1
      BY <1>2, <2>2, <2>3, <3>2
    <3> QED
      BY <1>2, <3>1, <3>2
  <2>6. ASSUME NEW y \in flush.todo, NEW z \in AllParts(out'), IsPending(out', z),
               ConvOf(out'[z[1]].req) = ConvOf(out'[y[1]].req), Earlier(z, y)
        PROVE  z = x \/ z \in flush.todo
    <3>1. y[1] \in 1..Len(out) /\ z[1] \in 1..(Len(out) + 1)
      BY <1>2, <2>2, PartOf
    <3>2. z[1] \in DOMAIN out
      BY <1>2, <2>6, <3>1 DEF Earlier
    <3>3. z \in AllParts(out)
      BY <1>2, <3>2 DEF AllParts
    <3>4. IsPending(out, z) /\ ConvOf(out[z[1]].req) = ConvOf(out[y[1]].req)
      BY <1>2, <2>6, <3>1, <3>2 DEF IsPending
    <3> QED
      BY <2>1, <2>6, <3>3, <3>4
  <2>7. x \in AllParts(out') /\ out'[i].acked = 1..(x[2] - 1)
    BY <1>2, <2>1, <2>2, <2>4
  <2>8. \A y \in flush.todo : Earlier(x, y)
    BY <2>1
  <2> HIDE DEF x, i
  <2> QED
    BY <1>2, <1>4, <2>5, <2>6, <2>7, <2>8 DEF FlushOK, OneConversation, Earlier, x, i
<1> QED
  BY <1>3, <1>4

LEMMA FlushStep ==
    ASSUME IInv, Next
    PROVE  FlushOK'
<1>1. TypeOK' /\ OutboxOK' /\ ShownOK'
  BY TypeStep, OutboxStep, ShownStep
<1>2. ASSUME NEW t \in Tasks, FlushOwn(t)
      PROVE  FlushOK'
  <2>1. UNCHANGED out /\ Proceed(t, PendingParts(out, ConvOf(task[t].req)))
    BY <1>2 DEF FlushOwn
  <2>2. ConvOf(task[t].req) \in Conversations
    BY <1>2, ConvOfMessage DEF FlushOwn, At, IInv, TasksOK, Sound, Workers
  <2>3. Closed(out', PendingParts(out, ConvOf(task[t].req)))
    BY <2>1, <2>2, PendingClosed DEF IInv, TypeOK
  <2> QED
    BY <1>1, <2>1, <2>3, ProceedOK
<1>3. CASE FlushAll
  <2>1. UNCHANGED out /\ Proceed(None, PendingParts(out, Messages))
    BY <1>3 DEF FlushAll
  <2>2. Closed(out', PendingParts(out, Messages))
    BY <2>1, PendingClosed DEF IInv, TypeOK
  <2> QED
    BY <1>1, <2>1, <2>2, ProceedOK
<1>4. CASE Sent
  <2>1. Proceed(flush.by, StillPending(out', flush.todo))
    BY <1>4 DEF Sent
  <2> QED
    BY <1>1, <1>4, <2>1, StillClosed, ProceedOK
<1>5. CASE Breaking
  <2>1. flush' = Unflushed
    BY <1>5 DEF Breaking, SendFails, Crash, Proceed
  <2> QED
    BY <2>1 DEF FlushOK, Unflushed
<1>6. CASE UNCHANGED <<out, shown, flush>>
  BY <1>6 DEF IInv, FlushOK, Unflushed, NoPart, OneConversation, Earlier
<1> QED
  BY <1>2, <1>3, <1>4, <1>5, <1>6, OutKinds, StoringFlush DEF IInv, Beginning

-----------------------------------------------------------------------------
(* What is shown again.                                                    *)

LEMMA LostGrows ==
    ASSUME IInv, Next
    PROVE  /\ Lost \in Nat /\ Lost' \in Nat /\ Lost <= Lost'
           /\ Breaking => Lost' = Lost + 1
<1>1. used \in [crashes: Nat, failures: Nat, losses: Nat]
  BY DEF IInv, TypeOK
<1>2. ASSUME NEW w, Moving(w)
      PROVE  UNCHANGED used \/ used' = [used EXCEPT !.failures = @ + 1]
  BY <1>2 DEF Moving, Receive, Register, Forget, Resume, Skip, Ask, Settle, Raise, RecordFailure,
     GiveUp, RecoverNext
<1>3. /\ SendFails => used' = [used EXCEPT !.losses = @ + 1]
      /\ Crash => used' = [used EXCEPT !.crashes = @ + 1]
      /\ Rest => UNCHANGED used
  BY RestFrame DEF SendFails, Crash, vars
<1>4. CASE UNCHANGED used /\ ~Breaking
  BY <1>1, <1>4 DEF Lost
<1>5. CASE used' = [used EXCEPT !.failures = @ + 1] /\ ~Breaking
  BY <1>1, <1>5 DEF Lost
<1>6. CASE SendFails
  BY <1>1, <1>3, <1>6 DEF Lost
<1>7. CASE Crash
  BY <1>1, <1>3, <1>7 DEF Lost
<1> QED
  BY <1>2, <1>3, <1>4, <1>5, <1>6, <1>7, StepKinds, AnsweringFrame, OfJobFrame, BeginningFrame,
     SentFrame DEF Breaking

LEMMA ConfirmedStep ==
    ASSUME IInv, Next
    PROVE  IF Sent THEN Confirmed' = Confirmed \cup {flush.part} /\ flush.part \notin Confirmed
                   ELSE Confirmed' = Confirmed
<1>1. out \in Seq(Output) /\ DOMAIN out = 1..Len(out) /\ Len(out) \in Nat
  BY DEF IInv, TypeOK
<1>2. CASE Storing /\ ~Sent
  <2>1. PICK o \in Output : Added(o)
    BY <1>2 DEF Storing
  <2>2. /\ DOMAIN out' = 1..(Len(out) + 1) /\ out'[Len(out) + 1].acked = {}
        /\ \A k \in DOMAIN out : out'[k].size = out[k].size /\ out'[k].acked = out[k].acked
    BY <1>1, <2>1 DEF Added, Grows, MayClose
  <2>3. \A k \in DOMAIN out' : k \in DOMAIN out \/ out'[k].acked = {}
    BY <1>1, <2>2
  <2>4. DOMAIN out \subseteq DOMAIN out'
    BY <1>1, <2>2
  <2> QED
    BY <1>2, <2>2, <2>3, <2>4 DEF Confirmed, AllParts
<1>3. CASE Sent
  <2> DEFINE x == flush.part
  <2>1. /\ Acknowledged(x) /\ x \in AllParts(out) /\ x[1] \in DOMAIN out /\ x = <<x[1], x[2]>>
        /\ out[x[1]].acked = 1..(x[2] - 1)
    BY <1>3, SentEffect, PartBeingSent DEF IInv, Sent
  <2>2. x[2] \in Nat
    BY <1>3, PartBeingSent, BoundsAssumption DEF IInv, Sent
  <2>3. x \notin Confirmed
    BY <2>1, <2>2 DEF Confirmed
  <2>4. /\ DOMAIN out' = DOMAIN out
        /\ \A k \in DOMAIN out :
              /\ out'[k].size = out[k].size
              /\ k # x[1] => out'[k].acked = out[k].acked
              /\ k = x[1] => out'[k].acked = out[k].acked \cup {x[2]}
    <3>1. /\ out' \in Seq(Output) /\ Len(out') = Len(out)
          /\ \A k \in DOMAIN out : k # x[1] => out'[k] = out[k]
          /\ out'[x[1]].size = out[x[1]].size /\ out'[x[1]].acked = out[x[1]].acked \cup {x[2]}
      BY <2>1 DEF Acknowledged
    <3> QED
      BY <1>1, <3>1
  <2>5. AllParts(out') = AllParts(out) /\ \A y \in AllParts(out) : y[1] \in DOMAIN out /\ y = <<y[1], y[2]>>
    BY <2>4 DEF AllParts
  <2>6. \A y \in AllParts(out) : y[2] \in out'[y[1]].acked <=> y[2] \in out[y[1]].acked \/ y = x
    BY <2>1, <2>4, <2>5
  <2>7. Confirmed' = {y \in AllParts(out) : y[2] \in out'[y[1]].acked}
    BY <2>5 DEF Confirmed
  <2>8. Confirmed' = Confirmed \cup {x}
    BY <2>1, <2>6, <2>7 DEF Confirmed
  <2> QED
    BY <1>3, <2>3, <2>8
<1>4. CASE out' = out /\ ~Sent
  BY <1>4 DEF Confirmed
<1> QED
  BY <1>2, <1>3, <1>4, OutKinds, BeginningFrame, SendFailsFrame, CrashFrame DEF IInv, Breaking

LEMMA CountStep ==
    ASSUME IInv, Next
    PROVE  CountOK'
<1>1. IsFiniteSet(Confirmed) /\ Len(shown) <= Cardinality(Confirmed) + Lost /\ Len(shown) \in Nat
  BY LenProperties DEF IInv, CountOK, TypeOK
<1>2. /\ Cardinality(Confirmed) \in Nat
      /\ \A x : /\ IsFiniteSet(Confirmed \cup {x})
                /\ x \notin Confirmed => Cardinality(Confirmed \cup {x}) = Cardinality(Confirmed) + 1
  BY <1>1, FS_CardinalityType, FS_AddElement
<1>3. ShownKinds
  BY OutKinds, ShownMoves DEF IInv
<1>4. Len(shown') <= Len(shown) + 1 /\ Len(shown') \in Nat
  <2>1. shown \in Seq((DOMAIN out) \X (1..MaxParts)) /\ shown' \in Seq((DOMAIN out') \X (1..MaxParts))
    BY TypeStep DEF IInv, TypeOK
  <2>2. CASE shown' = shown
    BY <1>1, <2>2
  <2>3. CASE shown' = Append(shown, flush.part)
    BY <1>1, <2>1, <2>3
  <2> QED
    BY <1>3, <2>2, <2>3 DEF ShownKinds
<1>5. CASE Sent
  <2>1. Confirmed' = Confirmed \cup {flush.part} /\ flush.part \notin Confirmed
    BY <1>5, ConfirmedStep
  <2>2. IsFiniteSet(Confirmed') /\ Cardinality(Confirmed') = Cardinality(Confirmed) + 1
    BY <1>2, <2>1
  <2> QED
    BY <1>1, <1>2, <1>4, <2>2, LostGrows DEF CountOK
<1>6. CASE ~Sent
  <2>1. Confirmed' = Confirmed
    BY <1>6, ConfirmedStep
  <2>2. CASE Breaking
    BY <1>1, <1>2, <1>4, <2>1, <2>2, LostGrows DEF CountOK
  <2>3. CASE shown' = shown
    BY <1>1, <1>2, <2>1, <2>3, LostGrows DEF CountOK
  <2> QED
    BY <1>6, <2>2, <2>3, OutKinds, BeginningFrame DEF IInv, Storing
<1> QED
  BY <1>5, <1>6

-----------------------------------------------------------------------------
(* Where a coroutine comes from.                                           *)

LEMMA ResponseFinal ==
    ASSUME TypeOK, NEW m \in Messages, NEW n \in 1..MaxParts, NEW remember \in BOOLEAN,
           out' = Put(out, Response(m, n, remember))
    PROVE  HasFinal(out', m)
<1> DEFINE o == Response(m, n, remember)
<1>1. o \in Output /\ o.req = m /\ o.kind = "response"
  BY DEF Response, New, Output, Kinds, FinalKinds
<1>2. out \in Seq(Output) /\ out' = Put(out, o)
  BY DEF TypeOK
<1> HIDE DEF o
<1>3. CASE Put(out, o) = out /\ \E i \in DOMAIN out : Same(out[i], o)
  BY <1>1, <1>2, <1>3 DEF Same, HasFinal, FinalKinds
<1>4. CASE Grows(out, Put(out, o), o)
  BY <1>1, <1>2, <1>4, HasFinalGrows DEF FinalKinds
<1> QED
  BY <1>1, <1>2, <1>3, <1>4, PutGrows

LEMMA OneResponseFinal ==
    ASSUME TypeOK, NEW m \in Messages, out' = Put(out, Response(m, 1, FALSE))
    PROVE  HasFinal(out', m)
<1>1. 1 \in 1..MaxParts /\ FALSE \in BOOLEAN
  BY BoundsAssumption
<1> QED
  BY <1>1, ResponseFinal

\* u takes the lock of its message, which has no answer.
Entered(u) ==
    /\ task[u].pc = "lock" /\ task'[u].pc = "registered" /\ task'[u].req = task[u].req
    /\ task'[u].context = exchanges \cap ConvOf(task[u].req)
    /\ ~HasFinal(out, task[u].req)
    /\ UNCHANGED <<out, exchanges>>

\* u goes on with its message.
WentOn(u) ==
    /\ task'[u].req = task[u].req
    /\ \/ /\ task[u].pc \in {"registered", "backend"} /\ task'[u].pc = "backend"
          /\ task'[u].context = task[u].context
       \/ Forget(u) /\ task'[u].pc = "forgot"
       \/ /\ task[u].pc \in {"forgot", "backend"} /\ task'[u].pc = "answered"
          /\ HasFinal(out', task[u].req)
       \/ task'[u].pc = "failing" /\ used.failures < MaxFailures
       \/ /\ task[u].pc = "failing" /\ task'[u].pc = "reported" /\ u \in Tasks
          /\ ~HasFinal(out, task[u].req) /\ UNCHANGED out
       \/ task'[u].pc \in {"flush", "flushing", "done"}

\* u gets a message.
Got(u) ==
    /\ task'[u].pc = "lock" /\ task'[u].req # None
    /\ \/ u = Starter
       \/ /\ Redelivery \/ \A t \in Tasks : task[t].req # task'[u].req
          /\ \A t \in Tasks \ {u} : task'[t] = task[t]

TaskKinds(u) ==
    task'[u] = task[u] \/ task'[u] = Idle \/ Entered(u) \/ WentOn(u) \/ Got(u)

LEMMA MovingKinds ==
    ASSUME IInv, NEW w \in Workers, Moving(w), NEW u \in Workers
    PROVE  TaskKinds(u)
<1> DEFINE m == task[w].req
<1>1. Sound(w) /\ TypeOK /\ Workers = Tasks \cup {Starter}
  BY DEF IInv, TasksOK, Workers
<1>2. ASSUME w \in Tasks, NEW k \in Messages, Receive(w, k)
      PROVE  TaskKinds(u)
  <2>1. /\ task'[w].pc = "lock" /\ task'[w].req = k
        /\ \A v \in Workers \ {w} : task'[v] = task[v]
    BY <1>1, <1>2, ReceiveEffect DEF Receive
  <2>2. Redelivery \/ \A t \in Tasks : task[t].req # k
    BY <1>2 DEF Receive
  <2> QED
    BY <1>1, <2>1, <2>2, IdsAssumption DEF TaskKinds, Got
<1>3. CASE Register(w) \/ Resume(w)
  <2>1. /\ task[w].pc = "lock" /\ ~Locked(ConvOf(m)) /\ Enter(w, ConvOf(m))
        /\ UNCHANGED <<out, exchanges>>
    BY <1>3 DEF Register, Resume, At
  <2>2. m \in Messages /\ ConvOf(m) \in Conversations
    BY <1>1, <2>1, ConvOfMessage DEF Sound
  <2>3. ~HasFinal(out, m)
    <3>1. CASE Resume(w)
      BY <3>1 DEF Resume, Unfinished
    <3>2. CASE Register(w)
      BY <3>2 DEF Register, IInv, OutboxOK, Registered, HasFinal
    <3> QED
      BY <1>3, <3>1, <3>2
  <2>4. Goes(w, "registered") /\ task'[w].context = exchanges \cap ConvOf(m)
    BY <1>1, <2>1, <2>2, EnterEffect
  <2> QED
    BY <2>1, <2>3, <2>4 DEF Goes, TaskKinds, Entered
<1>4. CASE Skip(w) \/ Settle(w)
  <2>1. Leave(w)
    BY <1>4 DEF Skip, Settle
  <2> QED
    BY <1>1, <2>1, LeaveEffect DEF Goes, TaskKinds, WentOn
<1>5. CASE Raise(w)
  <2>1. used.failures < MaxFailures
    BY <1>5 DEF Raise
  <2> QED
    BY <1>1, <1>5, <2>1, RaiseEffect DEF Goes, TaskKinds, WentOn
<1>6. CASE Forget(w)
  <2>1. Goes(w, "forgot")
    BY <1>1, <1>6, GotoEffect DEF Forget, Pcs, Synchronous
  <2> QED
    BY <1>6, <2>1 DEF Goes, TaskKinds, WentOn
<1>7. CASE Ask(w)
  <2>1. Goes(w, "backend") /\ task'[w].context = task[w].context /\ task[w].pc = "registered"
    BY <1>1, <1>7, GotoEffect DEF Ask, Pcs, Executes, At
  <2> QED
    BY <2>1 DEF Goes, TaskKinds, WentOn
<1>8. CASE RecordFailure(w)
  <2>1. /\ task[w].pc = "failing" /\ UNCHANGED out /\ w \in Tasks
        /\ Goto(w, "flush") \/ (Goto(w, "reported") /\ ~HasFinal(out, m))
    BY <1>1, <1>8 DEF RecordFailure, At, Answered
  <2>2. CASE Goto(w, "flush")
    <3>1. Goes(w, "flush")
      BY <1>1, <2>2, GotoEffect DEF Pcs
    <3> QED
      BY <3>1 DEF Goes, TaskKinds, WentOn
  <2>3. CASE Goto(w, "reported") /\ ~HasFinal(out, m)
    <3>1. Goes(w, "reported")
      BY <1>1, <2>3, GotoEffect DEF Pcs, Synchronous
    <3> QED
      BY <2>1, <2>3, <3>1 DEF Goes, TaskKinds, WentOn
  <2> QED
    BY <2>1, <2>2, <2>3
<1>9. CASE GiveUp(w)
  <2>1. Goes(w, "done")
    BY <1>1, <1>9, GotoEffect DEF GiveUp, Pcs
  <2> QED
    BY <2>1 DEF Goes, TaskKinds, WentOn
<1>10. CASE w = Starter /\ RecoverNext
  <2>1. PICK k \in recovery : task' = [task EXCEPT ![w].req = k, ![w].pc = "lock"]
    BY <1>10 DEF RecoverNext
  <2>2. k \in Messages
    BY <1>1 DEF TypeOK
  <2>3. /\ task'[w].pc = "lock" /\ task'[w].req = k
        /\ \A v \in Workers \ {w} : task'[v] = task[v]
    BY <1>1, <2>1, <2>2, ReceiveEffect
  <2> QED
    BY <1>10, <2>2, <2>3, IdsAssumption DEF TaskKinds, Got
<1> QED
  BY <1>2, <1>3, <1>4, <1>5, <1>6, <1>7, <1>8, <1>9, <1>10 DEF Moving

LEMMA AnsweringKinds ==
    ASSUME IInv, NEW w \in Workers, Answering(w), NEW u \in Workers
    PROVE  TaskKinds(u)
<1> DEFINE m == task[w].req
<1>1. Sound(w) /\ TypeOK /\ 1 \in 1..MaxParts
  BY BoundsAssumption DEF IInv, TasksOK
<1>2. CASE Acknowledge(w) \/ Refuse(w) \/ AnswerChat(w) \/ AnswerFailure(w)
  <2>1. Leave(w)
    BY <1>2 DEF Acknowledge, Refuse, AnswerChat, AnswerFailure
  <2> QED
    BY <1>1, <2>1, LeaveEffect DEF Goes, TaskKinds, WentOn
<1>3. CASE AnswerForget(w) \/ AnswerQuery(w)
  <2>1. /\ Goto(w, "answered") /\ task[w].pc \in {"forgot", "backend"} /\ m \in Messages
        /\ \E n \in 1..MaxParts : out' = Put(out, Response(m, n, FALSE))
    BY <1>1, <1>3 DEF AnswerForget, AnswerQuery, At, Sound
  <2>2. HasFinal(out', m)
    BY <1>1, <2>1, ResponseFinal
  <2>3. Goes(w, "answered")
    BY <1>1, <2>1, GotoEffect DEF Pcs, Synchronous
  <2> QED
    BY <2>1, <2>2, <2>3 DEF Goes, TaskKinds, WentOn
<1>4. CASE Notify(w)
  <2>1. Goes(w, "backend") /\ task'[w].context = task[w].context /\ task[w].pc = "backend"
    BY <1>1, <1>4, NotifyEffect DEF Notify, At
  <2> QED
    BY <2>1 DEF Goes, TaskKinds, WentOn
<1>5. CASE w \in Tasks /\ ReportFailure(w)
  <2>1. Goes(w, "flush")
    BY <1>1, <1>5, GotoEffect DEF ReportFailure, Pcs
  <2> QED
    BY <2>1 DEF Goes, TaskKinds, WentOn
<1>6. CASE w = Starter /\ RecoverFailure
  <2>1. task' = [task EXCEPT ![w] = Idle]
    BY <1>6 DEF RecoverFailure
  <2> QED
    BY <1>1, <2>1, IdleType, SetTaskEffect DEF TaskKinds
<1> QED
  BY <1>2, <1>3, <1>4, <1>5, <1>6 DEF Answering

LEMMA DeliveryKinds ==
    ASSUME IInv, Beginning \/ Sent \/ SendFails, NEW u \in Workers
    PROVE  TaskKinds(u)
<1>1. TypeOK /\ Tasks \subseteq Workers
  BY DEF IInv, Workers
<1>2. ASSUME NEW w \in Tasks \cup {None}, NEW parts, Proceed(w, parts)
      PROVE  TaskKinds(u)
  <2>1. CASE w = None
    BY <1>2, <2>1 DEF Proceed, TaskKinds
  <2>2. CASE w \in Tasks
    <3>1. Goes(w, "done") \/ Goes(w, "flushing")
      BY <1>1, <1>2, <2>2, ProceedEffect
    <3> QED
      BY <1>1, <2>2, <3>1 DEF Goes, TaskKinds, WentOn
  <2> QED
    BY <2>1, <2>2
<1>3. flush.by \in Tasks \cup {None}
  BY <1>1 DEF TypeOK
<1> QED
  BY <1>2, <1>3 DEF Beginning, FlushAll, FlushOwn, Sent, SendFails

LEMMA CrashKinds ==
    ASSUME IInv, Crash, NEW u \in Workers
    PROVE  TaskKinds(u)
BY CrashEffect DEF IInv, Workers, TaskKinds, WentOn

LEMMA TasksMove ==
    ASSUME IInv, Next, NEW u \in Workers
    PROVE  TaskKinds(u)
<1>1. ASSUME NEW m, OfJob(m)
      PROVE  TaskKinds(u)
  BY <1>1, OfJobFrame DEF TaskKinds
<1>2. ASSUME Rest
      PROVE  TaskKinds(u)
  BY <1>2, RestFrame DEF vars, TaskKinds
<1> QED
  BY <1>1, <1>2, StepKinds, MovingKinds, AnsweringKinds, DeliveryKinds, CrashKinds

-----------------------------------------------------------------------------
(* Memory.                                                                 *)

\* A remembered answer of m was delivered to its last part.
Delivered(q, m) == \E i \in DOMAIN q : q[i].req = m /\ q[i].remember /\ q[i].done

LEMMA MemoryIs ==
    ASSUME MemoryOK, NEW m \in Messages
    PROVE  m \in exchanges <=> Delivered(out, m) /\ request[m].gen = gen[ConvOf(m)]
BY DEF MemoryOK, Delivered

\* Only the last acknowledgement delivers an answer.
LEMMA DeliveredStays ==
    ASSUME IInv, Next, ~Sent, NEW m
    PROVE  Delivered(out', m) <=> Delivered(out, m)
<1>1. out \in Seq(Output) /\ DOMAIN out = 1..Len(out) /\ Len(out) \in Nat
  BY DEF IInv, TypeOK
<1>2. CASE Storing
  <2>1. PICK o \in Output : Added(o)
    BY <1>2 DEF Storing
  <2>2. /\ DOMAIN out' = 1..(Len(out) + 1)
        /\ \A k \in DOMAIN out :
              /\ out'[k].req = out[k].req /\ out'[k].remember = out[k].remember
              /\ out'[k].done <=> out[k].done \/ (/\ out[k].kind = "progress" /\ out[k].req = o.req
                                                  /\ o.kind \in FinalKinds \cup {"progress"})
    BY <1>1, <2>1 DEF Added, Grows, MayClose
  <2>3. out'[Len(out) + 1].done /\ out'[Len(out) + 1].remember => FALSE
    BY <1>1, <2>1 DEF Added, Grows, MayClose
  <2>4. \A k \in DOMAIN out : out[k].remember => out[k].kind = "response"
    BY DEF IInv, OutboxOK, RowOK
  <2>5. \A k \in DOMAIN out : out'[k].remember /\ out'[k].done <=> out[k].remember /\ out[k].done
    BY <2>2, <2>4
  <2>6. DOMAIN out \subseteq DOMAIN out' /\ \A k \in DOMAIN out' : k \in DOMAIN out \/ k = Len(out) + 1
    BY <1>1, <2>2
  <2> QED
    BY <2>2, <2>3, <2>5, <2>6 DEF Delivered
<1>3. CASE out' = out
  BY <1>3
<1> QED
  BY <1>2, <1>3, OutKinds, BeginningFrame, SendFailsFrame, CrashFrame DEF IInv, Breaking

LEMMA SentDelivers ==
    ASSUME IInv, Sent, NEW m
    PROVE  LET o == out'[flush.part[1]] IN
           Delivered(out', m) <=> Delivered(out, m) \/ (o.req = m /\ o.remember /\ Completes(flush.part))
<1> DEFINE i == flush.part[1]
<1>1. /\ Acknowledged(flush.part) /\ i \in DOMAIN out /\ out[i] \in Output /\ RowOK(out[i])
      /\ out \in Seq(Output)
  BY SentEffect, PartBeingSent DEF IInv, Sent, OutboxOK, TypeOK
<1>2. DOMAIN out' = DOMAIN out
  BY <1>1 DEF Acknowledged
<1>3. /\ \A k \in DOMAIN out : k # i => out'[k] = out[k]
      /\ out'[i].req = out[i].req /\ out'[i].remember = out[i].remember
      /\ out'[i].done <=> out[i].done \/ WhollyAcked(out'[i])
  BY <1>1 DEF Acknowledged
<1>4. out'[i].done <=> out[i].done \/ Completes(flush.part)
  BY <1>3 DEF Completes
<1> QED
  BY <1>1, <1>2, <1>3, <1>4 DEF Delivered

LEMMA ExchangesStep ==
    ASSUME IInv, Next, NEW m \in Messages
    PROVE  m \in exchanges' <=> Delivered(out', m) /\ request'[m].gen = gen'[ConvOf(m)]
<1> DEFINE c == ConvOf(m)
<1>1. /\ m \in exchanges <=> Delivered(out, m) /\ request[m].gen = gen[c]
      /\ c \in Conversations /\ m \in c /\ TypeOK
  BY MemoryIs, ConvOfMessage DEF IInv
<1>2. Delivered(out, m) => Registered(m)
  BY DEF Delivered, IInv, OutboxOK
<1>3. Delivered(out, m) => request'[m].gen = request[m].gen
  BY <1>2, NextKeeps DEF Keeps
<1>4. CASE ~Sent /\ UNCHANGED <<gen, exchanges>>
  BY <1>1, <1>3, <1>4, DeliveredStays
<1>5. ASSUME NEW w \in Workers, Forget(w), ~Sent
      PROVE  m \in exchanges' <=> Delivered(out', m) /\ request'[m].gen = gen'[c]
  <2> DEFINE d == ConvOf(task[w].req)
  <2>1. gen' = [gen EXCEPT ![d] = @ + 1] /\ exchanges' = exchanges \ d
    BY <1>5 DEF Forget, NextGeneration
  <2>2. d \in Conversations
    BY <1>5, ConvOfMessage DEF Forget, Executes, At, IInv, TasksOK, Sound
  <2>3. Delivered(out', m) <=> Delivered(out, m)
    BY <1>5, DeliveredStays
  <2>4. CASE c = d
    <3>1. request[m].gen <= gen[c] /\ gen[c] \in Nat /\ gen'[c] = gen[c] + 1
      BY <1>1, <2>1, <2>4 DEF IInv, RequestsOK, TypeOK
    <3>2. request[m].gen \in Nat
      BY DEF IInv, TypeOK, Request
    <3>3. request[m].gen # gen'[c] /\ m \notin exchanges'
      BY <1>1, <2>1, <2>4, <3>1, <3>2
    <3> QED
      BY <1>3, <2>3, <3>3
  <2>5. CASE c # d
    <3>1. gen'[c] = gen[c] /\ m \notin d
      BY <1>1, <2>1, <2>2, <2>5, ConvOfMember DEF TypeOK
    <3> QED
      BY <1>1, <1>3, <2>1, <2>3, <3>1
  <2> QED
    BY <2>4, <2>5
<1>6. CASE Sent
  <2> DEFINE i == flush.part[1]
             o == out'[i]
  <2>1. /\ Completed(o, Completes(flush.part)) /\ UNCHANGED gen /\ o.req = out[i].req
        /\ i \in DOMAIN out /\ out[i] \in Output
    BY <1>6, SentEffect, SentFrame, PartBeingSent DEF IInv, Sent, Acknowledged
  <2>2. o.req \in Messages /\ Registered(o.req)
    BY <2>1 DEF Output, IInv, OutboxOK
  <2>3. /\ exchanges' = IF Completes(flush.part) /\ Remembers(o) THEN exchanges \cup {o.req}
                                                               ELSE exchanges
    BY <2>1 DEF Completed
  <2>4. Remembers(o) <=> o.remember /\ request[o.req].gen = gen[ConvOf(o.req)]
    BY DEF Remembers
  <2>5. Delivered(out', m) <=> Delivered(out, m) \/ (o.req = m /\ o.remember /\ Completes(flush.part))
    BY <1>6, SentDelivers
  <2>6. Registered(m) => request'[m].gen = request[m].gen
    BY NextKeeps DEF Keeps
  <2> HIDE DEF o
  <2> QED
    BY <1>1, <1>2, <2>1, <2>2, <2>3, <2>4, <2>5, <2>6
<1> QED
  BY <1>4, <1>5, <1>6, MemoryKinds

LEMMA ContextStep ==
    ASSUME IInv, Next, NEW u \in Workers, task'[u].pc \in {"registered", "backend"}
    PROVE  task'[u].context \subseteq exchanges' \cap ConvOf(task'[u].req)
<1> DEFINE m == task[u].req
<1>1. Sound(u) /\ TypeOK
  BY DEF IInv, TasksOK
<1>2. CASE Entered(u)
  BY <1>2 DEF Entered
<1>3. CASE /\ task'[u].req = m /\ task'[u].context = task[u].context
           /\ task[u].pc \in {"registered", "backend"}
  <2>1. task[u].context \subseteq exchanges \cap ConvOf(m)
    BY <1>3 DEF IInv, MemoryOK
  <2>2. CASE UNCHANGED exchanges
    BY <1>3, <2>1, <2>2
  <2>3. CASE Sent
    BY <1>1, <1>3, <2>1, <2>3, SentMemory DEF IInv
  <2>4. ASSUME NEW w \in Workers, Forget(w)
        PROVE  task[u].context \subseteq exchanges' \cap ConvOf(m)
    <3> DEFINE k == task[w].req
    <3>1. /\ task[w].pc = "registered" /\ exchanges' = exchanges \ ConvOf(k) /\ Goto(w, "forgot")
      BY <2>4 DEF Forget, Executes, At
    <3>2. w # u
      BY <1>1, <3>1, GotoEffect DEF Goes, Pcs, Synchronous
    <3>3. lock[ConvOf(k)] = w /\ lock[ConvOf(m)] = u /\ k \in Messages /\ m \in Messages
      BY <1>1, <1>3, <3>1 DEF IInv, TasksOK, Sound, Inside
    <3>4. ConvOf(k) # ConvOf(m) /\ ConvOf(k) \in Conversations /\ ConvOf(m) \in Conversations
      BY <3>2, <3>3, ConvOfMessage
    <3>5. ConvOf(k) \cap ConvOf(m) = {}
      BY <3>4, ConversationsAssumption
    <3> QED
      BY <2>1, <3>1, <3>5
  <2> QED
    BY <1>3, <2>2, <2>3, <2>4, MemoryKinds
<1> QED
  BY <1>2, <1>3, TasksMove, IdleType DEF TaskKinds, WentOn, Got

LEMMA MemoryStep ==
    ASSUME IInv, Next
    PROVE  MemoryOK'
<1>1. \A m \in Messages :
        m \in exchanges' <=> /\ \E i \in DOMAIN out' : out'[i].req = m /\ out'[i].remember /\ out'[i].done
                             /\ request'[m].gen = gen'[ConvOf(m)]
  BY ExchangesStep DEF Delivered
<1> QED
  BY <1>1, ContextStep DEF MemoryOK

-----------------------------------------------------------------------------
(* One final output.                                                       *)

\* Where the final output o comes from.
FinalBy(o) ==
    \/ \E w \in Workers : FromWork(w, o)
    \/ job[o.req] # "none" /\ LoopFree /\ ~HasFinal(out, o.req)

LEMMA WhoStores ==
    ASSUME IInv, Next
    PROVE  \/ UNCHANGED out
           \/ Acknowledged(flush.part) /\ flush.part[1] \in DOMAIN out
           \/ \E o \in Output : Added(o) /\ (o.kind \in FinalKinds => FinalBy(o))
<1>1. TypeOK /\ TasksOK /\ RequestsOK /\ FlushOK
  BY DEF IInv
<1>2. ASSUME NEW w \in Workers, Answering(w)
      PROVE  \/ UNCHANGED out
             \/ \E o \in Output : Added(o) /\ (o.kind \in FinalKinds => FinalBy(o))
  <2>1. UNCHANGED out \/ \E o \in Output : Stored(o) /\ FromWork(w, o)
    BY <1>1, <1>2, AnsweringStores
  <2> QED
    BY <1>1, <2>1, StoredAdds DEF FinalBy
<1>3. ASSUME NEW m \in Messages, OfJob(m)
      PROVE  \/ UNCHANGED out
             \/ \E o \in Output : Added(o) /\ (o.kind \in FinalKinds => FinalBy(o))
  <2>1. \/ UNCHANGED out
        \/ job[m] # "none" /\ \E o \in Output : Stored(o) /\ OfJobStored(m, o)
    BY <1>1, <1>3, OfJobStores
  <2>2. CASE UNCHANGED out
    BY <2>2
  <2>3. ASSUME NEW o \in Output, job[m] # "none", Stored(o), OfJobStored(m, o)
        PROVE  UNCHANGED out \/ (Added(o) /\ (o.kind \in FinalKinds => FinalBy(o)))
    BY <1>1, <2>3, StoredAdds DEF FinalBy, OfJobStored
  <2> QED
    BY <2>1, <2>2, <2>3
<1>4. Sent => Acknowledged(flush.part) /\ flush.part[1] \in DOMAIN out
  BY <1>1, SentEffect, PartBeingSent DEF Sent
<1>5. ASSUME \/ \E w \in Workers : Moving(w)
             \/ Beginning \/ SendFails \/ Crash \/ Rest
      PROVE  UNCHANGED out
  BY <1>5, MovingFrame, BeginningFrame, SendFailsFrame, CrashFrame, RestFrame DEF vars
<1> QED
  BY <1>2, <1>3, <1>4, <1>5, StepKinds

LEMMA AcknowledgedSame ==
    ASSUME TypeOK, NEW x, Acknowledged(x), x[1] \in DOMAIN out
    PROVE  /\ DOMAIN out' = DOMAIN out
           /\ \A i \in DOMAIN out : out'[i].req = out[i].req /\ out'[i].kind = out[i].kind
<1>1. out \in Seq(Output) /\ out' \in Seq(Output) /\ Len(out') = Len(out)
  BY DEF TypeOK, Acknowledged
<1>2. DOMAIN out' = DOMAIN out
  BY <1>1
<1> QED
  BY <1>2 DEF Acknowledged

\* Whoever gets an answer got it from a coroutine or its job.
LEMMA WhoAnswers ==
    ASSUME IInv, Next, NEW m, ~HasFinal(out, m), HasFinal(out', m)
    PROVE  \E o \in Output : o.req = m /\ o.kind \in FinalKinds /\ FinalBy(o)
<1>1. TypeOK /\ out \in Seq(Output)
  BY DEF IInv, TypeOK
<1>2. CASE Acknowledged(flush.part) /\ flush.part[1] \in DOMAIN out
  BY <1>1, <1>2, AcknowledgedSame DEF HasFinal
<1>3. ASSUME NEW o \in Output, Added(o), o.kind \in FinalKinds => FinalBy(o)
      PROVE  o.req = m /\ o.kind \in FinalKinds /\ FinalBy(o)
  <2>1. Grows(out, out', o)
    BY <1>3 DEF Added
  <2>2. o.req = m /\ o.kind \in FinalKinds
    BY <1>1, <2>1, HasFinalGrows
  <2> QED
    BY <1>3, <2>2
<1> QED
  BY <1>2, <1>3, WhoStores

LEMMA FinishesPc ==
    ASSUME TypeOK, NEW w \in Workers, Finishes(w)
    PROVE  task'[w].pc \notin Working \cup {"reported"}
<1>1. CASE Leave(w)
  BY <1>1, LeaveEffect, IdleType DEF Goes, Working
<1>2. CASE Goto(w, "answered") \/ Goto(w, "flush")
  BY <1>2, GotoEffect DEF Goes, Pcs, Synchronous, Working
<1>3. CASE task' = [task EXCEPT ![w] = Idle]
  BY <1>3, IdleType, SetTaskEffect DEF Working
<1> QED
  BY <1>1, <1>2, <1>3 DEF Finishes

\* Nobody else is at the message that gets an answer.
LEMMA OneAnswers ==
    ASSUME IInv, Careful, NEW o \in Output, o.kind \in FinalKinds, FinalBy(o),
           NEW u \in Workers, task[u].pc \in Working, task[u].req = o.req
    PROVE  FromWork(u, o)
<1> DEFINE m == o.req
<1>1. /\ TypeOK /\ TasksOK /\ RequestsOK /\ FinalOK /\ Sound(u) /\ m \in Messages
      /\ Workers = Tasks \cup {Starter}
  BY DEF IInv, TasksOK, Workers, Output
<1>2. ASSUME job[m] # "none", LoopFree
      PROVE  FALSE
  <2>1. task[u].pc = "backend" /\ request[m].intent \in {"chat", "query"}
    BY <1>1, <1>2 DEF Working, LoopFree, Synchronous, Sound
  <2>2. m \in JobMessages /\ request[m].intent \in {"none", IntentOf(m)}
    BY <1>1, <1>2 DEF RequestsOK
  <2>3. IntentOf(m) = "job"
    BY <2>2, IntentsAssumption DEF IntentOf
  <2> QED
    BY <2>1, <2>2, <2>3
<1>3. ASSUME NEW w \in Workers, FromWork(w, o)
      PROVE  w = u
  <2>1. task[w].req = m /\ Sound(w)
    BY <1>1, <1>3 DEF FromWork, TasksOK
  <2>2. CASE task[w].pc \in Working
    BY <1>1, <2>1, <2>2 DEF Sound, Working, Inside
  <2>3. CASE task[w].pc = "reported" /\ w \in Tasks
    <3>1. ~Redelivery
      BY <1>1, <2>3 DEF Careful, FinalOK
    <3>2. u \in Tasks
      BY <1>1, <2>3 DEF TasksOK, Ready, Working
    <3> QED
      BY <1>1, <2>1, <2>3, <3>1, <3>2, IdsAssumption DEF FinalOK
  <2>4. CASE task[w].pc = "failing" /\ w = Starter
    BY <1>1, <2>4 DEF TasksOK, Ready, Working
  <2> QED
    BY <1>3, <2>2, <2>3, <2>4 DEF FromWork
<1> QED
  BY <1>2, <1>3 DEF FinalBy

LEMMA FirstFinal ==
    ASSUME IInv, Careful, NEW o \in Output, o.kind \in FinalKinds, FinalBy(o)
    PROVE  ~HasFinal(out, o.req)
BY DEF IInv, FinalOK, FinalBy, FromWork

LEMMA OneFinalStep ==
    ASSUME IInv, Next, Careful
    PROVE  OneFinalOutput'
<1>1. TypeOK /\ OneFinalOutput /\ out \in Seq(Output)
  BY DEF IInv, FinalOK, TypeOK
<1>2. CASE Acknowledged(flush.part) /\ flush.part[1] \in DOMAIN out
  BY <1>1, <1>2, AcknowledgedSame DEF OneFinalOutput
<1>3. ASSUME NEW o \in Output, Added(o), o.kind \in FinalKinds => FinalBy(o)
      PROVE  OneFinalOutput'
  <2>1. /\ DOMAIN out' = 1..(Len(out) + 1) /\ DOMAIN out = 1..Len(out) /\ Len(out) \in Nat
        /\ \A i \in DOMAIN out : out'[i].req = out[i].req /\ out'[i].kind = out[i].kind
        /\ out'[Len(out) + 1].req = o.req /\ out'[Len(out) + 1].kind = o.kind
    BY <1>1, <1>3 DEF Added, Grows, MayClose
  <2>2. o.kind \in FinalKinds => \A i \in DOMAIN out : out[i].req = o.req => out[i].kind \notin FinalKinds
    BY <1>3, FirstFinal DEF HasFinal
  <2> QED
    BY <1>1, <2>1, <2>2 DEF OneFinalOutput
<1>4. CASE UNCHANGED out
  BY <1>1, <1>4 DEF OneFinalOutput
<1> QED
  BY <1>2, <1>3, <1>4, WhoStores

LEMMA WorkingStep ==
    ASSUME IInv, Next, Careful, NEW u \in Workers, task'[u].pc \in Working
    PROVE  ~HasFinal(out', task'[u].req)
<1>1. TypeOK /\ FinalOK
  BY DEF IInv
<1>2. CASE Entered(u)
  BY <1>2 DEF Entered
<1>3. ASSUME task'[u].req = task[u].req, task[u].pc \in Working, HasFinal(out', task[u].req)
      PROVE  FALSE
  <2>1. ~HasFinal(out, task[u].req)
    BY <1>1, <1>3 DEF FinalOK
  <2>2. PICK o \in Output : o.req = task[u].req /\ o.kind \in FinalKinds /\ FinalBy(o)
    BY <1>3, <2>1, WhoAnswers
  <2>3. FromWork(u, o)
    BY <1>3, <2>2, OneAnswers
  <2>4. Finishes(u)
    BY <2>2, <2>3 DEF FromWork
  <2> QED
    BY <1>1, <2>4, FinishesPc
<1> QED
  BY <1>2, <1>3, TasksMove, IdleType
     DEF TaskKinds, WentOn, Got, Working, Forget, Executes, At

LEMMA ReportedStep ==
    ASSUME IInv, Next, NEW t \in Tasks, task'[t].pc = "reported"
    PROVE  ~HasFinal(out', task'[t].req)
<1>1. TypeOK /\ TasksOK /\ FinalOK /\ Workers = Tasks \cup {Starter}
  BY DEF IInv, Workers
<1>2. ASSUME task'[t] = task[t], HasFinal(out', task[t].req)
      PROVE  FALSE
  <2>1. ~HasFinal(out, task[t].req) /\ task[t].pc = "reported" /\ ~LoopFree
    BY <1>1, <1>2 DEF FinalOK, LoopFree, Synchronous
  <2>2. PICK o \in Output : o.req = task[t].req /\ o.kind \in FinalKinds /\ FinalBy(o)
    BY <1>2, <2>1, WhoAnswers
  <2>3. PICK w \in Workers : FromWork(w, o)
    BY <2>1, <2>2 DEF FinalBy
  <2>4. task[w].pc \in Synchronous /\ Finishes(w)
    BY <2>1, <2>2, <2>3 DEF FromWork
  <2>5. w = t
    BY <1>1, <2>1, <2>4 DEF TasksOK, Synchronous
  <2> QED
    BY <1>1, <2>4, <2>5, FinishesPc
<1> QED
  BY <1>1, <1>2, TasksMove, IdleType DEF TaskKinds, Entered, WentOn, Got

LEMMA AnsweredStep ==
    ASSUME IInv, Next, NEW u \in Workers, task'[u].pc = "answered"
    PROVE  HasFinal(out', task'[u].req)
BY TasksMove, IdleType, NextExtends DEF TaskKinds, Entered, WentOn, Got, IInv, FinalOK

LEMMA NoFailureStep ==
    ASSUME IInv, Next, MaxFailures = 0, NEW u \in Workers
    PROVE  task'[u].pc \notin {"failing", "reported"}
<1>1. ~(used.failures < MaxFailures)
  BY DEF IInv, TypeOK
<1> QED
  BY <1>1, TasksMove, IdleType DEF TaskKinds, Entered, WentOn, Got, IInv, FinalOK

LEMMA OneTaskStep ==
    ASSUME IInv, Next, ~Redelivery, NEW t \in Tasks, NEW u \in Tasks,
           task'[t].req = task'[u].req, task'[t].req # None
    PROVE  t = u
<1>1. Tasks \subseteq Workers /\ Starter \notin Tasks
  BY IdsAssumption DEF Workers
<1>2. TaskKinds(t) /\ TaskKinds(u)
  BY <1>1, TasksMove
<1> DEFINE Fresh(v) == /\ \A w \in Tasks : task[w].req # task'[v].req
                       /\ \A w \in Tasks \ {v} : task'[w] = task[w]
<1>3. /\ task'[t].req = task[t].req \/ Fresh(t)
      /\ task'[u].req = task[u].req \/ Fresh(u)
  BY <1>1, <1>2, IdleType DEF TaskKinds, Entered, WentOn, Got
<1>4. \A v, w \in Tasks : task[v].req = task[w].req /\ task[v].req # None => v = w
  BY DEF IInv, FinalOK
<1> QED
  BY <1>3, <1>4

LEMMA FailuresStep ==
    ASSUME IInv, Next
    PROVE  used'.failures <= MaxFailures
<1>1. used \in [crashes: Nat, failures: Nat, losses: Nat] /\ used.failures <= MaxFailures
  BY DEF IInv, TypeOK, FinalOK
<1>2. ASSUME NEW w, Moving(w)
      PROVE  \/ UNCHANGED used
             \/ used' = [used EXCEPT !.failures = @ + 1] /\ used.failures < MaxFailures
  BY <1>2 DEF Moving, Receive, Register, Forget, Resume, Skip, Ask, Settle, Raise, RecordFailure,
     GiveUp, RecoverNext
<1>3. /\ SendFails => used' = [used EXCEPT !.losses = @ + 1]
      /\ Crash => used' = [used EXCEPT !.crashes = @ + 1]
      /\ Rest => UNCHANGED used
  BY RestFrame DEF SendFails, Crash, vars
<1>4. CASE used' = [used EXCEPT !.losses = @ + 1] \/ used' = [used EXCEPT !.crashes = @ + 1]
  BY <1>1, <1>4
<1>5. CASE used' = [used EXCEPT !.failures = @ + 1] /\ used.failures < MaxFailures
  <2>1. used'.failures = used.failures + 1 /\ used.failures \in Nat
    BY <1>1, <1>5
  <2> QED
    BY <1>5, <2>1, BoundsAssumption
<1>6. CASE UNCHANGED used
  BY <1>1, <1>6
<1> QED
  BY <1>2, <1>3, <1>4, <1>5, <1>6, StepKinds, AnsweringFrame, OfJobFrame, BeginningFrame, SentFrame

LEMMA FinalStep ==
    ASSUME IInv, Next
    PROVE  FinalOK'
<1>1. used'.failures <= MaxFailures
  BY FailuresStep
<1>2. MaxFailures = 0 => \A w \in Workers : task'[w].pc \notin {"failing", "reported"}
  BY NoFailureStep
<1>3. ~Redelivery =>
        \A t, u \in Tasks : task'[t].req = task'[u].req /\ task'[t].req # None => t = u
  BY OneTaskStep
<1>4. /\ \A t \in Tasks : task'[t].pc = "reported" => ~HasFinal(out', task'[t].req)
      /\ \A w \in Workers : task'[w].pc = "answered" => HasFinal(out', task'[w].req)
  BY ReportedStep, AnsweredStep
<1>5. Careful =>
        /\ OneFinalOutput'
        /\ \A w \in Workers : task'[w].pc \in Working => ~HasFinal(out', task'[w].req)
  BY OneFinalStep, WorkingStep
<1> QED
  BY <1>1, <1>2, <1>3, <1>4, <1>5 DEF FinalOK, Careful, Working

-----------------------------------------------------------------------------
(* A forget that is not answered.                                          *)

\* Somebody is at the forget f.
Attended(f) ==
    \/ f \in recovery
    \/ \E w \in Workers : /\ task[w].req = f
                          /\ \/ task[w].pc \in {"registered", "forgot"}
                             \/ w = Starter /\ task[w].pc = "lock"

Latest(f) == arrival # <<>> /\ arrival[Len(arrival)] = f

LEMMA ForgetIs ==
    ForgetOK <=>
      (MaxFailures = 0 =>
         \A f \in Forgets : Registered(f) /\ ~HasFinal(out, f) => Latest(f) /\ Attended(f))
BY DEF ForgetOK, Latest, Attended

LEMMA OthersStay ==
    ASSUME TypeOK, NEW w \in Workers, Moving(w) \/ Answering(w), NEW u \in Workers \ {w}
    PROVE  task'[u] = task[u]
<1>1. ASSUME \/ Register(w) \/ Resume(w) \/ Skip(w) \/ Forget(w) \/ Ask(w) \/ Settle(w) \/ Raise(w)
             \/ RecordFailure(w) \/ GiveUp(w)
      PROVE  task'[u] = task[u]
  BY <1>1 DEF TypeOK, Register, Resume, Skip, Forget, Ask, Settle, Raise, RecordFailure, GiveUp,
     Enter, Leave, Goto
<1>2. ASSUME \/ \E m \in Messages : Receive(w, m)
             \/ w = Starter /\ RecoverNext
      PROVE  task'[u] = task[u]
  BY <1>2 DEF TypeOK, Receive, RecoverNext
<1>3. ASSUME \/ Acknowledge(w) \/ Refuse(w) \/ AnswerForget(w) \/ AnswerChat(w) \/ AnswerQuery(w)
             \/ AnswerFailure(w) \/ Notify(w) \/ ReportFailure(w) \/ (w = Starter /\ RecoverFailure)
      PROVE  task'[u] = task[u]
  BY <1>3 DEF TypeOK, Acknowledge, Refuse, AnswerForget, AnswerChat, AnswerQuery, AnswerFailure,
     Notify, ReportFailure, RecoverFailure, Leave, Goto
<1> QED
  BY <1>1, <1>2, <1>3 DEF Moving, Answering

LEMMA ForgetIntent ==
    ASSUME IInv, NEW f \in Forgets
    PROVE  f \in Messages /\ request[f].intent \in {"none", "forget"} /\ job[f] = "none"
<1>1. f \in Messages /\ f \notin Chats /\ f \notin JobMessages
  BY IntentsAssumption
<1>2. IntentOf(f) = "forget"
  BY <1>1 DEF IntentOf
<1> QED
  BY <1>1, <1>2 DEF IInv, RequestsOK

\* Who is at f stays there until it is answered.
LEMMA AttendedMoves ==
    ASSUME IInv, MaxFailures = 0, NEW f \in Forgets, Registered(f), ~HasFinal(out', f),
           ~HasFinal(out, f), NEW w \in Workers, Moving(w) \/ Answering(w), task[w].req = f,
           task[w].pc \in {"registered", "forgot"} \/ (w = Starter /\ task[w].pc = "lock")
    PROVE  task'[w].req = f /\ task'[w].pc \in {"registered", "forgot"}
<1>1. /\ TypeOK /\ f \in Messages /\ request[f].intent \in {"none", "forget"} /\ job[f] = "none"
      /\ used.failures \in Nat /\ ~(used.failures < MaxFailures)
      /\ request[f].status # "completed"
  BY ForgetIntent DEF IInv, TypeOK, RequestsOK, FinalOK
<1>2. ASSUME Moving(w)
      PROVE  Resume(w) \/ Forget(w)
  <2>1. ~Raise(w)
    BY <1>1 DEF Raise
  <2>2. ~Skip(w) /\ ~Register(w)
    BY <1>1 DEF Skip, Register, Registered, Unfinished
  <2>3. ~Ask(w) /\ ~Settle(w) /\ ~RecordFailure(w) /\ ~GiveUp(w)
    BY <1>1 DEF Ask, Settle, RecordFailure, GiveUp, Executes, At
  <2>4. ~(w = Starter /\ RecoverNext) /\ \A m : ~Receive(w, m)
    BY DEF RecoverNext, Receive, At
  <2> QED
    BY <1>2, <2>1, <2>2, <2>3, <2>4 DEF Moving
<1>3. ~Answering(w)
  <2>1. ~Refuse(w) /\ ~AnswerForget(w)
    BY <1>1, OneResponseFinal DEF Refuse, AnswerForget
  <2>2. /\ ~Acknowledge(w) /\ ~AnswerChat(w) /\ ~AnswerQuery(w) /\ ~AnswerFailure(w) /\ ~Notify(w)
        /\ ~ReportFailure(w) /\ ~(w = Starter /\ RecoverFailure)
    BY <1>1 DEF Acknowledge, AnswerChat, AnswerQuery, AnswerFailure, Notify, ReportFailure,
       RecoverFailure, Executes, At
  <2> QED
    BY <2>1, <2>2 DEF Answering
<1>4. CASE Resume(w)
  <2>1. Goes(w, "registered")
    BY <1>1, <1>4, EnterEffect, ConvOfMessage DEF Resume
  <2> QED
    BY <2>1 DEF Goes
<1>5. CASE Forget(w)
  <2>1. Goes(w, "forgot")
    BY <1>1, <1>5, GotoEffect DEF Forget, Pcs, Synchronous
  <2> QED
    BY <2>1 DEF Goes
<1> QED
  BY <1>2, <1>3, <1>4, <1>5

\* start() takes the requests that it has listed, one by one.
LEMMA RecoveryMoves ==
    ASSUME IInv, NEW w \in Workers, Moving(w) \/ Answering(w), NEW f \in recovery
    PROVE  Attended(f)'
<1>1. CASE w = Starter /\ RecoverNext
  <2>1. PICK k \in recovery : /\ task' = [task EXCEPT ![w].req = k, ![w].pc = "lock"]
                              /\ recovery' = recovery \ {k}
    BY <1>1 DEF RecoverNext
  <2>2. k \in Messages
    BY DEF IInv, TypeOK
  <2>3. task'[w].req = k /\ task'[w].pc = "lock"
    BY <2>1, <2>2, ReceiveEffect DEF IInv
  <2> QED
    BY <1>1, <2>1, <2>3 DEF Attended
<1>2. CASE ~(w = Starter /\ RecoverNext)
  <2>1. recovery' = recovery
    <3>1. Moving(w) => recovery' = recovery
      BY <1>2 DEF Moving, Receive, Register, Resume, Skip, Forget, Ask, Settle, Raise, RecordFailure,
         GiveUp
    <3> QED
      BY <3>1, AnsweringFrame
  <2> QED
    BY <2>1 DEF Attended
<1> QED
  BY <1>1, <1>2

LEMMA AttendedStep ==
    ASSUME IInv, Next, MaxFailures = 0, NEW f \in Forgets, Registered(f), ~HasFinal(out', f)
    PROVE  Attended(f)'
<1>1. TypeOK /\ ~HasFinal(out, f) /\ Starter \in Workers /\ Tasks \subseteq Workers
  BY NextExtends DEF IInv, Workers
<1>2. Attended(f)
  BY <1>1, ForgetIs DEF IInv
<1>3. ASSUME NEW w \in Workers, Moving(w) \/ Answering(w)
      PROVE  Attended(f)'
  <2>1. CASE f \in recovery
    BY <1>3, <2>1, RecoveryMoves
  <2>2. ASSUME NEW u \in Workers, task[u].req = f,
               task[u].pc \in {"registered", "forgot"} \/ (u = Starter /\ task[u].pc = "lock")
        PROVE  Attended(f)'
    <3>1. CASE u = w
      <4>1. task'[w].req = f /\ task'[w].pc \in {"registered", "forgot"}
        BY <1>1, <1>3, <2>2, <3>1, AttendedMoves
      <4> QED
        BY <4>1 DEF Attended
    <3>2. CASE u # w
      <4>1. task'[u] = task[u]
        BY <1>1, <1>3, <3>2, OthersStay
      <4> QED
        BY <2>2, <4>1 DEF Attended
    <3> QED
      BY <3>1, <3>2
  <2> QED
    BY <1>2, <2>1, <2>2 DEF Attended
<1>4. CASE Crash
  <2>1. /\ job[f] = "none" /\ f \in Messages /\ request[f].status \in Statuses
        /\ request[f].status # "completed"
    BY <1>1, ForgetIntent DEF IInv, RequestsOK, TypeOK, Request
  <2>2. Recoverable(f)
    BY <1>1, <2>1 DEF Recoverable, Registered, Statuses
  <2> QED
    BY <1>1, <1>4, <2>1, <2>2, CrashEffect DEF Attended
<1>5. CASE UNCHANGED <<task, recovery>>
  BY <1>2, <1>5 DEF Attended
<1>6. CASE Beginning \/ Sent \/ SendFails
  <2>1. UNCHANGED recovery
    BY <1>6, BeginningFrame, SentFrame, SendFailsFrame
  <2>2. ASSUME NEW u \in Workers, task[u].req = f,
               task[u].pc \in {"registered", "forgot"} \/ (u = Starter /\ task[u].pc = "lock")
        PROVE  task'[u] = task[u]
    <3>1. ASSUME NEW w \in Workers, task[w].pc \in {"flush", "flushing"}, NEW pc,
                 task' = [task EXCEPT ![w].pc = pc]
          PROVE  task'[u] = task[u]
      BY <1>1, <2>2, <3>1 DEF TypeOK
    <3>2. flush.by # None => flush.by \in Workers /\ task[flush.by].pc = "flushing"
      BY <1>1 DEF IInv, TasksOK, Sound, TypeOK
    <3> QED
      BY <1>1, <1>6, <3>1, <3>2 DEF Beginning, FlushAll, FlushOwn, At, Sent, SendFails, Proceed, Goto
  <2> QED
    BY <1>2, <2>1, <2>2 DEF Attended
<1> QED
  BY <1>3, <1>4, <1>5, <1>6, StepKinds, OfJobFrame, RestFrame DEF vars

\* Only on_message registers.
LEMMA WhoRegisters ==
    ASSUME IInv, Next, arrival' # arrival
    PROVE  \E w \in Workers : Register(w) \/ RecordFailure(w)
<1>1. ASSUME NEW w \in Workers, Moving(w)
      PROVE  Register(w) \/ RecordFailure(w) \/ UNCHANGED arrival
  BY <1>1 DEF Moving, Receive, Resume, Skip, Forget, Ask, Settle, Raise, GiveUp, RecoverNext
<1> QED
  BY <1>1, StepKinds, AnsweringFrame, OfJobFrame, BeginningFrame, SentFrame, SendFailsFrame,
     CrashFrame, RestFrame DEF vars

\* While a forget is not answered, no message is registered.
LEMMA NoneArrives ==
    ASSUME IInv, Next, MaxFailures = 0, NEW f \in Forgets, Attended(f)
    PROVE  arrival' = arrival
<1>1. TasksOK /\ FinalOK /\ Workers = Tasks \cup {Starter} /\ f \in Messages
  BY IntentsAssumption DEF IInv, Workers
<1>2. ASSUME NEW w \in Workers, Register(w)
      PROVE  FALSE
  <2>1. task[w].pc = "lock" /\ LoopFree /\ ~Registered(task[w].req)
    BY <1>2 DEF Register, At, Synchronous, Registered
  <2>2. ~Ready
    BY <2>1 DEF Attended, Ready, LoopFree, Synchronous
  <2>3. w = Starter
    BY <1>1, <2>1, <2>2 DEF TasksOK
  <2> QED
    BY <1>1, <2>1, <2>3 DEF TasksOK
<1>3. \A w \in Workers : ~RecordFailure(w)
  BY <1>1 DEF RecordFailure, At, FinalOK
<1> QED
  BY <1>2, <1>3, WhoRegisters

\* A forget that is registered now is the latest message, and its coroutine has it.
LEMMA ForgetArrives ==
    ASSUME IInv, Next, MaxFailures = 0, NEW f \in Forgets, ~Registered(f), Registered(f)'
    PROVE  Latest(f)' /\ Attended(f)'
<1>1. TypeOK /\ TasksOK /\ FinalOK /\ f \in Messages /\ arrival \in Seq(Messages)
  BY IntentsAssumption DEF IInv, TypeOK
<1>2. RequestChanges
  BY NextKeeps
<1>3. arrival' # arrival /\ request'[f] # request[f]
  <2>1. request'[f] # request[f]
    BY DEF Registered
  <2>2. ASSUME NEW m \in Messages, NEW s, GetsStatus(m, s)
        PROVE  FALSE
    <3>1. request' = [request EXCEPT ![m].status = s] /\ m # f
      BY <2>2 DEF GetsStatus, SetStatus
    <3> QED
      BY <1>1, <2>1, <3>1 DEF TypeOK
  <2>3. GettingRow
    BY <1>2, <2>1, <2>2 DEF RequestChanges, GettingStatus
  <2>4. PICK m \in Messages : arrival' = Append(arrival, m)
    BY <2>3 DEF GettingRow, GetsRow
  <2>5. Len(arrival') # Len(arrival)
    BY <1>1, <2>4
  <2> QED
    BY <2>1, <2>5
<1>4. PICK w \in Workers : Register(w)
  BY <1>1, <1>3, WhoRegisters DEF RecordFailure, At, FinalOK
<1> DEFINE m == task[w].req
<1>5. m \in Messages /\ ConvOf(m) \in Conversations
  BY <1>1, <1>4, ConvOfMessage DEF Register, At, TasksOK, Sound
<1>6. m = f
  BY <1>1, <1>3, <1>4, <1>5 DEF Register, TypeOK
<1>7. arrival' = Append(arrival, f)
  BY <1>4, <1>6 DEF Register
<1>8. Latest(f)'
  BY <1>1, <1>7 DEF Latest
<1>9. Goes(w, "registered")
  BY <1>1, <1>4, <1>5, EnterEffect DEF Register
<1> QED
  BY <1>6, <1>8, <1>9 DEF Goes, Attended

LEMMA ForgetStep ==
    ASSUME IInv, Next
    PROVE  ForgetOK'
<1>1. ASSUME MaxFailures = 0, NEW f \in Forgets, Registered(f)', ~HasFinal(out', f)
      PROVE  Latest(f)' /\ Attended(f)'
  <2>1. CASE Registered(f)
    <3>1. ~HasFinal(out, f)
      BY <1>1, NextExtends
    <3>2. Latest(f) /\ Attended(f)
      BY <1>1, <2>1, <3>1, ForgetIs DEF IInv
    <3>3. arrival' = arrival
      BY <1>1, <3>2, NoneArrives
    <3>4. Attended(f)'
      BY <1>1, <2>1, AttendedStep
    <3> QED
      BY <3>2, <3>3, <3>4 DEF Latest
  <2>2. CASE ~Registered(f)
    BY <1>1, <2>2, ForgetArrives
  <2> QED
    BY <2>1, <2>2
<1> QED
  BY <1>1 DEF ForgetOK, Latest, Attended, Registered

-----------------------------------------------------------------------------
(* The theorems.                                                           *)

LEMMA InitInv == Init => IInv
<1> SUFFICES ASSUME Init PROVE IInv
  OBVIOUS
<1> USE DEF Init
<1>1. /\ NoRequest \in Request /\ NoRequest.status = "absent" /\ NoRequest.intent = "none"
      /\ NoRequest.gen = 0
  BY DEF NoRequest, Request, Statuses, Intents
<1>2. out = <<>> /\ DOMAIN out = {} /\ AllParts(out) = {} /\ out \in Seq(Output)
  BY DEF AllParts
<1>3. arrival \in Seq(Messages) /\ shown = <<>> /\ DOMAIN arrival = {} /\ DOMAIN shown = {}
  OBVIOUS
<1>4. shown \in Seq((DOMAIN out) \X (1..MaxParts)) /\ Len(shown) = 0
  BY <1>3
<1>5. \A m \in Messages : request[m] = NoRequest /\ job[m] = "none" /\ gen[ConvOf(m)] = 0
  BY ConvOfMessage
<1>6. \A w \in Workers : task[w] = Idle
  OBVIOUS
<1>7. /\ Idle \in Worker /\ Idle.pc = "idle" /\ Idle.req = None /\ Idle.context = {}
      /\ Starter \in Workers /\ Tasks \subseteq Workers /\ None \notin Workers
  BY IdleType, IdsAssumption DEF Workers
<1>8. TypeOK
  <2>1. request \in [Messages -> Request] /\ task \in [Workers -> Worker]
    BY <1>1, <1>7
  <2>2. job \in [Messages -> JobStates] /\ gen \in [Conversations -> Nat]
    BY DEF JobStates
  <2>3. flush \in [by: Tasks \cup {None}, part: AllParts(out) \cup {NoPart}, todo: SUBSET AllParts(out)]
    BY DEF Unflushed
  <2> QED
    BY <1>2, <1>3, <1>4, <2>1, <2>2, <2>3 DEF TypeOK
<1>9. TasksOK
  <2>1. \A w \in Workers : Sound(w)
    BY <1>6, <1>7 DEF Sound, Inside, Unflushed
  <2> QED
    BY <1>6, <1>7, <2>1 DEF TasksOK, Synchronous, Ready
<1>10. \A m : ~HasFinal(out, m)
  BY <1>2 DEF HasFinal
<1>11. RequestsOK
  BY <1>1, <1>3, <1>5, <1>10 DEF RequestsOK, Registered
<1>12. OutboxOK /\ ShownOK
  BY <1>2, <1>3 DEF OutboxOK, ShownOK
<1>13. FlushOK
  BY DEF FlushOK, Unflushed
<1>14. MemoryOK
  BY <1>2, <1>6, <1>7 DEF MemoryOK
<1>15. CountOK
  <2>1. Confirmed = {}
    BY <1>2 DEF Confirmed
  <2>2. Lost = 0
    BY DEF Lost
  <2> QED
    BY <1>4, <2>1, <2>2, FS_EmptySet DEF CountOK
<1>16. FinalOK
  BY <1>2, <1>6, <1>7, BoundsAssumption DEF FinalOK, OneFinalOutput, Working
<1>17. ForgetOK
  BY <1>1, <1>5, IntentsAssumption DEF ForgetOK, Registered
<1> QED
  BY <1>8, <1>9, <1>11, <1>12, <1>13, <1>14, <1>15, <1>16, <1>17 DEF IInv

LEMMA RestInv ==
    ASSUME IInv, UNCHANGED vars
    PROVE  IInv'
BY DEF vars, IInv, TypeOK, TasksOK, Sound, Registered, RequestsOK, OutboxOK, RowOK, Current, ShownOK,
   IsShown, OneConversation, FlushOK, MemoryOK, CountOK, Confirmed, Lost, FinalOK, OneFinalOutput,
   ForgetOK, Ready

LEMMA NextInv == IInv /\ [Next]_vars => IInv'
BY RestInv, TypeStep, TasksStep, RequestsStep, OutboxStep, ShownStep, FlushStep, MemoryStep,
   CountStep, FinalStep, ForgetStep DEF IInv

\* The invariant.
THEOREM DeliveryInvariant == Spec => []IInv
BY InitInv, NextInv, PTL DEF Spec

\* Every variable has its type: TypeOK.
THEOREM DeliveryTypeCorrect == Spec => []TypeOK
<1>1. IInv => TypeOK
  BY DEF IInv
<1> QED
  BY <1>1, DeliveryInvariant, PTL

-----------------------------------------------------------------------------
(* Memory.                                                                 *)

LEMMA DeliveredIsShown ==
    ASSUME IInv, NEW i \in DOMAIN out, out[i].remember, out[i].done
    PROVE  \A p \in 1..out[i].size : IsShown(i, p)
BY DEF IInv, OutboxOK, RowOK, WhollyAcked, ShownOK

\* Memory is what was delivered and not forgotten (the transaction of the last ACK and
\* forget_conversation), and the user has seen it: MemoryIsWhatWasDelivered.
THEOREM MemoryIsDelivered == Spec => []MemoryIsWhatWasDelivered
<1>1. IInv => MemoryIsWhatWasDelivered
  <2> SUFFICES ASSUME IInv PROVE MemoryIsWhatWasDelivered
    OBVIOUS
  <2>1. \A m \in Messages :
          m \in exchanges <=> /\ \E i \in DOMAIN out : out[i].req = m /\ out[i].remember /\ out[i].done
                              /\ request[m].gen = gen[ConvOf(m)]
    BY DEF IInv, MemoryOK
  <2> QED
    BY <2>1, DeliveredIsShown DEF MemoryIsWhatWasDelivered
<1> QED
  BY <1>1, DeliveryInvariant, PTL

\* Nothing of a prompt is forgotten while the model works on it, because the memory lock
\* keeps the forgets of the conversation out: ChatUsesLiveMemory.
THEOREM PromptsAreLive == Spec => []ChatUsesLiveMemory
<1>1. IInv => ChatUsesLiveMemory
  BY DEF IInv, MemoryOK, ChatUsesLiveMemory
<1> QED
  BY <1>1, DeliveryInvariant, PTL

-----------------------------------------------------------------------------
(* What is shown again.                                                    *)

LEMMA ShownSet ==
    ASSUME TypeOK
    PROVE  IsFiniteSet({shown[n] : n \in DOMAIN shown})
<1> DEFINE S == 1..Len(shown)
           T == {shown[n] : n \in DOMAIN shown}
           f == [n \in S |-> shown[n]]
<1>1. Len(shown) \in Nat /\ DOMAIN shown = S
  BY DEF TypeOK
<1>2. IsFiniteSet(S)
  BY <1>1, FS_Interval
<1>3. f \in Surjection(S, T)
  BY <1>1 DEF Surjection
<1> QED
  BY <1>2, <1>3, FS_Surjection

\* The user reads a part again only after a send that broke off without an
\* acknowledgement: RepeatsAreLostAcks.
THEOREM RepeatsAreLost == Spec => []RepeatsAreLostAcks
<1>1. IInv => RepeatsAreLostAcks
  <2> SUFFICES ASSUME IInv PROVE RepeatsAreLostAcks
    OBVIOUS
  <2> DEFINE T == {shown[n] : n \in DOMAIN shown}
  <2>1. TypeOK /\ CountOK
    BY DEF IInv
  <2>2. IsFiniteSet(T)
    BY <2>1, ShownSet
  <2>3. Confirmed \subseteq T
    <3>1. ASSUME NEW x \in Confirmed
          PROVE  x \in T
      <4>1. x \in AllParts(out) /\ x[2] \in out[x[1]].acked
        BY DEF Confirmed
      <4>2. x[1] \in DOMAIN out /\ x = <<x[1], x[2]>>
        BY <2>1, <4>1, PartOf DEF TypeOK
      <4>3. IsShown(x[1], x[2])
        BY <4>1, <4>2 DEF IInv, ShownOK
      <4> QED
        BY <4>2, <4>3 DEF IsShown
    <3> QED
      BY <3>1
  <2>4. Cardinality(Confirmed) <= Cardinality(T)
    BY <2>2, <2>3, FS_Subset
  <2>5. Cardinality(Confirmed) \in Nat /\ Cardinality(T) \in Nat
    BY <2>1, <2>2, FS_CardinalityType DEF CountOK
  <2>6. Len(shown) \in Nat /\ used.losses \in Nat /\ used.crashes \in Nat
    BY <2>1 DEF TypeOK
  <2>7. Len(shown) <= Cardinality(Confirmed) + (used.losses + used.crashes)
    BY <2>1 DEF CountOK, Lost
  <2> HIDE DEF T
  <2>8. Len(shown) <= Cardinality(T) + used.losses + used.crashes
    BY <2>4, <2>5, <2>6, <2>7
  <2> QED
    BY <2>8 DEF RepeatsAreLostAcks, T
<1> QED
  BY <1>1, DeliveryInvariant, PTL

-----------------------------------------------------------------------------
(* One final output.                                                       *)

\* A request gets one final output, if Discord delivers a message once or no coroutine
\* fails: OneFinalOutput.  (A second delivery may answer while the first one is between
\* its failure and the report of it.)
THEOREM OneAnswer ==
    ASSUME Careful
    PROVE  Spec => []OneFinalOutput
<1>1. IInv => OneFinalOutput
  BY DEF IInv, FinalOK
<1> QED
  BY <1>1, DeliveryInvariant, PTL

-----------------------------------------------------------------------------
(* What is never sent.                                                     *)

LEMMA PendingIsCurrent ==
    ASSUME OutboxOK', NEW x \in AllParts(out'), IsPending(out', x), x[1] \in DOMAIN out',
           out'[x[1]].kind = "progress"
    PROVE  /\ ~HasFinal(out', out'[x[1]].req)
           /\ ~\E k \in DOMAIN out' : /\ k > x[1] /\ out'[k].req = out'[x[1]].req
                                      /\ out'[k].kind = "progress"
BY DEF OutboxOK, Current, IsPending, HasFinal

LEMMA BegunIsPending ==
    ASSUME NEW w, NEW parts, Proceed(w, parts), flush'.part # NoPart
    PROVE  flush'.part \in parts
BY DEF Proceed, Unflushed

\* What is sent next is pending when its send begins.
LEMMA NextIsPending ==
    ASSUME IInv, Next, flush'.part \notin {NoPart, flush.part}
    PROVE  flush'.part \in AllParts(out') /\ IsPending(out', flush'.part)
<1>1. CASE Beginning
  <2>1. out' = out
    BY <1>1, BeginningFrame
  <2>2. \E ms : flush'.part \in PendingParts(out, ms)
    BY <1>1, BegunIsPending DEF Beginning, FlushAll, FlushOwn
  <2> QED
    BY <2>1, <2>2 DEF PendingParts
<1>2. CASE Sent
  <2>1. flush'.part \in StillPending(out', flush.todo)
    BY <1>2, BegunIsPending DEF Sent
  <2>2. Closed(out', StillPending(out', flush.todo))
    BY <1>2, StillClosed
  <2> QED
    BY <2>1, <2>2 DEF Closed
<1>3. CASE Breaking
  BY <1>3 DEF Breaking, SendFails, Crash, Proceed, Unflushed
<1> QED
  BY <1>1, <1>2, <1>3, OutKinds DEF IInv, Storing

\* No send begins for a waiting message that is answered or replaced
\* (is_outbox_part_pending asks again before every part): NothingObsoleteIsSent.
THEOREM ObsoleteIsSkipped == Spec => NothingObsoleteIsSent
<1>1. IInv /\ [Next]_vars =>
        [flush'.part \notin {NoPart, flush.part} =>
           LET i == flush'.part[1]
           IN  out'[i].kind = "progress" =>
                 /\ ~HasFinal(out', out'[i].req)
                 /\ ~\E k \in DOMAIN out' :
                       /\ k > i /\ out'[k].req = out'[i].req
                       /\ out'[k].kind = "progress"]_vars
  <2> SUFFICES ASSUME IInv, Next, flush'.part \notin {NoPart, flush.part},
                      out'[flush'.part[1]].kind = "progress"
               PROVE  /\ ~HasFinal(out', out'[flush'.part[1]].req)
                      /\ ~\E k \in DOMAIN out' :
                            /\ k > flush'.part[1] /\ out'[k].req = out'[flush'.part[1]].req
                            /\ out'[k].kind = "progress"
    OBVIOUS
  <2>1. flush'.part \in AllParts(out') /\ IsPending(out', flush'.part)
    BY NextIsPending
  <2>2. flush'.part[1] \in DOMAIN out'
    BY <2>1 DEF AllParts
  <2> QED
    BY <2>1, <2>2, OutboxStep, PendingIsCurrent
<1> QED
  BY <1>1, DeliveryInvariant, PTL DEF Spec, NothingObsoleteIsSent

-----------------------------------------------------------------------------
(* What a forget erases.                                                   *)

LEMMA PositionIs ==
    ASSUME IInv, NEW n \in DOMAIN arrival
    PROVE  Position(arrival[n]) = n
BY DEF IInv, RequestsOK, Position

LEMMA ErasesOlder ==
    ASSUME IInv, Next, MaxFailures = 0, NEW m \in exchanges \ exchanges'
    PROVE  \E w \in Workers : Executes(w, {"forget"}) /\ Position(m) < Position(task[w].req)
<1>1. TypeOK /\ TasksOK /\ FinalOK /\ m \in Messages
  BY DEF IInv, TypeOK
<1>2. PICK w \in Workers : Forget(w)
  <2>1. ~Sent
    BY <1>1, SentMemory DEF IInv
  <2> QED
    BY <2>1, MemoryKinds
<1> DEFINE f == task[w].req
<1>3. Executes(w, {"forget"}) /\ task[w].pc = "registered" /\ request[f].intent = "forget"
  BY <1>2 DEF Forget, Executes, At
<1>4. f \in Messages /\ Registered(f)
  BY <1>1, <1>3 DEF TasksOK, Sound, Inside
<1>5. f \in Forgets
  <2>1. IntentOf(f) = "forget"
    BY <1>3, <1>4 DEF IInv, RequestsOK
  <2> QED
    BY <2>1 DEF IntentOf
<1>6. ~HasFinal(out, f)
  BY <1>1, <1>3 DEF FinalOK, Careful, Working
<1>7. Latest(f)
  BY <1>4, <1>5, <1>6, ForgetIs DEF IInv
<1>8. Delivered(out, m)
  BY <1>1, MemoryIs DEF IInv
<1>9. HasFinal(out, m) /\ Registered(m)
  BY <1>8 DEF Delivered, HasFinal, FinalKinds, IInv, OutboxOK, RowOK
<1>10. PICK n \in DOMAIN arrival : arrival[n] = m
  BY <1>1, <1>9 DEF IInv, RequestsOK
<1>11. arrival \in Seq(Messages) /\ DOMAIN arrival = 1..Len(arrival) /\ Len(arrival) \in Nat
  BY <1>1 DEF TypeOK
<1>12. Len(arrival) \in DOMAIN arrival /\ arrival[Len(arrival)] = f
  BY <1>7, <1>10, <1>11 DEF Latest
<1>13. n # Len(arrival)
  BY <1>6, <1>9, <1>10, <1>12
<1>14. Position(m) = n /\ Position(f) = Len(arrival)
  BY <1>10, <1>12, PositionIs
<1>15. Position(m) < Position(f)
  BY <1>10, <1>11, <1>13, <1>14
<1> QED
  BY <1>3, <1>15

\* If no coroutine fails, a forget erases only what was registered before it, also when
\* recovery executes it again: ForgetErasesOnlyOlder.
THEOREM ForgetsOnlyOlder ==
    ASSUME MaxFailures = 0
    PROVE  Spec => ForgetErasesOnlyOlder
<1>1. IInv /\ [Next]_vars =>
        [\A m \in exchanges \ exchanges' :
           \E w \in Workers :
              /\ Executes(w, {"forget"})
              /\ Position(m) < Position(task[w].req)]_vars
  BY ErasesOlder
<1> QED
  BY <1>1, DeliveryInvariant, PTL DEF Spec, ForgetErasesOnlyOlder

-----------------------------------------------------------------------------
(* Delivery implements ReliableDelivery.                                   *)

PostOf(o) == [conv |-> ConvOf(o.req), size |-> o.size, waiting |-> o.kind = "progress",
              open |-> ~o.done]

SameButDone(o, r) == r.req = o.req /\ r.kind = o.kind /\ r.size = o.size

LEMMA PostType ==
    ASSUME NEW o \in Output
    PROVE  PostOf(o) \in Reading!Post
<1>1. o.req \in Messages /\ o.size \in 1..MaxParts /\ o.done \in BOOLEAN
  BY DEF Output
<1>2. ConvOf(o.req) \in Conversations
  BY <1>1, ConvOfMessage
<1> QED
  BY <1>1, <1>2 DEF PostOf, Reading!Post

LEMMA PostSame ==
    ASSUME NEW o \in Output, NEW r \in Output, SameButDone(o, r), r.done <=> o.done
    PROVE  PostOf(r) = PostOf(o)
<1>1. r.done = o.done
  BY DEF Output
<1> QED
  BY <1>1 DEF PostOf, SameButDone

LEMMA PostClosed ==
    ASSUME NEW o \in Output, NEW r \in Output, SameButDone(o, r), r.done
    PROVE  PostOf(r) = [PostOf(o) EXCEPT !.open = FALSE]
<1> DEFINE x == PostOf(o)
           y == PostOf(r)
           z == [x EXCEPT !.open = FALSE]
<1>1. x \in Reading!Post /\ y \in Reading!Post
  BY PostType
<1>2. y.conv = x.conv /\ y.size = x.size /\ y.waiting = x.waiting /\ y.open = FALSE
  BY DEF PostOf, SameButDone, Output
<1> HIDE DEF x, y
<1>3. /\ z \in Reading!Post /\ z.open = FALSE
      /\ z.conv = x.conv /\ z.size = x.size /\ z.waiting = x.waiting
  BY <1>1 DEF Reading!Post
<1> HIDE DEF z
<1>4. y = z
  BY <1>1, <1>2, <1>3 DEF Reading!Post
<1> QED
  BY <1>4 DEF x, y, z

\* The posts of the outbox q.
PostsOf(q) == [i \in DOMAIN q |-> PostOf(q[i])]

LEMMA PostsType ==
    ASSUME NEW q \in Seq(Output)
    PROVE  /\ PostsOf(q) \in Seq(Reading!Post) /\ Len(PostsOf(q)) = Len(q)
           /\ DOMAIN PostsOf(q) = DOMAIN q
           /\ \A i \in DOMAIN q : PostsOf(q)[i] = PostOf(q[i])
<1>1. DOMAIN q = 1..Len(q) /\ Len(q) \in Nat /\ \A i \in DOMAIN q : q[i] \in Output
  OBVIOUS
<1>2. PostsOf(q) \in [1..Len(q) -> Reading!Post]
  BY <1>1, PostType DEF PostsOf
<1>3. PostsOf(q) \in Seq(Reading!Post) /\ Len(PostsOf(q)) = Len(q)
  BY <1>1, <1>2, FunctionIsSeq
<1> QED
  BY <1>3 DEF PostsOf

LEMMA PostsAre == Posts = PostsOf(out) /\ Posts' = PostsOf(out')
BY DEF Posts, PostsOf, PostOf

LEMMA PostFields ==
    ASSUME NEW o \in Output
    PROVE  /\ PostOf(o).conv = ConvOf(o.req) /\ PostOf(o).size = o.size
           /\ PostOf(o).waiting <=> o.kind = "progress"
           /\ PostOf(o).open <=> ~o.done
BY DEF PostOf

\* Storing an output stores it for the reader, and withdraws what it replaces.
LEMMA StoreMaps ==
    ASSUME IInv, Storing
    PROVE  Reading!Store
<1>1. out \in Seq(Output) /\ UNCHANGED shown
  BY DEF IInv, TypeOK, Storing
<1>2. PICK o \in Output : Added(o)
  BY DEF Storing
<1>3. /\ out' \in Seq(Output) /\ Len(out') = Len(out) + 1 /\ Len(out) \in Nat
      /\ DOMAIN out = 1..Len(out) /\ DOMAIN out' = 1..(Len(out) + 1)
  BY <1>1, <1>2 DEF Added, Grows
<1> DEFINE W == {i \in DOMAIN out : /\ out[i].kind = "progress" /\ out[i].req = o.req
                                    /\ o.kind \in FinalKinds \cup {"progress"}}
           new == PostOf(out'[Len(out')])
           R == Reading!Withdrawn(W)
<1>4. /\ Posts \in Seq(Reading!Post) /\ DOMAIN Posts = DOMAIN out /\ Len(Posts) = Len(out)
      /\ \A i \in DOMAIN out : Posts[i] = PostOf(out[i])
  BY <1>1, PostsType, PostsAre
<1>5. /\ Posts' \in Seq(Reading!Post) /\ DOMAIN Posts' = DOMAIN out' /\ Len(Posts') = Len(out')
      /\ \A i \in DOMAIN out' : Posts'[i] = PostOf(out'[i])
  BY <1>3, PostsType, PostsAre
<1>6. new \in Reading!Post
  <2>1. out'[Len(out')] \in Output
    BY <1>3
  <2> QED
    BY <2>1, PostType
<1>7. \A i \in DOMAIN out : /\ SameButDone(out[i], out'[i])
                            /\ out'[i].done <=> out[i].done \/ i \in W
  BY <1>2 DEF Added, Grows, MayClose, SameButDone
<1>8. W \in SUBSET {i \in DOMAIN Posts : Posts[i].waiting}
  <2>1. ASSUME NEW i \in W
        PROVE  i \in DOMAIN Posts /\ Posts[i].waiting
    <3>1. out[i] \in Output /\ out[i].kind = "progress" /\ i \in DOMAIN out
      BY <1>1
    <3>2. PostOf(out[i]).waiting
      BY <3>1, PostFields
    <3> QED
      BY <1>4, <3>1, <3>2
  <2> HIDE DEF W
  <2> QED
    BY <2>1
<1> HIDE DEF W
<1>9. \A i \in DOMAIN out :
        PostOf(out'[i]) = IF i \in W THEN [PostOf(out[i]) EXCEPT !.open = FALSE] ELSE PostOf(out[i])
  <2> TAKE i \in DOMAIN out
  <2>1. out[i] \in Output /\ out'[i] \in Output
    BY <1>1, <1>3
  <2>2. CASE i \in W
    BY <1>7, <2>1, <2>2, PostClosed
  <2>3. CASE i \notin W
    BY <1>7, <2>1, <2>3, PostSame
  <2> QED
    BY <2>2, <2>3
<1>10. R = [i \in DOMAIN out |-> PostOf(out'[i])]
  BY <1>4, <1>9 DEF Reading!Withdrawn
<1> HIDE DEF R, new
<1>11. R \in Seq(Reading!Post) /\ Len(R) = Len(out)
  <2>1. \A i \in DOMAIN out : PostOf(out'[i]) \in Reading!Post
    BY <1>3, PostType
  <2>2. R \in [1..Len(out) -> Reading!Post]
    BY <1>3, <1>10, <2>1
  <2> QED
    BY <1>3, <2>2, FunctionIsSeq
<1>12. Append(R, new) \in Seq(Reading!Post) /\ Len(Append(R, new)) = Len(out) + 1
  BY <1>6, <1>11
<1>13. ASSUME NEW i \in 1..Len(Posts')
       PROVE  Posts'[i] = Append(R, new)[i]
  <2>1. i \in DOMAIN out' /\ (i \in DOMAIN out \/ i = Len(out) + 1)
    BY <1>3, <1>5
  <2>2. CASE i \in DOMAIN out
    <3>1. Append(R, new)[i] = R[i]
      BY <1>3, <1>6, <1>11, <2>2
    <3> QED
      BY <1>5, <1>10, <2>1, <2>2, <3>1
  <2>3. CASE i = Len(out) + 1
    <3>1. Append(R, new)[i] = new
      BY <1>3, <1>6, <1>11, <2>3
    <3> QED
      BY <1>3, <1>5, <2>1, <2>3, <3>1 DEF new
  <2> QED
    BY <2>1, <2>2, <2>3
<1>14. Posts' = Append(R, new)
  BY <1>3, <1>5, <1>12, <1>13, SeqEqual
<1> QED
  BY <1>1, <1>6, <1>8, <1>14 DEF Reading!Store, R

\* The part that is being sent is one that the reader may read.
LEMMA ReadsNext ==
    ASSUME IInv, flush # Unflushed
    PROVE  /\ flush.part[1] \in DOMAIN Posts
           /\ flush.part[2] \in 1..Posts[flush.part[1]].size
           /\ Reading!MayRead(flush.part[1], flush.part[2])
<1> DEFINE i == flush.part[1]
           p == flush.part[2]
<1>1. /\ out \in Seq(Output) /\ ShownOK /\ i \in DOMAIN out /\ p \in 1..out[i].size
      /\ out[i].acked = 1..(p - 1) /\ out[i].size \in Nat
  <2>1. out \in Seq(Output) /\ ShownOK /\ TypeOK /\ FlushOK
    BY DEF IInv, TypeOK
  <2> QED
    BY <2>1, PartBeingSent, BoundsAssumption DEF Output
<1>2. /\ DOMAIN Posts = DOMAIN out
      /\ \A k \in DOMAIN out : Posts[k] = PostOf(out[k])
  BY <1>1, PostsType, PostsAre
<1>3. \A k \in DOMAIN out : /\ Posts[k].conv = ConvOf(out[k].req) /\ Posts[k].size = out[k].size
                            /\ out[k].done => ~Posts[k].open
  BY <1>1, <1>2, PostFields
<1>4. \A k \in DOMAIN out : OneConversation(i, k) =>
        /\ k < i => out[k].done
        /\ k > i => \A n \in DOMAIN shown : shown[n][1] # k
  <2>1. flush.part # NoPart
    BY DEF IInv, FlushOK
  <2> QED
    BY <2>1 DEF IInv, FlushOK, OneConversation
<1>5. ASSUME NEW q \in 1..(p - 1)
      PROVE  Reading!HasRead(i, q)
  BY <1>1, <1>5 DEF ShownOK, IsShown, Reading!HasRead
<1>6. ASSUME NEW q \in (p + 1)..out[i].size
      PROVE  ~Reading!HasRead(i, q)
  <2>1. SUFFICES ASSUME NEW n \in DOMAIN shown, shown[n] = <<i, q>>
                 PROVE  FALSE
    BY DEF Reading!HasRead
  <2>2. q = 1 \/ q - 1 \in out[i].acked
    BY <1>1, <2>1 DEF ShownOK
  <2> QED
    BY <1>1, <2>2
<1>7. ASSUME NEW k \in DOMAIN out, ConvOf(out[i].req) = ConvOf(out[k].req), k > i
      PROVE  Reading!Unread(k)
  BY <1>4, <1>7 DEF OneConversation, Reading!Unread, Reading!HasRead
<1>8. Reading!MayRead(i, p)
  BY <1>1, <1>2, <1>3, <1>4, <1>5, <1>6, <1>7
     DEF Reading!MayRead, Reading!SameConversation, OneConversation
<1> QED
  BY <1>1, <1>2, <1>3, <1>8

\* Breaking off may show the part that was being sent.
LEMMA BreakingMaps ==
    ASSUME IInv, Breaking
    PROVE  Reading!Read \/ UNCHANGED <<Posts, shown>>
<1>1. out' = out /\ BreakOff
  BY SendFailsFrame, CrashFrame DEF Breaking, SendFails, Crash
<1>2. Posts' = Posts
  BY <1>1, PostsAre
<1>3. CASE flush # Unflushed /\ shown' = Append(shown, flush.part)
  <2>1. flush.part = <<flush.part[1], flush.part[2]>>
    BY <1>3, PartBeingSent DEF IInv
  <2> QED
    BY <1>2, <1>3, <2>1, ReadsNext DEF Reading!Read
<1> QED
  BY <1>1, <1>2, <1>3 DEF BreakOff

\* Sending shows a part, and its acknowledgement may close the output.
LEMMA SentMaps ==
    ASSUME IInv, Sent
    PROVE  Reading!Read
<1> DEFINE x == flush.part
           i == x[1]
           p == x[2]
<1>1. /\ flush # Unflushed /\ shown' = Append(shown, x) /\ Acknowledged(x)
      /\ x = <<i, p>> /\ i \in DOMAIN out /\ p \in 1..out[i].size /\ out[i].acked = 1..(p - 1)
      /\ out[i] \in Output /\ out \in Seq(Output)
  BY SentEffect, PartBeingSent DEF IInv, TypeOK, Sent
<1>2. /\ i \in DOMAIN Posts /\ p \in 1..Posts[i].size /\ Reading!MayRead(i, p)
  BY <1>1, ReadsNext
<1>3. /\ out' \in Seq(Output) /\ DOMAIN out' = DOMAIN out
      /\ \A k \in DOMAIN out : k # i => out'[k] = out[k]
      /\ out'[i].req = out[i].req /\ out'[i].kind = out[i].kind /\ out'[i].size = out[i].size
      /\ out'[i].acked = out[i].acked \cup {p}
      /\ out'[i].done <=> out[i].done \/ WhollyAcked(out'[i])
  BY <1>1 DEF Acknowledged
<1>4. /\ DOMAIN Posts = DOMAIN out /\ \A k \in DOMAIN out : Posts[k] = PostOf(out[k])
      /\ Posts' = [k \in DOMAIN out |-> PostOf(out'[k])]
      /\ Posts = [k \in DOMAIN out |-> PostOf(out[k])]
  BY <1>1, <1>3, PostsType, PostsAre DEF PostsOf
<1> DEFINE W == {k \in DOMAIN out : k = i /\ WhollyAcked(out'[i])}
<1>5. \A k \in DOMAIN out : /\ SameButDone(out[k], out'[k])
                            /\ out'[k].done <=> out[k].done \/ k \in W
  <2>1. ASSUME NEW k \in DOMAIN out, k # i
        PROVE  SameButDone(out[k], out'[k]) /\ (out'[k].done <=> out[k].done \/ k \in W)
    BY <1>3, <2>1 DEF SameButDone
  <2>2. SameButDone(out[i], out'[i]) /\ (out'[i].done <=> out[i].done \/ i \in W)
    BY <1>1, <1>3 DEF SameButDone
  <2> QED
    BY <2>1, <2>2
<1>6. \A k \in DOMAIN out :
        PostOf(out'[k]) = IF k \in W THEN [PostOf(out[k]) EXCEPT !.open = FALSE] ELSE PostOf(out[k])
  <2> HIDE DEF W
  <2> TAKE k \in DOMAIN out
  <2>1. out[k] \in Output /\ out'[k] \in Output
    BY <1>1, <1>3
  <2>2. CASE k \in W
    BY <1>5, <2>1, <2>2, PostClosed
  <2>3. CASE k \notin W
    BY <1>5, <2>1, <2>3, PostSame
  <2> QED
    BY <2>2, <2>3
<1>7. CASE WhollyAcked(out'[i])
  <2>1. W = {i}
    BY <1>1, <1>7
  <2>2. Posts' = Reading!Withdrawn({i})
    BY <1>4, <1>6, <2>1 DEF Reading!Withdrawn
  <2>3. p = out[i].size
    <3>1. out[i].size \in Nat
      BY <1>1, BoundsAssumption DEF Output
    <3>2. 1..(p - 1) \cup {p} = 1..out[i].size
      BY <1>1, <1>3, <1>7 DEF WhollyAcked
    <3>3. out[i].size \in 1..(p - 1) \cup {p}
      BY <1>1, <3>1, <3>2
    <3> QED
      BY <1>1, <3>1, <3>3
  <2>4. p = Posts[i].size
    BY <1>1, <1>4, <2>3 DEF PostOf
  <2> QED
    BY <1>1, <1>2, <2>2, <2>4 DEF Reading!Read
<1>8. CASE ~WhollyAcked(out'[i])
  <2>1. W = {}
    BY <1>8
  <2>2. Posts' = Posts
    BY <1>4, <1>6, <2>1
  <2> QED
    BY <1>1, <1>2, <2>2 DEF Reading!Read
<1> QED
  BY <1>7, <1>8

\* What the user reads is what ReliableDelivery allows, whatever crashes, losses and
\* repetitions there are: ImplementsReliableDelivery.
THEOREM DeliveryIsReliable == Spec => ImplementsReliableDelivery
<1>1. Init => Reading!Init
  <2> SUFFICES ASSUME Init PROVE Reading!Init
    OBVIOUS
  <2>1. out = <<>> /\ shown = <<>>
    BY DEF Init
  <2>2. Posts = <<>>
    <3>1. Posts = [i \in 1..0 |-> PostOf(out[i])]
      BY <2>1, PostsAre DEF PostsOf
    <3> QED
      BY <3>1
  <2> QED
    BY <2>1, <2>2 DEF Reading!Init
<1>2. IInv /\ [Next]_vars => [Reading!Next]_Reading!reading
  <2> SUFFICES ASSUME IInv, [Next]_vars PROVE Reading!Next \/ UNCHANGED <<Posts, shown>>
    BY DEF Reading!reading
  <2>1. CASE Next
    <3>1. CASE Storing
      BY <3>1, StoreMaps DEF Reading!Next
    <3>2. CASE Sent
      BY <3>2, SentMaps DEF Reading!Next
    <3>3. CASE Breaking
      BY <3>3, BreakingMaps DEF Reading!Next
    <3>4. CASE Beginning \/ UNCHANGED <<out, shown, flush>>
      BY <3>4, BeginningFrame, PostsAre
    <3> QED
      BY <2>1, <3>1, <3>2, <3>3, <3>4, OutKinds DEF IInv
  <2>2. CASE UNCHANGED vars
    BY <2>2, PostsAre DEF vars
  <2> QED
    BY <2>1, <2>2
<1> QED
  BY <1>1, <1>2, DeliveryInvariant, PTL DEF Spec, ImplementsReliableDelivery, Reading!Spec
=============================================================================
