---------------------------- MODULE EngineProofs ----------------------------
(***************************************************************************)
(* Theorems about Engine, for any number of callers and threads and any    *)
(* credentials: it implements EnginePort, and its workers are not shared.  *)
(***************************************************************************)
EXTENDS Engine, TLAPS

Channel ==
  [pc : {"free", "start", "prepare", "work", "ended"}, ask : Option(Question),
   mail : Option(EngineAnswers \cup DeriveAnswers \cup {"Signed"}),
   tx : BOOLEAN, rx : BOOLEAN]

Task ==
  [pc : {"idle", "spawn", "wait"}, ask : Option(Question), worker : Option(Worker),
   answer : Option(EngineAnswers \cup DeriveAnswers \cup {"Signed"})]

TypeOK == caller \in [Caller -> Task] /\ worker \in [Worker -> Channel]

\* A task has a question exactly while it waits for an answer.
TaskShape ==
  \A j \in Caller :
    /\ caller[j].pc = "idle" => caller[j].ask = None
    /\ caller[j].pc # "idle" => caller[j].ask \in Question /\ caller[j].answer = None
    /\ caller[j].pc = "wait" => caller[j].worker \in Worker
    /\ caller[j].pc # "wait" => caller[j].worker = None

\* What lies in a channel answers the question its thread was started with.
MailAnswers ==
  \A t \in Worker :
    /\ worker[t].pc # "free" => worker[t].ask \in Question
    /\ worker[t].mail # None =>
         worker[t].pc = "ended" /\ worker[t].mail \in Port!AnswersTo(worker[t].ask)

\* A waiting caller has a worker to itself, which is on its question: a late
\* worker of a dropped caller can not be heard by the next.
WorkersAreOwn ==
  \A j \in Caller : caller[j].pc = "wait" =>
    LET t == caller[j].worker IN
    /\ worker[t].ask = caller[j].ask
    /\ worker[t].pc # "free" /\ worker[t].rx
    /\ \A i \in Caller \ {j} : caller[i].worker # t

IInv == TypeOK /\ TaskShape /\ MailAnswers /\ WorkersAreOwn

-----------------------------------------------------------------------------
\* The first state satisfies the invariant.
LEMMA InitIInv == Init => IInv
  <1> SUFFICES ASSUME Init PROVE IInv
    OBVIOUS
  <1>1. TypeOK
    BY DEF Init, TypeOK, Task, Channel, IdleCaller, FreeWorker, Option
  <1>2. TaskShape
    BY DEF Init, TaskShape, IdleCaller
  <1>3. MailAnswers
    BY DEF Init, MailAnswers, FreeWorker
  <1>4. WorkersAreOwn
    BY DEF Init, WorkersAreOwn, IdleCaller
  <1> QED BY <1>1, <1>2, <1>3, <1>4 DEF IInv

\* Whatever ssi finds, the verdict is one the port allows for the question.
LEMMA VerdictIsAnswer ==
  ASSUME NEW q \in Question, NEW found \in SsiResults(q)
  PROVE  Verdict(q, found) \in Port!AnswersTo(q)
  BY DEF Question, Op, SsiResults, Verdict, Port!AnswersTo, Port!VerifyAnswers,
     Port!DeriveAnswers

\* A failure to run is an answer to every question.
LEMMA ErrIsAnswer ==
  ASSUME NEW q \in Question
  PROVE  "Err" \in Port!AnswersTo(q)
  BY DEF Question, Op, Port!AnswersTo, Port!VerifyAnswers,
     Port!DeriveAnswers

\* The answers of the port have the type of mail.
LEMMA AnswersAreTyped ==
  ASSUME NEW q \in Question
  PROVE  Port!AnswersTo(q) \subseteq EngineAnswers \cup DeriveAnswers \cup {"Signed"}
  BY DEF Question, Op, Port!AnswersTo, Port!VerifyAnswers,
     Port!DeriveAnswers, EngineAnswers, DeriveAnswers

-----------------------------------------------------------------------------
\* A task that has no worker changes: the threads are as they were.
LEMMA CallerAloneKeeps ==
  ASSUME IInv, NEW j \in Caller, NEW k \in Task,
         caller' = [caller EXCEPT ![j] = k], UNCHANGED worker,
         k.pc \in {"idle", "spawn"}, k.worker = None,
         k.pc = "idle" => k.ask = None,
         k.pc = "spawn" => k.ask \in Question /\ k.answer = None
  PROVE  IInv'
  <1>1. caller \in [Caller -> Task]
    BY DEF IInv, TypeOK
  <1>2. caller'[j] = k /\ \A i \in Caller \ {j} : caller'[i] = caller[i]
    BY <1>1
  <1>3. TypeOK'
    BY <1>1 DEF IInv, TypeOK
  <1>4. TaskShape'
    BY <1>2 DEF IInv, TaskShape
  <1>5. MailAnswers'
    BY DEF IInv, MailAnswers
  <1>6. WorkersAreOwn'
    <2> SUFFICES ASSUME NEW i \in Caller, caller'[i].pc = "wait"
                 PROVE  LET t == caller'[i].worker IN
                        /\ worker'[t].ask = caller'[i].ask
                        /\ worker'[t].pc # "free" /\ worker'[t].rx
                        /\ \A h \in Caller \ {i} : caller'[h].worker # t
      BY DEF WorkersAreOwn
    <2>1. i # j /\ caller'[i] = caller[i]
      BY <1>2
    <2>2. caller[i].worker \in Worker
      BY <2>1 DEF IInv, TaskShape
    <2>3. caller'[i].worker # None
      BY <2>1, <2>2, EngineAssumption
    <2> QED BY <1>2, <2>1, <2>3 DEF IInv, WorkersAreOwn
  <1> QED BY <1>3, <1>4, <1>5, <1>6 DEF IInv

\* A thread changes, and keeps what a caller that listens to it needs.
LEMMA WorkerAloneKeeps ==
  ASSUME IInv, NEW t \in Worker, NEW w \in Channel,
         worker' = [worker EXCEPT ![t] = w], UNCHANGED caller,
         worker[t].rx => w.rx /\ w.pc # "free" /\ w.ask = worker[t].ask,
         w.pc # "free" => w.ask \in Question,
         w.mail # None => w.pc = "ended" /\ w.mail \in Port!AnswersTo(w.ask)
  PROVE  IInv'
  <1>1. worker \in [Worker -> Channel]
    BY DEF IInv, TypeOK
  <1>2. worker'[t] = w /\ \A u \in Worker \ {t} : worker'[u] = worker[u]
    BY <1>1
  <1>3. TypeOK'
    BY <1>1 DEF IInv, TypeOK
  <1>4. TaskShape'
    BY DEF IInv, TaskShape
  <1>5. MailAnswers'
    BY <1>2 DEF IInv, MailAnswers
  <1>6. WorkersAreOwn'
    BY <1>2 DEF IInv, TaskShape, WorkersAreOwn
  <1> QED BY <1>3, <1>4, <1>5, <1>6 DEF IInv

\* A waiting task leaves its thread, which nobody listens to from then on.
LEMMA LeaveKeeps ==
  ASSUME IInv, NEW j \in Caller, NEW k \in Task,
         caller[j].pc = "wait",
         caller' = [caller EXCEPT ![j] = k],
         HangUp(caller[j].worker),
         k.pc = "idle", k.ask = None, k.worker = None
  PROVE  IInv'
  <1> DEFINE t == caller[j].worker
  <1> DEFINE w == IF worker[t].pc = "ended" THEN FreeWorker
                  ELSE [worker[t] EXCEPT !.rx = FALSE]
  <1>1. caller \in [Caller -> Task] /\ worker \in [Worker -> Channel] /\ t \in Worker
    BY DEF IInv, TypeOK, TaskShape
  <1>2. caller'[j] = k /\ \A i \in Caller \ {j} : caller'[i] = caller[i]
    BY <1>1
  <1>3. w \in Channel
    BY <1>1 DEF Channel, FreeWorker, Option
  <1>4. worker' = [worker EXCEPT ![t] = w]
    BY DEF HangUp
  <1>5. worker'[t] = w /\ \A u \in Worker \ {t} : worker'[u] = worker[u]
    BY <1>1, <1>4
  <1>6. TypeOK'
    BY <1>1, <1>3, <1>4 DEF TypeOK
  <1>7. TaskShape'
    BY <1>2 DEF IInv, TaskShape
  <1>8. MailAnswers'
    <2>1. w.pc # "free" => w.ask \in Question /\ w.mail = None
      BY <1>1 DEF IInv, MailAnswers, FreeWorker, Channel
    <2>2. w.mail # None => w.pc # "free"
      BY <1>1 DEF IInv, MailAnswers, FreeWorker, Channel
    <2> QED BY <1>5, <2>1, <2>2 DEF IInv, MailAnswers
  <1>9. WorkersAreOwn'
    <2> SUFFICES ASSUME NEW i \in Caller, caller'[i].pc = "wait"
                 PROVE  LET u == caller'[i].worker IN
                        /\ worker'[u].ask = caller'[i].ask
                        /\ worker'[u].pc # "free" /\ worker'[u].rx
                        /\ \A h \in Caller \ {i} : caller'[h].worker # u
      BY DEF WorkersAreOwn
    <2>1. i # j /\ caller'[i] = caller[i]
      BY <1>2
    <2>2. caller[i].worker \in Worker \ {t}
      BY <2>1 DEF IInv, TaskShape, WorkersAreOwn
    <2>3. worker'[caller[i].worker] = worker[caller[i].worker]
      BY <1>5, <2>2
    <2>4. k.worker # caller[i].worker
      BY <2>2, EngineAssumption
    <2> QED BY <1>2, <2>1, <2>3, <2>4 DEF IInv, WorkersAreOwn
  <1> QED BY <1>6, <1>7, <1>8, <1>9 DEF IInv

\* A thread is started for a task.
LEMMA SpawnKeeps ==
  ASSUME IInv, NEW j \in Caller, NEW t \in Worker, SpawnWorker(j, t)
  PROVE  IInv'
  <1> DEFINE k == [pc |-> "wait", ask |-> caller[j].ask, worker |-> t, answer |-> None]
  <1> DEFINE w == [pc |-> "start", ask |-> caller[j].ask, mail |-> None,
                   tx |-> TRUE, rx |-> TRUE]
  <1>1. caller \in [Caller -> Task] /\ worker \in [Worker -> Channel]
    BY DEF IInv, TypeOK
  <1>2. caller[j].pc = "spawn" /\ worker[t].pc = "free"
    BY DEF SpawnWorker
  <1>3. caller[j].ask \in Question /\ caller[j].answer = None
    BY <1>2 DEF IInv, TaskShape
  <1>4. k \in Task /\ w \in Channel
    <2>1. caller[j].ask \in Option(Question) /\ t \in Option(Worker)
      BY <1>3 DEF Option
    <2> QED BY <2>1 DEF Task, Channel, Option
  <1>5. caller' = [caller EXCEPT ![j] = k] /\ worker' = [worker EXCEPT ![t] = w]
    BY DEF SpawnWorker
  <1>6. /\ caller'[j] = k /\ \A i \in Caller \ {j} : caller'[i] = caller[i]
        /\ worker'[t] = w /\ \A u \in Worker \ {t} : worker'[u] = worker[u]
    BY <1>1, <1>5
  <1>7. /\ k.pc = "wait" /\ k.worker = t /\ k.ask = caller[j].ask
        /\ k.answer = None
    OBVIOUS
  <1>8. TypeOK'
    BY <1>1, <1>4, <1>5 DEF TypeOK
  <1>9. TaskShape'
    BY <1>3, <1>6, <1>7 DEF IInv, TaskShape
  <1>10. MailAnswers'
    BY <1>3, <1>6 DEF IInv, MailAnswers
  <1>11. WorkersAreOwn'
    <2>1. \A i \in Caller : caller[i].worker # t
      BY <1>2, EngineAssumption DEF IInv, TaskShape, WorkersAreOwn
    <2>2. \A i \in Caller : caller[i].pc = "wait" => caller[i].worker \in Worker \ {t}
      BY <2>1 DEF IInv, TaskShape
    <2> SUFFICES ASSUME NEW i \in Caller, caller'[i].pc = "wait"
                 PROVE  LET u == caller'[i].worker IN
                        /\ worker'[u].ask = caller'[i].ask
                        /\ worker'[u].pc # "free" /\ worker'[u].rx
                        /\ \A h \in Caller \ {i} : caller'[h].worker # u
      BY DEF WorkersAreOwn
    <2>3. CASE i = j
      <3>1. caller'[i].worker = t /\ caller'[i].ask = caller[j].ask
        BY <1>6, <1>7, <2>3
      <3>2. worker'[t].ask = caller[j].ask /\ worker'[t].pc = "start" /\ worker'[t].rx
        BY <1>6
      <3>3. \A h \in Caller \ {i} : caller'[h].worker # t
        BY <1>6, <2>1, <2>3
      <3> QED BY <3>1, <3>2, <3>3
    <2>4. CASE i # j
      <3>1. caller'[i] = caller[i] /\ caller[i].worker \in Worker \ {t}
        BY <1>6, <2>2, <2>4
      <3>2. worker'[caller[i].worker] = worker[caller[i].worker]
        BY <1>6, <3>1
      <3>3. \A h \in Caller \ {i} : caller'[h].worker # caller[i].worker
        <4> SUFFICES ASSUME NEW h \in Caller \ {i} PROVE caller'[h].worker # caller[i].worker
          OBVIOUS
        <4>1. CASE h = j
          BY <1>6, <1>7, <3>1, <4>1
        <4>2. CASE h # j
          BY <1>6, <2>4, <3>1, <4>2 DEF IInv, WorkersAreOwn
        <4> QED BY <4>1, <4>2
      <3>4. /\ worker[caller[i].worker].ask = caller[i].ask
            /\ worker[caller[i].worker].pc # "free" /\ worker[caller[i].worker].rx
        BY <3>1 DEF IInv, WorkersAreOwn
      <3> QED BY <3>1, <3>2, <3>3, <3>4
    <2> QED BY <2>3, <2>4
  <1> QED BY <1>8, <1>9, <1>10, <1>11 DEF IInv

-----------------------------------------------------------------------------
(* Each step keeps the invariant and is one of the port, or none.          *)

PortStep == [Port!Next]_Port!portVars

\* A step that leaves the callers alone is invisible.
LEMMA InvisibleStep ==
  ASSUME UNCHANGED caller
  PROVE  PortStep
  BY DEF PortStep, Port!portVars

\* What a step that changes one caller looks like from outside.
LEMMA OneCallerSeen ==
  ASSUME IInv, NEW j \in Caller, NEW k \in Task, caller' = [caller EXCEPT ![j] = k]
  PROVE  /\ [i \in Caller |-> caller[i].ask]' =
              [[i \in Caller |-> caller[i].ask] EXCEPT ![j] = k.ask]
         /\ [i \in Caller |-> caller[i].answer]' =
              [[i \in Caller |-> caller[i].answer] EXCEPT ![j] = k.answer]
  BY DEF IInv, TypeOK

LEMMA AskStep ==
  ASSUME IInv, NEW j \in Caller, NEW q \in Question, AskEngine(j, q)
  PROVE  IInv' /\ PortStep
  <1> DEFINE k == [IdleCaller EXCEPT !.pc = "spawn", !.ask = q]
  <1>1. /\ k \in Task /\ k.pc = "spawn" /\ k.worker = None
        /\ k.ask = q /\ k.answer = None
    BY DEF Task, IdleCaller, Option
  <1>2. caller[j].pc = "idle" /\ caller' = [caller EXCEPT ![j] = k] /\ UNCHANGED worker
    BY DEF AskEngine
  <1>3. IInv'
    BY <1>1, <1>2, CallerAloneKeeps
  <1>4. Port!Ask(j, q)
    <2>1. caller[j].ask = None
      BY <1>2 DEF IInv, TaskShape
    <2> QED BY <1>1, <1>2, <2>1, OneCallerSeen DEF Port!Ask
  <1>5. q \in Port!Question
    BY DEF Question, Op, Port!Question
  <1> QED BY <1>3, <1>4, <1>5 DEF PortStep, Port!Next

\* A caller that is told an answer to its question is answered.
LEMMA ToldIsAnswered ==
  ASSUME IInv, NEW j \in Caller, caller[j].pc # "idle",
         NEW a \in Port!AnswersTo(caller[j].ask), Told(j, a)
  PROVE  Port!Answer(j) /\ [IdleCaller EXCEPT !.answer = a] \in Task
  <1> DEFINE k == [IdleCaller EXCEPT !.answer = a]
  <1>1. caller[j].ask \in Question
    BY DEF IInv, TaskShape
  <1>2. k \in Task /\ k.ask = None /\ k.answer = a
    BY <1>1, AnswersAreTyped DEF Task, IdleCaller, Option
  <1>3. caller[j].ask # None
    BY <1>1, EngineAssumption
  <1> QED BY <1>2, <1>3, OneCallerSeen DEF Told, Port!Answer

LEMMA SpawnFailsStep ==
  ASSUME IInv, NEW j \in Caller, SpawnFails(j)
  PROVE  IInv' /\ PortStep
  <1>1. caller[j].pc = "spawn" /\ Told(j, "Err") /\ UNCHANGED worker
    BY DEF SpawnFails
  <1>2. "Err" \in Port!AnswersTo(caller[j].ask)
    BY <1>1, ErrIsAnswer DEF IInv, TaskShape
  <1>3. Port!Answer(j) /\ [IdleCaller EXCEPT !.answer = "Err"] \in Task
    BY <1>1, <1>2, ToldIsAnswered
  <1>4. IInv'
    BY <1>1, <1>3, CallerAloneKeeps DEF Told, IdleCaller
  <1> QED BY <1>3, <1>4 DEF PortStep, Port!Next

LEMMA SpawnStep ==
  ASSUME IInv, NEW j \in Caller, NEW t \in Worker, SpawnWorker(j, t)
  PROVE  IInv' /\ PortStep
  <1>1. IInv'
    BY SpawnKeeps
  <1> DEFINE k == [pc |-> "wait", ask |-> caller[j].ask, worker |-> t, answer |-> None]
  <1>2. caller[j].ask \in Question /\ caller[j].answer = None
    BY DEF IInv, TaskShape, SpawnWorker
  <1>3. k \in Task
    BY <1>2 DEF Task, Option
  <1>4. caller' = [caller EXCEPT ![j] = k]
    BY DEF SpawnWorker
  <1>5. UNCHANGED Port!portVars
    BY <1>2, <1>3, <1>4, OneCallerSeen DEF Port!portVars
  <1> QED BY <1>1, <1>5 DEF PortStep

LEMMA ReceiveStep ==
  ASSUME IInv, NEW j \in Caller, Receive(j)
  PROVE  IInv' /\ PortStep
  <1> DEFINE t == caller[j].worker
             a == AnswerOf(worker[t].mail, caller[j].ask)
  <1>1. caller[j].pc = "wait" /\ Told(j, a) /\ HangUp(t)
    BY DEF Receive
  <1>2. caller[j].ask \in Question /\ t \in Worker /\ worker[t].ask = caller[j].ask
    BY <1>1 DEF IInv, TaskShape, WorkersAreOwn
  <1>3. a \in Port!AnswersTo(caller[j].ask)
    BY <1>2, ErrIsAnswer DEF AnswerOf, IInv, MailAnswers
  <1>4. Port!Answer(j) /\ [IdleCaller EXCEPT !.answer = a] \in Task
    BY <1>1, <1>3, ToldIsAnswered
  <1>5. IInv'
    BY <1>1, <1>4, LeaveKeeps DEF Told, IdleCaller
  <1> QED BY <1>4, <1>5 DEF PortStep, Port!Next

LEMMA DropStep ==
  ASSUME IInv, NEW j \in Caller, DropCaller(j)
  PROVE  IInv' /\ PortStep
  <1>1. IdleCaller \in Task /\ caller' = [caller EXCEPT ![j] = IdleCaller]
    BY DEF DropCaller, IdleCaller, Task, Option
  <1>2. caller[j].ask \in Question /\ caller[j].answer = None
    BY DEF DropCaller, IInv, TaskShape
  <1>3. IdleCaller.ask = None /\ IdleCaller.answer = None
    BY DEF IdleCaller
  <1> DEFINE open == [i \in Caller |-> caller[i].ask]
             told == [i \in Caller |-> caller[i].answer]
  <1>4. Port!Withdraw(j)
    <2>1. open' = [open EXCEPT ![j] = None] /\ told' = [told EXCEPT ![j] = None]
      BY <1>1, <1>3, OneCallerSeen
    <2>2. told' = told
      BY <1>2, <2>1
    <2>3. open[j] # None
      BY <1>2, EngineAssumption
    <2> QED BY <2>1, <2>2, <2>3 DEF Port!Withdraw
  <1>5. IInv'
    <2>1. CASE caller[j].pc = "wait"
      BY <1>1, <2>1, LeaveKeeps DEF DropCaller, IdleCaller
    <2>2. CASE caller[j].pc # "wait"
      BY <1>1, <2>2, CallerAloneKeeps DEF DropCaller, IdleCaller
    <2> QED BY <2>1, <2>2
  <1> QED BY <1>4, <1>5 DEF PortStep, Port!Next

-----------------------------------------------------------------------------
\* A thread that sends an answer to its question.
LEMMA SendKeeps ==
  ASSUME IInv, NEW t \in Worker, worker[t].pc # "free",
         NEW a \in Port!AnswersTo(worker[t].ask), Send(t, a), UNCHANGED caller
  PROVE  IInv'
  <1> DEFINE w == IF worker[t].rx
                  THEN [worker[t] EXCEPT !.pc = "ended", !.mail = a, !.tx = FALSE]
                  ELSE FreeWorker
  <1>1. worker[t] \in Channel /\ worker[t].ask \in Question
    BY DEF IInv, TypeOK, MailAnswers
  <1>2. a \in EngineAnswers \cup DeriveAnswers \cup {"Signed"}
    BY <1>1, AnswersAreTyped
  <1>3. w \in Channel
    BY <1>1, <1>2 DEF Channel, FreeWorker, Option
  <1>4. worker' = [worker EXCEPT ![t] = w]
    BY DEF Send
  <1>5. CASE worker[t].rx
    <2>1. /\ w.rx /\ w.pc = "ended" /\ w.ask = worker[t].ask /\ w.mail = a
      BY <1>1, <1>5 DEF Channel
    <2> QED BY <1>1, <1>3, <1>4, <2>1, WorkerAloneKeeps
  <1>6. CASE ~worker[t].rx
    <2>1. w.pc = "free" /\ w.mail = None
      BY <1>6 DEF FreeWorker
    <2> QED BY <1>3, <1>4, <1>6, <2>1, WorkerAloneKeeps
  <1> QED BY <1>5, <1>6

\* A thread that goes on to its next phase.
LEMMA PhaseKeeps ==
  ASSUME IInv, NEW t \in Worker, NEW p \in {"prepare", "work"},
         worker[t].pc \notin {"free", "ended"},
         worker' = [worker EXCEPT ![t].pc = p], UNCHANGED caller
  PROVE  IInv'
  <1> DEFINE w == [worker[t] EXCEPT !.pc = p]
  <1>1. worker[t] \in Channel /\ worker[t].ask \in Question /\ worker[t].mail = None
    BY DEF IInv, TypeOK, MailAnswers
  <1>2. /\ w \in Channel /\ w.rx = worker[t].rx /\ w.pc = p
        /\ w.ask = worker[t].ask /\ w.mail = None
    BY <1>1 DEF Channel
  <1> QED BY <1>1, <1>2, WorkerAloneKeeps

LEMMA WorkerStepKeeps ==
  ASSUME IInv, NEW t \in Worker, WorkerStep(t)
  PROVE  IInv' /\ UNCHANGED caller
  <1>1. worker[t].pc # "free" => "Err" \in Port!AnswersTo(worker[t].ask)
    BY ErrIsAnswer DEF IInv, MailAnswers
  <1>2. CASE BuildRuntime(t)
    BY <1>2, PhaseKeeps DEF BuildRuntime
  <1>3. CASE RuntimeFails(t)
    BY <1>1, <1>3, SendKeeps DEF RuntimeFails
  <1>4. CASE Prepare(t)
    BY <1>4, PhaseKeeps DEF Prepare
  <1>5. CASE PrepareFails(t)
    BY <1>1, <1>5, SendKeeps DEF PrepareFails
  <1>6. CASE Work(t)
    <2>1. PICK found \in SsiResults(worker[t].ask) :
            Send(t, Verdict(worker[t].ask, found))
      BY <1>6 DEF Work
    <2>2. worker[t].pc # "free" /\ worker[t].ask \in Question /\ UNCHANGED caller
      BY <1>6 DEF Work, IInv, MailAnswers
    <2> QED BY <2>1, <2>2, VerdictIsAnswer, SendKeeps
  <1> QED BY <1>2, <1>3, <1>4, <1>5, <1>6 DEF WorkerStep

LEMMA PanicKeeps ==
  ASSUME IInv, NEW t \in Worker, Panic(t)
  PROVE  IInv' /\ UNCHANGED caller
  <1> DEFINE w == IF worker[t].rx
                  THEN [worker[t] EXCEPT !.pc = "ended", !.tx = FALSE]
                  ELSE FreeWorker
  <1>1. /\ worker[t] \in Channel /\ worker[t].ask \in Question
        /\ worker[t].mail = None
    BY DEF Panic, IInv, TypeOK, MailAnswers
  <1>2. w \in Channel
    BY <1>1 DEF Channel, FreeWorker, Option
  <1>3. worker' = [worker EXCEPT ![t] = w] /\ UNCHANGED caller
    BY DEF Panic
  <1>4. CASE worker[t].rx
    <2>1. w.rx /\ w.pc = "ended" /\ w.ask = worker[t].ask /\ w.mail = None
      BY <1>1, <1>4 DEF Channel
    <2> QED BY <1>1, <1>2, <1>3, <2>1, WorkerAloneKeeps
  <1>5. CASE ~worker[t].rx
    <2>1. w.pc = "free" /\ w.mail = None
      BY <1>5 DEF FreeWorker
    <2> QED BY <1>2, <1>3, <1>5, <2>1, WorkerAloneKeeps
  <1> QED BY <1>4, <1>5

LEMMA NextStep == IInv /\ [Next]_vars => IInv' /\ PortStep
  <1> SUFFICES ASSUME IInv, [Next]_vars PROVE IInv' /\ PortStep
    OBVIOUS
  <1>1. CASE UNCHANGED vars
    BY <1>1, InvisibleStep
    DEF vars, IInv, TypeOK, TaskShape, MailAnswers, WorkersAreOwn
  <1>2. ASSUME NEW j \in Caller, NEW q \in Question, AskEngine(j, q)
        PROVE  IInv' /\ PortStep
    BY <1>2, AskStep
  <1>3. ASSUME NEW j \in Caller, CallerStep(j) \/ DropCaller(j)
        PROVE  IInv' /\ PortStep
    BY <1>3, SpawnStep, SpawnFailsStep, ReceiveStep, DropStep DEF CallerStep
  <1>4. ASSUME NEW t \in Worker, WorkerStep(t) \/ Panic(t)
        PROVE  IInv' /\ PortStep
    BY <1>4, WorkerStepKeeps, PanicKeeps, InvisibleStep
  <1> QED BY <1>1, <1>2, <1>3, <1>4 DEF Next

-----------------------------------------------------------------------------
\* run_async, the default engine and its error mapping implement the port.
THEOREM EngineHonoursPort == Spec => HonoursPort
  <1>1. Init => Port!Init
    BY DEF Init, Port!Init, IdleCaller
  <1> QED BY <1>1, InitIInv, NextStep, PTL DEF Spec, HonoursPort, Port!Spec, PortStep
=============================================================================
