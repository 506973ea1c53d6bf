------------------------------- MODULE Engine -------------------------------
(***************************************************************************)
(* The default engine (engine.rs) and the signing of a presentation, each  *)
(* question run on a thread of its own with a large stack (run_async in    *)
(* big_stack.rs) that answers over a oneshot channel. Callers are async    *)
(* tasks and may be dropped while they wait; a thread is never joined and  *)
(* goes on without them.                                                   *)
(***************************************************************************)
EXTENDS Ports

CONSTANTS
  Caller,   \* tasks that may have a question open
  Worker,   \* threads, each with its channel
  Remote    \* credentials whose issuer's key is resolved over the network

Op == {"verify", "derive", "sign"}
Question == [op : Op, cred : Credential]

ASSUME EngineAssumption ==
  /\ None \notin Question \cup Worker
  /\ None \notin EngineAnswers \cup DeriveAnswers \cup {"Signed"}
  /\ Remote \subseteq Credential

VARIABLES
  caller,   \* what each task waits for
  worker    \* the threads

vars == <<caller, worker>>

\* tx and rx tell whether the ends of the channel are alive, mail is the value
\* sent.
FreeWorker == [pc |-> "free", ask |-> None, mail |-> None, tx |-> FALSE, rx |-> FALSE]

IdleCaller == [pc |-> "idle", ask |-> None, worker |-> None, answer |-> None]

Init ==
  /\ caller = [j \in Caller |-> IdleCaller]
  /\ worker = [t \in Worker |-> FreeWorker]

-----------------------------------------------------------------------------
(* The caller.                                                             *)

AskEngine(j, q) ==
  /\ caller[j].pc = "idle"
  /\ caller' = [caller EXCEPT ![j] = [IdleCaller EXCEPT !.pc = "spawn", !.ask = q]]
  /\ UNCHANGED worker

Told(j, a) == caller' = [caller EXCEPT ![j] = [IdleCaller EXCEPT !.answer = a]]

SpawnWorker(j, t) ==
  /\ caller[j].pc = "spawn"
  /\ worker[t].pc = "free"
  /\ worker' = [worker EXCEPT ![t] =
       [pc |-> "start", ask |-> caller[j].ask, mail |-> None, tx |-> TRUE, rx |-> TRUE]]
  /\ caller' = [caller EXCEPT ![j] =
       [pc |-> "wait", ask |-> caller[j].ask, worker |-> t, answer |-> None]]

\* The thread cannot be created.
SpawnFails(j) ==
  /\ caller[j].pc = "spawn"
  /\ Told(j, "Err")
  /\ UNCHANGED worker

\* Mutant: a worker that is gone is taken for a verdict.
AnswerOfPanicking(mail, q) ==
  IF mail # None THEN mail ELSE IF q.op = "verify" THEN "ProofInvalid" ELSE "Err"

\* A sender dropped without a value is a RecvError, and an error of the worker
\* an error of the port.
AnswerOf(mail, q) == IF mail # None THEN mail ELSE "Err"

\* The caller's end of the channel is dropped. A thread that has ended leaves
\* nothing behind, any other goes on.
HangUp(t) ==
  worker' = [worker EXCEPT ![t] =
    IF worker[t].pc = "ended" THEN FreeWorker ELSE [worker[t] EXCEPT !.rx = FALSE]]

\* rx.await: a value, or the sender is gone.
Receive(j) ==
  /\ caller[j].pc = "wait"
  /\ LET t == caller[j].worker IN
     /\ worker[t].mail # None \/ ~worker[t].tx
     /\ Told(j, AnswerOf(worker[t].mail, caller[j].ask))
     /\ HangUp(t)

\* The caller's future is dropped, before its first poll or while it waits.
DropCaller(j) ==
  /\ caller[j].pc \in {"spawn", "wait"}
  /\ caller' = [caller EXCEPT ![j] = IdleCaller]
  /\ IF caller[j].pc = "wait" THEN HangUp(caller[j].worker) ELSE UNCHANGED worker

-----------------------------------------------------------------------------
(* The thread.                                                             *)

\* Mutant: a thread waits for its reader.
SendToReader(t, value) ==
  /\ worker[t].rx
  /\ worker' = [worker EXCEPT ![t].pc = "ended", ![t].mail = value, ![t].tx = FALSE]

\* tx.send: the value is lost when nobody listens. The thread then ends.
Send(t, value) ==
  worker' = [worker EXCEPT ![t] =
    IF worker[t].rx THEN [worker[t] EXCEPT !.pc = "ended", !.mail = value, !.tx = FALSE]
    ELSE FreeWorker]

BuildRuntime(t) ==
  /\ worker[t].pc = "start"
  /\ worker' = [worker EXCEPT ![t].pc = "prepare"]
  /\ UNCHANGED caller

RuntimeFails(t) ==
  /\ worker[t].pc = "start"
  /\ Send(t, "Err")
  /\ UNCHANGED caller

\* The context map is loaded, the body decoded and the pointers parsed.
Prepare(t) ==
  /\ worker[t].pc = "prepare"
  /\ worker' = [worker EXCEPT ![t].pc = "work"]
  /\ UNCHANGED caller

PrepareFails(t) ==
  /\ worker[t].pc = "prepare"
  /\ Send(t, "Err")
  /\ UNCHANGED caller

\* What ssi finds: of a sound proof it may find a claim invalid, of a broken
\* one the proof, and it may fail to run.
SsiResults(q) ==
  CASE q.op = "verify" ->
         {"Err"} \cup (IF q.cred \in ProofHolds THEN {"Ok", "Claims"} ELSE {"Proof"})
    [] q.op # "verify" -> {"Ok", "Err"}

\* Mutant: every Invalid is one.
VerdictCollapsed(q, found) ==
  CASE found = "Err" -> "Err"
    [] found \in {"Claims", "Proof"} -> "ProofInvalid"
    [] found = "Ok" /\ q.op = "verify" -> "Verified"
    [] found = "Ok" /\ q.op = "derive" -> "Derived"
    [] found = "Ok" /\ q.op = "sign" -> "Signed"

\* Invalid::Claims and Invalid::Proof stay apart.
Verdict(q, found) ==
  CASE found = "Err" -> "Err"
    [] found = "Claims" -> "ClaimsInvalid"
    [] found = "Proof" -> "ProofInvalid"
    [] found = "Ok" /\ q.op = "verify" -> "Verified"
    [] found = "Ok" /\ q.op = "derive" -> "Derived"
    [] found = "Ok" /\ q.op = "sign" -> "Signed"

Work(t) ==
  /\ worker[t].pc = "work"
  /\ \E found \in SsiResults(worker[t].ask) : Send(t, Verdict(worker[t].ask, found))
  /\ UNCHANGED caller

\* Mutant: the sender outlives the thread.
PanicKeepsSender(t) ==
  /\ worker[t].pc \in {"start", "prepare", "work"}
  /\ worker' = [worker EXCEPT ![t] =
       IF worker[t].rx THEN [worker[t] EXCEPT !.pc = "ended"] ELSE FreeWorker]
  /\ UNCHANGED caller

\* The thread panics; unwinding drops its end of the channel.
Panic(t) ==
  /\ worker[t].pc \in {"start", "prepare", "work"}
  /\ worker' = [worker EXCEPT ![t] =
       IF worker[t].rx THEN [worker[t] EXCEPT !.pc = "ended", !.tx = FALSE] ELSE FreeWorker]
  /\ UNCHANGED caller

-----------------------------------------------------------------------------
CallerStep(j) == (\E t \in Worker : SpawnWorker(j, t)) \/ SpawnFails(j) \/ Receive(j)

WorkerStep(t) ==
  BuildRuntime(t) \/ RuntimeFails(t) \/ Prepare(t) \/ PrepareFails(t) \/ Work(t)

Next ==
  \/ \E j \in Caller : (\E q \in Question : AskEngine(j, q)) \/ CallerStep(j) \/ DropCaller(j)
  \/ \E t \in Worker : WorkerStep(t) \/ Panic(t)

Spec == Init /\ [][Next]_vars

\* Ready tasks are polled and threads scheduled. Resolving a did:web issuer
\* reaches the network under no timeout of this code: such work may never end.
Unhurried(t) == worker[t].pc = "work" /\ worker[t].ask.cred \in Remote

FairSpec ==
  /\ Spec
  /\ \A j \in Caller : WF_vars(CallerStep(j))
  /\ \A t \in Worker : WF_vars(~Unhurried(t) /\ WorkerStep(t))
-----------------------------------------------------------------------------
(* Properties.                                                             *)

\* What a caller of the port sees.
Port == INSTANCE EnginePort WITH
  asked <- [j \in Caller |-> caller[j].ask],
  answer <- [j \in Caller |-> caller[j].answer]

\* The default engine honours the port: every answer is one to the question its
\* own caller has open, at most one, none after it was dropped; and neither a
\* panic nor a failure to run ever turns into a verdict about the proof, which
\* would abort an offer as forged (engine.rs 13-16).
HonoursPort == Port!Spec

\* A caller that waits is told something or drops, also when its worker
\* panics: unless the key of its issuer never resolves.
CallersAreTold ==
  \A j \in Caller :
    caller[j].pc # "idle" /\ caller[j].ask.cred \notin Remote ~> caller[j].pc = "idle"

\* A thread ends also when nobody waits for it any more.
WorkersEnd ==
  \A t \in Worker :
    worker[t].pc # "free" /\ worker[t].ask.cred \notin Remote ~>
      worker[t].pc \in {"free", "ended"}
=============================================================================
