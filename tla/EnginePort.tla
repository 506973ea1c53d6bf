----------------------------- MODULE EnginePort -----------------------------
(***************************************************************************)
(* What a caller of the engine port and of the signing worker may rely on: *)
(* a question is answered at most once, with an answer to that question,   *)
(* and never when it was withdrawn.                                        *)
(***************************************************************************)
EXTENDS Ports

CONSTANT Caller    \* the tasks that may have a question open

VARIABLES
  asked,   \* the open question of each caller, or None
  answer   \* the last answer each was given, or None

portVars == <<asked, answer>>

Question == [op : {"verify", "derive", "sign"}, cred : Credential]

AnswersTo(q) ==
  CASE q.op = "verify" -> VerifyAnswers(q.cred)
    [] q.op = "derive" -> DeriveAnswers
    [] q.op = "sign"   -> {"Signed", "Err"}

Init ==
  /\ asked = [j \in Caller |-> None]
  /\ answer = [j \in Caller |-> None]

Ask(j, q) ==
  /\ asked[j] = None
  /\ asked' = [asked EXCEPT ![j] = q]
  /\ answer' = [answer EXCEPT ![j] = None]

Answer(j) ==
  /\ asked[j] # None
  /\ \E a \in AnswersTo(asked[j]) : answer' = [answer EXCEPT ![j] = a]
  /\ asked' = [asked EXCEPT ![j] = None]

Withdraw(j) ==
  /\ asked[j] # None
  /\ asked' = [asked EXCEPT ![j] = None]
  /\ UNCHANGED answer

Next == \E j \in Caller : (\E q \in Question : Ask(j, q)) \/ Answer(j) \/ Withdraw(j)

Spec == Init /\ [][Next]_portVars
=============================================================================
