----------------------------- MODULE ProxyPromise -----------------------------
(***************************************************************************)
(* What ProxyML promises about one call of /proxy/{slug}/{path}, without    *)
(* saying how: the call is answered at most once; at most two services are  *)
(* tried, the second only after the first raised or answered with a status  *)
(* that calls for the fallback; and the answer is the one of the last       *)
(* service tried, or an error if that one raised.  ProxyRequest implements  *)
(* it.                                                                     *)
(***************************************************************************)
CONSTANTS Requests, Services, None

VARIABLES first,      \* first[r], second[r]: the service tried, and how that went
          second,
          answer      \* answer[r]: where the client's answer comes from

vars == <<first, second, answer>>

Results == {"none", "pending", "good", "bad", "raised"}
Untried == [svc |-> None, result |-> "none"]
Tries == [svc : Services \cup {None}, result : Results]
Answers == {"none", "refused", "primary", "fallback", "error", "lost"}

TypeOK == /\ first \in [Requests -> Tries]
          /\ second \in [Requests -> Tries]
          /\ answer \in [Requests -> Answers]

Init == /\ first = [r \in Requests |-> Untried]
        /\ second = [r \in Requests |-> Untried]
        /\ answer = [r \in Requests |-> "none"]

Open(r) == answer[r] = "none"
Answer(r, a) == Open(r) /\ answer' = [answer EXCEPT ![r] = a] /\ UNCHANGED <<first, second>>

TryFirst(r, s) == /\ Open(r) /\ first[r] = Untried
                  /\ first' = [first EXCEPT ![r] = [svc |-> s, result |-> "pending"]]
                  /\ UNCHANGED <<second, answer>>

TrySecond(r, s) == /\ Open(r) /\ second[r] = Untried
                   /\ first[r].result \in {"bad", "raised"}
                   /\ second' = [second EXCEPT ![r] = [svc |-> s, result |-> "pending"]]
                   /\ UNCHANGED <<first, answer>>

\* The answer of a settled try: that of the role, or an error when it raised.
Outcome(role, result) == IF result = "raised" THEN "error" ELSE role

\* A try settles. The answer may leave in the same step, unless another try follows.
SettleFirst(r, result) ==
    /\ Open(r) /\ first[r].result = "pending"
    /\ first' = [first EXCEPT ![r].result = result]
    /\ answer' \in {answer, [answer EXCEPT ![r] = Outcome("primary", result)]}
    /\ UNCHANGED second

SettleSecond(r, result) ==
    /\ Open(r) /\ second[r].result = "pending"
    /\ second' = [second EXCEPT ![r].result = result]
    /\ answer' \in {answer, [answer EXCEPT ![r] = Outcome("fallback", result)]}
    /\ UNCHANGED first

Refuse(r) == first[r] = Untried /\ Answer(r, "refused")

AnswerFirst(r) == /\ first[r].result \in {"good", "bad", "raised"} /\ second[r] = Untried
                  /\ Answer(r, Outcome("primary", first[r].result))

AnswerSecond(r) == /\ second[r].result \in {"good", "bad", "raised"}
                   /\ Answer(r, Outcome("fallback", second[r].result))

\* The process dies: whatever has no answer yet never gets one.
Lose == /\ answer' \in [Requests -> Answers]
        /\ \A r \in Requests : answer'[r] # answer[r] => Open(r) /\ answer'[r] = "lost"
        /\ UNCHANGED <<first, second>>

Next == \/ Lose
        \/ \E r \in Requests :
              \/ Refuse(r) \/ AnswerFirst(r) \/ AnswerSecond(r)
              \/ \E s \in Services : TryFirst(r, s) \/ TrySecond(r, s)
              \/ \E result \in {"good", "bad", "raised"} :
                    SettleFirst(r, result) \/ SettleSecond(r, result)

Spec == Init /\ [][Next]_vars
===============================================================================
