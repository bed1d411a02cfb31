--------------------------- MODULE AgentLoopProofs ---------------------------
(***************************************************************************)
(* What AgentLoop promises of its bounds, for any number of steps and of   *)
(* calls in a message, with and without a fallback model.                  *)
(***************************************************************************)
EXTENDS AgentLoop, TLAPS

USE DEF Kinds, Attempts, Ends, Ended

Pending(b) == IF b THEN 1 ELSE 0

(* What a provider may still refuse. *)
StillRefusable ==
  Pending(phase = "starting" \/ toolChoice = "required")
    + Pending(providerMode = "system") + Pending(~omitToolChoice)

(* Each thing is refused at most once: what was refused and what may still *)
(* be add up to the kinds there are.  A tool is required in the first step *)
(* only.                                                                   *)
RefusalsAddUp == refusals + StillRefusable <= Kinds

(* Tools run in one phase only, and no more of them than a message holds. *)
CallsWhileRunning == (phase # "running" => calls = << >>) /\ Len(calls) <= MaxCalls

(* The second answer without a tool ends the loop. *)
RemindedOnce == phase # "refused" => noToolRetryCount < 2

Inv == TypeOK /\ RefusalsAddUp /\ CallsWhileRunning /\ RemindedOnce

MessageType == [type : {"goal", "calls", "result", "reminder"}, step : Steps,
                call : 0..MaxCalls, done : BOOLEAN]
CallType == [tool : Tools, says : {"running", "done", "failed", "blocked"}]

-----------------------------------------------------------------------------
LEMMA StepsAreNumbers == Steps \subseteq Nat /\ 0 \in Steps
BY AgentLoopAssumption DEF Steps

LEMMA OneInSeq == ASSUME NEW S, NEW e \in S PROVE <<e>> \in Seq(S)
OBVIOUS

LEMMA AppendInSeq ==
  ASSUME NEW S, NEW s \in Seq(S), NEW e \in S PROVE Append(s, e) \in Seq(S)
OBVIOUS

LEMMA BuildMessagesType == BuildMessages \in Seq(MessageType)
<1>1. 0 \in Steps /\ 0 \in 0..MaxCalls
  BY StepsAreNumbers, AgentLoopAssumption
<1>2. Entry("goal", 0, 0, FALSE) \in MessageType
  BY <1>1 DEF Entry, MessageType
<1> QED BY <1>2, OneInSeq DEF BuildMessages

(* The next step is a step, or the loop is over. *)
LEMMA NextStepType ==
  ASSUME Inv, phase \in {"asking", "running"}, NextStep
  PROVE  /\ phase' \in {"asking", "exhausted"} /\ step' \in Steps /\ attempt' \in 0..2
         /\ usedModel' \in {"main", "fallback"} /\ toolChoice' \in {"required", "auto"}
         /\ toolChoice' = "required" => toolChoice = "required"
<1>1. step \in Nat BY StepsAreNumbers DEF Inv, TypeOK
<1>2. CASE BeginStep(step + 1) /\ step + 1 < MaxSteps
  BY <1>1, <1>2, AgentLoopAssumption DEF BeginStep, Steps
<1>3. CASE phase' = "exhausted" /\ UNCHANGED requestVars
  BY <1>3 DEF requestVars, Inv, TypeOK
<1> QED BY <1>2, <1>3 DEF NextStep

(* What leaves the modes alone, and requires no tool anew, leaves the sum. *)
LEMMA SumStays ==
  ASSUME Inv, UNCHANGED <<modeVars, refusals>>, phase' # "starting",
         toolChoice' = "required" => toolChoice = "required" \/ phase = "starting"
  PROVE  RefusalsAddUp' /\ refusals' \in 0..(Kinds + 1)
BY DEF modeVars, Inv, TypeOK, RefusalsAddUp, StillRefusable, Pending

-----------------------------------------------------------------------------
LEMMA InitInv == Init => Inv
<1> SUFFICES ASSUME Init PROVE Inv OBVIOUS
<1>1. TypeOK
  <2>1. messages \in Seq(MessageType) BY BuildMessagesType DEF Init
  <2>2. calls \in Seq(CallType) BY DEF Init
  <2>3. step \in Steps /\ attempt \in 0..2 /\ noToolRetryCount \in 0..2 /\ refusals \in 0..4
    BY StepsAreNumbers DEF Init
  <2>4. firedOnce \subseteq OncePerSession /\ acted \subseteq Steps \X (1..MaxCalls) BY DEF Init
  <2>5. /\ insists \in BOOLEAN /\ mustUseRealTool \in BOOLEAN /\ sawToolCall \in BOOLEAN
        /\ omitToolChoice \in BOOLEAN /\ forgot \in BOOLEAN
    BY DEF Init, GoalAsks
  <2> QED BY <2>1, <2>2, <2>3, <2>4, <2>5 DEF Init, TypeOK, MessageType, CallType
<1>2. RefusalsAddUp BY DEF Init, RefusalsAddUp, StillRefusable, Pending
<1>3. CallsWhileRunning BY AgentLoopAssumption DEF Init, CallsWhileRunning
<1> QED BY <1>1, <1>2, <1>3 DEF Inv, Init, RemindedOnce

LEMMA BeginInv == Inv /\ Begin => Inv'
<1> SUFFICES ASSUME Inv, Begin PROVE Inv' OBVIOUS
<1> USE DEF Begin, goalVars, requestVars, modeVars, toolVars, answerVars
<1>1. /\ phase' \in {"asking", "failed"} /\ step' \in Steps /\ attempt' \in 0..2
      /\ usedModel' \in {"main", "fallback"} /\ toolChoice' \in {"required", "auto"}
  BY StepsAreNumbers DEF BeginStep, Inv, TypeOK
<1>2. RefusalsAddUp' /\ refusals' \in 0..(Kinds + 1) BY <1>1, SumStays
<1>3. TypeOK' BY <1>1, <1>2 DEF Inv, TypeOK
<1>4. CallsWhileRunning' /\ RemindedOnce' BY <1>1 DEF Inv, CallsWhileRunning, RemindedOnce
<1> QED BY <1>2, <1>3, <1>4 DEF Inv

LEMMA RefusalInv == Inv /\ Refusal => Inv'
<1> SUFFICES ASSUME Inv, Refusal PROVE Inv' OBVIOUS
<1> USE DEF goalVars, requestVars, modeVars, toolVars, answerVars
<1>1. CASE SystemRefused
  <2>1. RefusalsAddUp' /\ refusals' \in 0..(Kinds + 1)
    BY <1>1 DEF SystemRefused, Repeated, RefusalsAddUp, StillRefusable, Pending, Inv, TypeOK
  <2>2. forgot' \in BOOLEAN BY <1>1 DEF SystemRefused
  <2>3. TypeOK' BY <1>1, <2>1, <2>2, BuildMessagesType DEF SystemRefused, Inv, TypeOK, MessageType
  <2> QED BY <1>1, <2>1, <2>3 DEF SystemRefused, Inv, CallsWhileRunning, RemindedOnce
<1>2. CASE RequiredRefused
  <2>1. RefusalsAddUp' /\ refusals' \in 0..(Kinds + 1)
    BY <1>2 DEF RequiredRefused, Repeated, RefusalsAddUp, StillRefusable, Pending, Inv, TypeOK
  <2>2. TypeOK' BY <1>2, <2>1 DEF RequiredRefused, Inv, TypeOK
  <2> QED BY <1>2, <2>1, <2>2 DEF RequiredRefused, Inv, CallsWhileRunning, RemindedOnce
<1>3. CASE ThinkingRefused
  <2>1. RefusalsAddUp' /\ refusals' \in 0..(Kinds + 1)
    BY <1>3 DEF ThinkingRefused, Repeated, RefusalsAddUp, StillRefusable, Pending, Inv, TypeOK
  <2>2. TypeOK' BY <1>3, <2>1 DEF ThinkingRefused, Inv, TypeOK
  <2> QED BY <1>3, <2>1, <2>2 DEF ThinkingRefused, Inv, CallsWhileRunning, RemindedOnce
<1> QED BY <1>1, <1>2, <1>3 DEF Refusal

(* A reply that ends the step, with or without a message of its own. *)
LEMMA StepEnds ==
  ASSUME Inv, phase \in {"asking", "running"}, NextStep,
         UNCHANGED <<goalVars, modeVars, forgot, refusals, sawToolCall>>,
         messages' \in Seq(MessageType), noToolRetryCount' \in 0..1, calls' = << >>,
         UNCHANGED <<firedOnce, acted>>
  PROVE  Inv'
<1>1. /\ phase' \in {"asking", "exhausted"} /\ step' \in Steps /\ attempt' \in 0..2
      /\ usedModel' \in {"main", "fallback"} /\ toolChoice' \in {"required", "auto"}
      /\ toolChoice' = "required" => toolChoice = "required"
  BY NextStepType
<1>2. RefusalsAddUp' /\ refusals' \in 0..(Kinds + 1) BY <1>1, SumStays
<1>3. TypeOK' BY <1>1, <1>2 DEF goalVars, modeVars, Inv, TypeOK, MessageType
<1>4. CallsWhileRunning' /\ RemindedOnce' BY AgentLoopAssumption DEF CallsWhileRunning, RemindedOnce
<1> QED BY <1>2, <1>3, <1>4 DEF Inv

LEMMA ReminderType ==
  ASSUME Inv PROVE Append(messages, Entry("reminder", step, 0, FALSE)) \in Seq(MessageType)
<1>1. step \in Steps /\ messages \in Seq(MessageType) BY DEF Inv, TypeOK, MessageType
<1>2. 0 \in 0..MaxCalls BY AgentLoopAssumption
<1>3. Entry("reminder", step, 0, FALSE) \in MessageType BY <1>1, <1>2 DEF Entry, MessageType
<1> QED BY <1>1, <1>3, AppendInSeq

LEMMA SaysInv == Inv /\ Says => Inv'
<1> SUFFICES ASSUME Inv, Says PROVE Inv' OBVIOUS
<1> USE DEF Says, goalVars, requestVars, modeVars, toolVars
<1>1. calls' = << >> /\ calls = << >> BY DEF Inv, CallsWhileRunning
<1>2. ASSUME phase' \in {"refused", "answered"}, UNCHANGED <<requestVars, messages>>,
             noToolRetryCount' \in 0..2, phase' = "answered" => noToolRetryCount' < 2
      PROVE  Inv'
  <2>1. RefusalsAddUp' /\ refusals' \in 0..(Kinds + 1) BY <1>2, SumStays
  <2>2. TypeOK' BY <1>2, <2>1 DEF Inv, TypeOK
  <2>3. CallsWhileRunning' /\ RemindedOnce' BY <1>1, <1>2 DEF Inv, CallsWhileRunning, RemindedOnce
  <2> QED BY <2>1, <2>2, <2>3 DEF Inv
<1>3. noToolRetryCount \in 0..1 BY DEF Inv, TypeOK, RemindedOnce
<1>4. CASE mustUseRealTool /\ ~sawToolCall
  <2>1. /\ noToolRetryCount' = noToolRetryCount + 1
        /\ \/ phase' = "refused" /\ UNCHANGED <<requestVars, messages>>
           \/ /\ noToolRetryCount' < 2
              /\ messages' = Append(messages, Entry("reminder", step, 0, FALSE))
              /\ NextStep
    BY <1>4, Zenon
  <2>2. noToolRetryCount' \in 0..2 BY <1>3, <2>1
  <2>3. CASE phase' = "refused" /\ UNCHANGED <<requestVars, messages>> BY <1>2, <2>2, <2>3
  <2>4. CASE /\ noToolRetryCount' < 2
             /\ messages' = Append(messages, Entry("reminder", step, 0, FALSE))
             /\ NextStep
    <3>1. noToolRetryCount' \in 0..1 BY <2>2, <2>4
    <3> QED BY <1>1, <2>4, <3>1, ReminderType, StepEnds
  <2> QED BY <2>1, <2>3, <2>4
<1>5. CASE ~ (mustUseRealTool /\ ~sawToolCall)
  <2>1. phase' = "answered" /\ UNCHANGED <<requestVars, messages, noToolRetryCount>> BY <1>5, Zenon
  <2> QED BY <1>2, <1>3, <2>1
<1> QED BY <1>4, <1>5

LEMMA CallsInv == Inv /\ Calls => Inv'
<1> SUFFICES ASSUME Inv, Calls PROVE Inv' OBVIOUS
<1> USE DEF Calls, goalVars, requestVars, modeVars
<1>0. PICK n \in 1..MaxCalls : \E tools \in [1..n -> Tools], invalid \in SUBSET (1..n) :
        /\ messages' = Append(messages, Entry("calls", step, n, FALSE))
        /\ calls' = [i \in 1..n |->
                      [tool |-> tools[i],
                       says |-> IF Blocked(tools, invalid, i) THEN "blocked" ELSE "running"]]
  OBVIOUS
<1>1. PICK tools \in [1..n -> Tools], invalid \in SUBSET (1..n) :
        /\ messages' = Append(messages, Entry("calls", step, n, FALSE))
        /\ calls' = [i \in 1..n |->
                      [tool |-> tools[i],
                       says |-> IF Blocked(tools, invalid, i) THEN "blocked" ELSE "running"]]
  BY <1>0
<1>2. n \in Nat /\ n <= MaxCalls /\ n \in 0..MaxCalls BY AgentLoopAssumption
<1>3. calls' \in [1..n -> CallType] BY <1>1 DEF CallType
<1>4. calls' \in Seq(CallType) /\ Len(calls') = n BY <1>2, <1>3
<1>5. messages' \in Seq(MessageType)
  <2>1. step \in Steps /\ messages \in Seq(MessageType) BY DEF Inv, TypeOK, MessageType
  <2>2. Entry("calls", step, n, FALSE) \in MessageType BY <1>2, <2>1 DEF Entry, MessageType
  <2> QED BY <1>1, <2>1, <2>2, AppendInSeq
<1>6. RefusalsAddUp' /\ refusals' \in 0..(Kinds + 1) BY SumStays
<1>7. TypeOK' BY <1>4, <1>5, <1>6 DEF Inv, TypeOK, MessageType, CallType
<1>8. CallsWhileRunning' /\ RemindedOnce' BY <1>2, <1>4 DEF Inv, CallsWhileRunning, RemindedOnce
<1> QED BY <1>6, <1>7, <1>8 DEF Inv

LEMMA ReplyInv == Inv /\ Reply => Inv'
<1> SUFFICES ASSUME Inv, Reply PROVE Inv' OBVIOUS
<1> USE DEF goalVars, requestVars, modeVars, toolVars, answerVars
<1>1. phase = "asking" /\ calls = << >> /\ messages \in Seq(MessageType)
  BY DEF Reply, Overloaded, RateLimited, RequestFails, SaysNothing, Says, Calls, Inv,
         CallsWhileRunning, TypeOK, MessageType
<1>2. CASE Overloaded
  <2>1. phase' \in {"asking", "failed"} /\ attempt' \in 0..2 /\ usedModel' \in {"main", "fallback"}
    BY <1>1, <1>2 DEF Overloaded, Inv, TypeOK
  <2>2. RefusalsAddUp' /\ refusals' \in 0..(Kinds + 1) BY <1>2, <2>1, SumStays DEF Overloaded
  <2>3. TypeOK' BY <1>2, <2>1, <2>2 DEF Overloaded, Inv, TypeOK
  <2>4. CallsWhileRunning' /\ RemindedOnce'
    BY <1>1, <1>2, <2>1 DEF Overloaded, Inv, CallsWhileRunning, RemindedOnce
  <2> QED BY <2>2, <2>3, <2>4 DEF Inv
<1>3. CASE RateLimited \/ SaysNothing
  <2>1. NextStep /\ noToolRetryCount' \in 0..1
    BY <1>1, <1>3 DEF RateLimited, SaysNothing, Inv, TypeOK, RemindedOnce
  <2> QED BY <1>1, <1>3, <2>1, StepEnds DEF RateLimited, SaysNothing
<1>4. CASE RequestFails
  <2>1. RefusalsAddUp' /\ refusals' \in 0..(Kinds + 1) BY <1>4, SumStays DEF RequestFails
  <2>2. TypeOK' BY <1>4, <2>1 DEF RequestFails, Inv, TypeOK
  <2>3. CallsWhileRunning' /\ RemindedOnce'
    BY <1>1, <1>4 DEF RequestFails, Inv, CallsWhileRunning, RemindedOnce
  <2> QED BY <2>1, <2>2, <2>3 DEF Inv
<1> QED BY <1>2, <1>3, <1>4, SaysInv, CallsInv DEF Reply

LEMMA ToolEndsInv ==
  ASSUME Inv, phase = "running", NEW i \in DOMAIN calls, NEW says \in {"done", "failed", "blocked"},
         Result(i, says), acted' \in {acted, acted \cup {<<step, i>>}},
         UNCHANGED <<phase, goalVars, requestVars, modeVars, messages, answerVars, refusals, forgot>>
  PROVE  Inv'
<1> USE DEF goalVars, requestVars, modeVars, answerVars
<1>1. calls \in Seq(CallType) /\ Len(calls) <= MaxCalls /\ i \in 1..Len(calls)
  BY DEF Inv, TypeOK, CallType, CallsWhileRunning
<1>2. [calls[i] EXCEPT !.says = says] \in CallType
  <2>1. calls[i] \in CallType BY <1>1
  <2> QED BY <2>1 DEF CallType
<1>3. calls' = [calls EXCEPT ![i] = [calls[i] EXCEPT !.says = says]] BY <1>1 DEF Result
<1>4. calls' \in Seq(CallType) /\ Len(calls') = Len(calls) BY <1>1, <1>2, <1>3
<1>5. firedOnce' \subseteq OncePerSession
  <2>1. firedOnce \subseteq OncePerSession BY DEF Inv, TypeOK
  <2>2. Fires(calls[i].tool, says) => calls[i].tool \in OncePerSession
    BY DEF Fires, NoRetryTools, OncePerSession
  <2> QED BY <2>1, <2>2 DEF Result
<1>6. acted' \subseteq Steps \X (1..MaxCalls)
  <2>1. i \in 1..MaxCalls /\ step \in Steps BY <1>1, AgentLoopAssumption DEF Inv, TypeOK
  <2> QED BY <2>1 DEF Inv, TypeOK
<1>7. RefusalsAddUp' /\ refusals' \in 0..(Kinds + 1) BY SumStays
<1>8. TypeOK' BY <1>4, <1>5, <1>6, <1>7 DEF Inv, TypeOK, CallType
<1>9. CallsWhileRunning' /\ RemindedOnce' BY <1>1, <1>4 DEF Inv, CallsWhileRunning, RemindedOnce
<1> QED BY <1>7, <1>8, <1>9 DEF Inv

LEMMA ToolStepInv == Inv /\ ToolStep => Inv'
<1> SUFFICES ASSUME Inv, ToolStep PROVE Inv' OBVIOUS
<1>1. ASSUME NEW i \in DOMAIN calls, ToolReturns(i) PROVE Inv'
  BY <1>1, ToolEndsInv DEF ToolReturns
<1>2. ASSUME NEW i \in DOMAIN calls, ToolThrows(i) PROVE Inv'
  BY <1>2, ToolEndsInv DEF ToolThrows
<1>3. CASE CallsEnd
  <2>1. messages \in Seq(MessageType) /\ Results \in Seq(MessageType)
    <3>1. calls \in Seq(CallType) /\ Len(calls) <= MaxCalls /\ step \in Steps
      BY DEF Inv, TypeOK, CallType, CallsWhileRunning
    <3>2. ASSUME NEW i \in 1..Len(calls)
          PROVE  Entry("result", step, i, calls[i].says = "done") \in MessageType
      <4>1. i \in 0..MaxCalls BY <3>1, AgentLoopAssumption
      <4> QED BY <3>1, <4>1 DEF Entry, MessageType
    <3>3. Results \in [1..Len(calls) -> MessageType] BY <3>1, <3>2 DEF Results
    <3>4. Len(calls) \in Nat BY <3>1
    <3>5. Results \in Seq(MessageType) BY <3>3, <3>4
    <3> QED BY <3>5 DEF Inv, TypeOK, MessageType
  <2>2. messages' \in Seq(MessageType) BY <1>3, <2>1 DEF CallsEnd
  <2>3. noToolRetryCount' \in 0..1
    BY <1>3 DEF CallsEnd, answerVars, Inv, TypeOK, RemindedOnce
  <2> QED BY <1>3, <2>2, <2>3, StepEnds DEF CallsEnd, answerVars
<1> QED BY <1>1, <1>2, <1>3 DEF ToolStep

LEMMA NextInv == Inv /\ [Next]_vars => Inv'
<1>1. Inv /\ UNCHANGED vars => Inv'
  BY DEF vars, goalVars, requestVars, modeVars, toolVars, answerVars, Inv, TypeOK, RefusalsAddUp,
         StillRefusable, Pending, CallsWhileRunning, RemindedOnce
<1> QED BY <1>1, BeginInv, RefusalInv, ReplyInv, ToolStepInv DEF Next

-----------------------------------------------------------------------------
LEMMA InvBounds == Inv => LoopIsBounded
<1> SUFFICES ASSUME Inv PROVE LoopIsBounded OBVIOUS
<1>1. RequestsAreBounded
  BY DEF Inv, TypeOK, RefusalsAddUp, StillRefusable, Pending, RequestsAreBounded
<1>2. NothingRunsOn
  <2>1. Ended => DOMAIN calls = {} BY DEF Inv, CallsWhileRunning
  <2> QED BY <2>1 DEF NothingRunsOn
<1> QED BY <1>1, <1>2 DEF Inv, LoopIsBounded

(* However many steps a conversation may take and however many calls the   *)
(* model may make at once: a request is repeated without counting as an    *)
(* attempt once for each thing a provider may refuse, and no tool is still *)
(* running when the loop returns or throws and its caller releases the     *)
(* lock (application/agent-loop.ts).                                       *)
THEOREM ConversationIsBounded == Spec => []LoopIsBounded
<1>1. Spec => []Inv BY InitInv, NextInv, PTL DEF Spec
<1> QED BY <1>1, InvBounds, PTL

-----------------------------------------------------------------------------
(* What the model is told.  While tools run the last message is the one    *)
(* that called them; all before it, and otherwise the whole history, is    *)
(* complete.  What was done is in the history or at hand.                  *)

(* The first n messages are in order by themselves.                        *)
ValidUpTo(ms, n) ==
  \A k \in 1..n :
    /\ ms[k].type = "calls" =>
         /\ k + ms[k].call <= n
         /\ \A i \in 1..ms[k].call :
              ms[k + i].type = "result" /\ ms[k + i].step = ms[k].step /\ ms[k + i].call = i
    /\ ms[k].type = "result" =>
         /\ k - ms[k].call \in 1..n
         /\ ms[k - ms[k].call].type = "calls" /\ ms[k - ms[k].call].step = ms[k].step

HistoryGrows ==
  /\ Len(messages) > 0 /\ messages[1].type = "goal"
  /\ phase # "running" => ValidUpTo(messages, Len(messages))
  /\ phase = "running" =>
       /\ ValidUpTo(messages, Len(messages) - 1) /\ Len(calls) > 0
       /\ messages[Len(messages)] = Entry("calls", step, Len(calls), FALSE)

(* The n-th message makes m calls, and their results follow it.            *)
Answered(ms, n, m) ==
  /\ ms[n].type = "calls" /\ ms[n].call = m
  /\ \A i \in 1..m :
       ms[n + i].type = "result" /\ ms[n + i].step = ms[n].step /\ ms[n + i].call = i

(* A sequence of all results of the calls that message c makes.            *)
ResultsOf(rs, c) ==
  /\ c.type = "calls" /\ c.call = Len(rs) /\ Len(rs) > 0
  /\ \A i \in 1..Len(rs) : rs[i].type = "result" /\ rs[i].step = c.step /\ rs[i].call = i

IsTold(ms, a) == \E k \in DOMAIN ms : ms[k] = Entry("result", a[1], a[2], TRUE)

AtHand(a) ==
  phase = "running" /\ a[1] = step /\ a[2] \in DOMAIN calls /\ calls[a[2]].says = "done"

ToldOrAtHand == ~forgot => \A a \in acted : IsTold(messages, a) \/ AtHand(a)

HasResult(ms) == \E k \in DOMAIN ms : ms[k].type = "result"

SawMeansTold ==
  /\ sawToolCall /\ ~forgot /\ phase # "running" => HasResult(messages)
  /\ phase = "answered" => sawToolCall \/ ~mustUseRealTool

History == HistoryGrows /\ ToldOrAtHand /\ SawMeansTold

(* Messages that agree on a stretch are in order there alike.              *)
LEMMA ValidAlike ==
  ASSUME NEW ms \in Seq(MessageType), NEW ns \in Seq(MessageType), NEW n \in Nat,
         \A k \in 1..n : ns[k] = ms[k], n <= Len(ms), ValidUpTo(ms, n)
  PROVE  ValidUpTo(ns, n)
<1> SUFFICES ASSUME NEW k \in 1..n
             PROVE  /\ ns[k].type = "calls" =>
                         /\ k + ns[k].call <= n
                         /\ \A i \in 1..ns[k].call :
                              /\ ns[k + i].type = "result" /\ ns[k + i].step = ns[k].step
                              /\ ns[k + i].call = i
                    /\ ns[k].type = "result" =>
                         /\ k - ns[k].call \in 1..n
                         /\ ns[k - ns[k].call].type = "calls"
                         /\ ns[k - ns[k].call].step = ns[k].step
  BY DEF ValidUpTo
<1>1. ms[k] \in MessageType /\ ns[k] = ms[k] OBVIOUS
<1>2. ms[k].call \in Nat BY <1>1, AgentLoopAssumption DEF MessageType
<1>3. CASE ns[k].type = "calls"
  <2>1. /\ k + ms[k].call <= n
        /\ \A i \in 1..ms[k].call :
             ms[k + i].type = "result" /\ ms[k + i].step = ms[k].step /\ ms[k + i].call = i
    BY <1>1, <1>3 DEF ValidUpTo
  <2>2. \A i \in 1..ms[k].call : k + i \in 1..n BY <1>2, <2>1
  <2> QED BY <1>1, <1>3, <2>1, <2>2
<1>4. CASE ns[k].type = "result" BY <1>1, <1>4 DEF ValidUpTo
<1> QED BY <1>3, <1>4

(* Another message is in order if it neither calls nor is a result.        *)
LEMMA ValidWithOne ==
  ASSUME NEW ms \in Seq(MessageType), NEW n \in Nat, n + 1 <= Len(ms), ValidUpTo(ms, n),
         ms[n + 1].type \notin {"calls", "result"}
  PROVE  ValidUpTo(ms, n + 1)
<1>1. \A k \in 1..(n + 1) : k \in 1..n \/ k = n + 1 OBVIOUS
<1>2. \A k \in 1..n : ms[k].call \in Nat
  <2>1. \A k \in 1..n : ms[k] \in MessageType OBVIOUS
  <2> QED BY <2>1, AgentLoopAssumption DEF MessageType
<1> QED BY <1>1, <1>2 DEF ValidUpTo

(* And so is a message with calls, together with their results.            *)
LEMMA ValidWithResults ==
  ASSUME NEW ms \in Seq(MessageType), NEW n \in Nat, NEW m \in Nat,
         n + 1 + m <= Len(ms), ValidUpTo(ms, n), Answered(ms, n + 1, m)
  PROVE  ValidUpTo(ms, n + 1 + m)
<1> USE DEF Answered
<1> SUFFICES ASSUME NEW k \in 1..(n + 1 + m)
             PROVE  /\ ms[k].type = "calls" =>
                         /\ k + ms[k].call <= n + 1 + m
                         /\ \A i \in 1..ms[k].call :
                              /\ ms[k + i].type = "result" /\ ms[k + i].step = ms[k].step
                              /\ ms[k + i].call = i
                    /\ ms[k].type = "result" =>
                         /\ k - ms[k].call \in 1..(n + 1 + m)
                         /\ ms[k - ms[k].call].type = "calls"
                         /\ ms[k - ms[k].call].step = ms[k].step
  BY DEF ValidUpTo
<1>1. CASE k \in 1..n
  <2>1. ms[k] \in MessageType BY <1>1
  <2>2. ms[k].call \in Nat BY <2>1, AgentLoopAssumption DEF MessageType
  <2>3. ASSUME ms[k].type = "calls"
        PROVE  /\ k + ms[k].call <= n
               /\ \A i \in 1..ms[k].call :
                    /\ ms[k + i].type = "result" /\ ms[k + i].step = ms[k].step
                    /\ ms[k + i].call = i
    BY <1>1, <2>3 DEF ValidUpTo
  <2>4. k + ms[k].call <= n => k + ms[k].call <= n + 1 + m BY <2>2
  <2>5. ASSUME ms[k].type = "result"
        PROVE  /\ k - ms[k].call \in 1..n
               /\ ms[k - ms[k].call].type = "calls" /\ ms[k - ms[k].call].step = ms[k].step
    BY <1>1, <2>5 DEF ValidUpTo
  <2>6. 1..n \subseteq 1..(n + 1 + m) OBVIOUS
  <2> HIDE DEF Answered
  <2> QED BY <2>3, <2>4, <2>5, <2>6
<1>2. CASE k = n + 1 BY <1>2
<1>3. CASE k > n + 1
  <2>1. PICK i \in 1..m : k = n + 1 + i
    <3>1. k - (n + 1) \in 1..m /\ k = n + 1 + (k - (n + 1)) BY <1>3
    <3> QED BY <3>1
  <2>2. ms[k].type = "result" /\ ms[k].step = ms[n + 1].step /\ ms[k].call = i BY <2>1
  <2>3. k - ms[k].call = n + 1 BY <2>1, <2>2
  <2> QED BY <2>2, <2>3
<1> QED BY <1>1, <1>2, <1>3

(* A longer history tells what a shorter one told.                         *)
LEMMA ToldStays ==
  ASSUME NEW ms \in Seq(MessageType), NEW ns \in Seq(MessageType),
         Len(ms) <= Len(ns), \A k \in 1..Len(ms) : ns[k] = ms[k]
  PROVE  /\ \A a : IsTold(ms, a) => IsTold(ns, a)
         /\ HasResult(ms) => HasResult(ns)
<1>1. DOMAIN ms \subseteq DOMAIN ns /\ \A k \in DOMAIN ms : ns[k] = ms[k] OBVIOUS
<1>2. \A a : IsTold(ms, a) => IsTold(ns, a) BY <1>1 DEF IsTold
<1>3. HasResult(ms) => HasResult(ns) BY <1>1 DEF HasResult
<1> QED BY <1>2, <1>3


(* Two sequences in a row.                                                 *)
LEMMA LenIsNat == ASSUME NEW S, NEW s \in Seq(S) PROVE Len(s) \in Nat
OBVIOUS

LEMMA AppendFacts ==
  ASSUME NEW S, NEW s \in Seq(S), NEW e \in S
  PROVE  /\ Len(Append(s, e)) = Len(s) + 1
         /\ Append(s, e)[Len(s) + 1] = e
         /\ \A k \in 1..Len(s) : Append(s, e)[k] = s[k]
<1>1. Len(Append(s, e)) = Len(s) + 1 OBVIOUS
<1>2. Append(s, e)[Len(s) + 1] = e OBVIOUS
<1>3. \A k \in 1..Len(s) : Append(s, e)[k] = s[k] OBVIOUS
<1> QED BY <1>1, <1>2, <1>3

LEMMA ConcatFacts ==
  ASSUME NEW S, NEW s \in Seq(S), NEW t \in Seq(S)
  PROVE  /\ s \o t \in Seq(S)
         /\ Len(s \o t) = Len(s) + Len(t)
         /\ \A k \in 1..Len(s) : (s \o t)[k] = s[k]
         /\ \A i \in 1..Len(t) : (s \o t)[Len(s) + i] = t[i]
<1>1. s \o t \in Seq(S) OBVIOUS
<1>2. Len(s \o t) = Len(s) + Len(t) OBVIOUS
<1>3. \A k \in 1..Len(s) : (s \o t)[k] = s[k] OBVIOUS
<1>4. \A i \in 1..Len(t) : (s \o t)[Len(s) + i] = t[i] OBVIOUS
<1> QED BY <1>1, <1>2, <1>3, <1>4

(* What one more message makes of a history in order.                      *)
LEMMA OneMore ==
  ASSUME NEW ms \in Seq(MessageType), NEW e \in MessageType, Len(ms) > 0,
         ValidUpTo(ms, Len(ms)), NEW ns, ns = Append(ms, e)
  PROVE  /\ Len(ns) = Len(ms) + 1 /\ Len(ns) - 1 = Len(ms) /\ Len(ns) > 0
         /\ ns[1] = ms[1] /\ ns[Len(ns)] = e
         /\ ValidUpTo(ns, Len(ns) - 1)
         /\ e.type \notin {"calls", "result"} => ValidUpTo(ns, Len(ns))
         /\ \A a : IsTold(ms, a) => IsTold(ns, a)
         /\ HasResult(ms) => HasResult(ns)
<1> DEFINE n == Len(ms)
<1>1. n \in Nat BY LenIsNat
<1>2. ns \in Seq(MessageType) BY AppendInSeq
<1>3. Len(ns) = n + 1 /\ ns[n + 1] = e BY AppendFacts
<1>4. \A k \in 1..n : ns[k] = ms[k] BY AppendFacts
<1>5. n > 0 /\ n = Len(ms) /\ ValidUpTo(ms, n) OBVIOUS
<1> HIDE DEF n
<1>6. n + 1 - 1 = n /\ n + 1 > 0 /\ n <= n /\ n <= n + 1 /\ 1 \in 1..n BY <1>1, <1>5
<1>7. ns[1] = ms[1] BY <1>4, <1>6
<1>8. ValidUpTo(ns, n) BY <1>1, <1>2, <1>4, <1>5, <1>6, ValidAlike
<1>9. e.type \notin {"calls", "result"} => ValidUpTo(ns, n + 1)
  <2> SUFFICES ASSUME e.type \notin {"calls", "result"} PROVE ValidUpTo(ns, n + 1) OBVIOUS
  <2>1. n + 1 <= Len(ns) BY <1>1, <1>3
  <2>2. ns[n + 1].type \notin {"calls", "result"} BY <1>3
  <2> QED BY <1>1, <1>2, <1>8, <2>1, <2>2, ValidWithOne
<1>10. Len(ms) <= Len(ns) BY <1>1, <1>3, <1>5
<1>11. \A k \in 1..Len(ms) : ns[k] = ms[k] BY <1>4, <1>5
<1>12. (\A a : IsTold(ms, a) => IsTold(ns, a)) /\ (HasResult(ms) => HasResult(ns))
  BY <1>2, <1>10, <1>11, ToldStays
<1> QED BY <1>3, <1>5, <1>6, <1>7, <1>8, <1>9, <1>12

(* What the results of the last message make of one.                       *)
LEMMA ResultsMore ==
  ASSUME NEW ms \in Seq(MessageType), NEW rs \in Seq(MessageType),
         Len(ms) > 0, ValidUpTo(ms, Len(ms) - 1), ResultsOf(rs, ms[Len(ms)])
  PROVE  /\ Len(ms \o rs) > 0 /\ (ms \o rs)[1] = ms[1]
         /\ ValidUpTo(ms \o rs, Len(ms \o rs)) /\ HasResult(ms \o rs)
         /\ \A a : IsTold(ms, a) => IsTold(ms \o rs, a)
         /\ \A i \in 1..Len(rs) : \E k \in DOMAIN (ms \o rs) : (ms \o rs)[k] = rs[i]
<1> DEFINE ns == ms \o rs
<1> DEFINE n == Len(ms)
           m == Len(rs)
<1>1. n \in Nat BY LenIsNat
<1>2. m \in Nat BY LenIsNat
<1>3. ns \in Seq(MessageType) BY ConcatFacts
<1>4. Len(ns) = n + m BY ConcatFacts
<1>5. \A k \in 1..n : ns[k] = ms[k] BY ConcatFacts
<1>6. \A i \in 1..m : ns[n + i] = rs[i] BY ConcatFacts
<1>7. /\ n > 0 /\ n = Len(ms) /\ ValidUpTo(ms, n - 1) /\ m > 0 /\ m = Len(rs)
      /\ ms[n].type = "calls" /\ ms[n].call = m
  BY DEF ResultsOf
<1>8. \A i \in 1..m : rs[i].type = "result" /\ rs[i].step = ms[n].step /\ rs[i].call = i
  BY DEF ResultsOf
<1> HIDE DEF n, m, ns
<1>9. PICK q \in Nat : q = n - 1
  <2>1. n > 0 BY <1>7
  <2>2. n - 1 \in Nat BY <1>1, <2>1
  <2> QED BY <2>2
<1>10. /\ q + 1 = n /\ q + 1 + m = n + m /\ q <= n /\ 1 \in 1..n /\ n \in 1..n
       /\ n <= n + m /\ n + m > 0 /\ 1 \in 1..m
       /\ \A k \in 1..q : k \in 1..n
  BY <1>1, <1>2, <1>7, <1>9
<1>11. ValidUpTo(ns, q)
  <2>1. \A k \in 1..q : ns[k] = ms[k] BY <1>5, <1>10
  <2>2. ValidUpTo(ms, q) BY <1>7, <1>9
  <2> QED BY <1>3, <1>7, <1>10, <2>1, <2>2, ValidAlike
<1>12. ns[n] = ms[n] BY <1>5, <1>10
<1>13. \A i \in 1..m : /\ ns[n + i].type = "result" /\ ns[n + i].step = ns[n].step
                        /\ ns[n + i].call = i
  <2> TAKE i \in 1..m
  <2>1. ns[n + i] = rs[i] BY <1>6
  <2> QED BY <1>8, <1>12, <2>1
<1>14. ValidUpTo(ns, q + 1 + m)
  <2>1. q + 1 + m <= Len(ns) BY <1>1, <1>2, <1>4, <1>10
  <2>2. Answered(ns, n, m) BY <1>7, <1>12, <1>13 DEF Answered
  <2>3. Answered(ns, q + 1, m) BY <1>10, <2>2
  <2> QED BY <1>2, <1>3, <1>11, <2>1, <2>3, ValidWithResults
<1>15. ValidUpTo(ns, Len(ns)) BY <1>4, <1>10, <1>14
<1>16. \A i \in 1..m : n + i \in DOMAIN ns BY <1>1, <1>2, <1>3, <1>4
<1>17. HasResult(ns) BY <1>10, <1>13, <1>16 DEF HasResult
<1>18. \A a : IsTold(ms, a) => IsTold(ns, a)
  <2>1. Len(ms) <= Len(ns) BY <1>4, <1>7, <1>10
  <2>2. \A k \in 1..Len(ms) : ns[k] = ms[k] BY <1>5, <1>7
  <2> QED BY <1>3, <2>1, <2>2, ToldStays
<1>19. ns[1] = ms[1] BY <1>5, <1>10
<1>20. \A i \in 1..Len(rs) : \E k \in DOMAIN ns : ns[k] = rs[i] BY <1>6, <1>7, <1>16
<1> QED BY <1>4, <1>10, <1>15, <1>17, <1>18, <1>19, <1>20 DEF ns

LEMMA SeqTypes ==
  /\ Inv => messages \in Seq(MessageType) /\ calls \in Seq(CallType)
  /\ Inv' => messages' \in Seq(MessageType) /\ calls' \in Seq(CallType)
<1>1. Inv => messages \in Seq(MessageType) /\ calls \in Seq(CallType)
  BY DEF Inv, TypeOK, MessageType, CallType
<1>2. Inv' => messages' \in Seq(MessageType) /\ calls' \in Seq(CallType)
  BY DEF Inv, TypeOK, MessageType, CallType
<1> QED BY <1>1, <1>2

(* A step that leaves history and calls alone while no tool runs.          *)
LEMMA QuietStep ==
  ASSUME Inv, Inv', History, UNCHANGED <<messages, acted, forgot, sawToolCall, mustUseRealTool>>,
         phase # "running", phase' # "running",
         phase' = "answered" => sawToolCall \/ ~mustUseRealTool
  PROVE  History'
<1>1. HistoryGrows' BY DEF History, HistoryGrows
<1>2. ToldOrAtHand' BY DEF History, ToldOrAtHand, AtHand
<1>3. SawMeansTold' BY DEF History, SawMeansTold
<1> QED BY <1>1, <1>2, <1>3 DEF History

(* A system role that is refused before the first call costs nothing.      *)
LEMMA SystemRefusedHistory ==
  ASSUME Inv, Inv', History, SystemRefused PROVE History'
<1> USE DEF SystemRefused, requestVars, toolVars, answerVars, goalVars
<1>1. messages' = <<Entry("goal", 0, 0, FALSE)>> BY DEF BuildMessages
<1>2. Len(messages') = 1 /\ messages'[1] = Entry("goal", 0, 0, FALSE) BY <1>1
<1>3. messages'[1].type = "goal" BY <1>2 DEF Entry
<1>4. ValidUpTo(messages', Len(messages'))
  <2>1. \A k \in 1..1 : k = 1 OBVIOUS
  <2>2. ValidUpTo(messages', 1) BY <1>3, <2>1 DEF ValidUpTo
  <2> QED BY <1>2, <2>2
<1>5. Len(messages') > 0 BY <1>2
<1>6. phase' # "running" OBVIOUS
<1>7. HistoryGrows' BY <1>3, <1>4, <1>5, <1>6 DEF HistoryGrows
<1>8. ~forgot' => ~forgot /\ ~HasResult(messages)
  <2> SUFFICES ASSUME ~forgot' PROVE ~forgot /\ ~HasResult(messages) OBVIOUS
  <2> DEFINE n == Len(messages)
  <2>1. ~forgot /\ ~(n > 1) BY DEF Inv, TypeOK
  <2>2. messages \in Seq(MessageType) BY SeqTypes
  <2>3. n \in Nat BY <2>2, LenIsNat
  <2>4. DOMAIN messages = 1..n BY <2>2
  <2>5. messages[1].type = "goal" BY DEF History, HistoryGrows
  <2> HIDE DEF n
  <2>6. \A k \in 1..n : k = 1 BY <2>1, <2>3
  <2> QED BY <2>1, <2>4, <2>5, <2>6 DEF HasResult
<1>9. ToldOrAtHand'
  <2> SUFFICES ASSUME ~forgot', NEW a \in acted PROVE FALSE BY DEF ToldOrAtHand
  <2>1. IsTold(messages, a) BY <1>8 DEF History, ToldOrAtHand, AtHand
  <2>2. HasResult(messages) BY <2>1 DEF IsTold, HasResult, Entry
  <2> QED BY <1>8, <2>2
<1>10. SawMeansTold' BY <1>8 DEF History, SawMeansTold
<1> QED BY <1>7, <1>9, <1>10 DEF History

(* The model is reminded.                                                  *)
LEMMA RemindedHistory ==
  ASSUME Inv, Inv', History, UNCHANGED <<acted, forgot, sawToolCall, mustUseRealTool>>,
         messages' = Append(messages, Entry("reminder", step, 0, FALSE)),
         phase = "asking", phase' \in {"asking", "exhausted"}
  PROVE  History'
<1> DEFINE e == Entry("reminder", step, 0, FALSE)
<1>1. messages \in Seq(MessageType) BY SeqTypes
<1>2. e \in MessageType
  <2>1. step \in Steps /\ 0 \in 0..MaxCalls BY AgentLoopAssumption DEF Inv, TypeOK
  <2> QED BY <2>1 DEF Entry, MessageType
<1>3. e.type = "reminder" BY DEF Entry
<1>4. Len(messages) > 0 /\ messages[1].type = "goal" /\ ValidUpTo(messages, Len(messages))
  BY DEF History, HistoryGrows
<1>5. messages' = Append(messages, e) OBVIOUS
<1> HIDE DEF e
<1>6. /\ Len(messages') > 0 /\ messages'[1] = messages[1]
      /\ ValidUpTo(messages', Len(messages'))
      /\ \A a : IsTold(messages, a) => IsTold(messages', a)
      /\ HasResult(messages) => HasResult(messages')
  BY <1>1, <1>2, <1>3, <1>4, <1>5, OneMore
<1>7. HistoryGrows' BY <1>4, <1>6 DEF HistoryGrows
<1>8. ToldOrAtHand' BY <1>6 DEF History, ToldOrAtHand, AtHand
<1>9. SawMeansTold' BY <1>6 DEF History, SawMeansTold
<1> QED BY <1>7, <1>8, <1>9 DEF History

(* The model calls.                                                        *)
LEMMA CallsHistory ==
  ASSUME Inv, Inv', History, Calls PROVE History'
<1> USE DEF Calls, requestVars, goalVars
<1>1. PICK m \in 1..MaxCalls : \E tools \in [1..m -> Tools], invalid \in SUBSET (1..m) :
        /\ messages' = Append(messages, Entry("calls", step, m, FALSE))
        /\ calls' = [i \in 1..m |->
                      [tool |-> tools[i],
                       says |-> IF Blocked(tools, invalid, i) THEN "blocked" ELSE "running"]]
  OBVIOUS
<1>2. m \in Nat /\ m > 0 /\ Len(calls') = m BY <1>1, AgentLoopAssumption
<1> DEFINE e == Entry("calls", step, m, FALSE)
<1>3. messages \in Seq(MessageType) BY SeqTypes
<1>4. e \in MessageType
  <2>1. step \in Steps /\ m \in 0..MaxCalls BY <1>2, AgentLoopAssumption DEF Inv, TypeOK
  <2> QED BY <2>1 DEF Entry, MessageType
<1>5. Len(messages) > 0 /\ messages[1].type = "goal" /\ ValidUpTo(messages, Len(messages))
  BY DEF History, HistoryGrows
<1>6. messages' = Append(messages, e) BY <1>1
<1>7. e = Entry("calls", step, m, FALSE) OBVIOUS
<1> HIDE DEF e
<1>8. /\ Len(messages') > 0 /\ messages'[1] = messages[1] /\ messages'[Len(messages')] = e
      /\ ValidUpTo(messages', Len(messages') - 1)
      /\ \A a : IsTold(messages, a) => IsTold(messages', a)
  BY <1>3, <1>4, <1>5, <1>6, OneMore
<1>9. phase' = "running" /\ step' = step OBVIOUS
<1>10. HistoryGrows' BY <1>2, <1>5, <1>7, <1>8, <1>9 DEF HistoryGrows
<1>11. ToldOrAtHand' BY <1>8 DEF History, ToldOrAtHand, AtHand
<1>12. SawMeansTold' BY DEF SawMeansTold
<1> QED BY <1>10, <1>11, <1>12 DEF History

(* A tool has its result.                                                  *)
LEMMA ToolEndsHistory ==
  ASSUME Inv, Inv', History, phase = "running", NEW i \in DOMAIN calls,
         calls[i].says = "running", NEW says \in {"done", "failed", "blocked"}, Result(i, says),
         acted' = IF says = "done" THEN acted \cup {<<step, i>>} ELSE acted,
         UNCHANGED <<phase, goalVars, requestVars, messages, answerVars, forgot>>
  PROVE  History'
<1> USE DEF goalVars, requestVars, answerVars
<1>1. calls \in Seq(CallType) /\ i \in 1..Len(calls) BY SeqTypes
<1>2. /\ Len(calls') = Len(calls) /\ DOMAIN calls' = DOMAIN calls
      /\ \A j \in DOMAIN calls : j # i => calls'[j] = calls[j]
      /\ calls'[i] = [calls[i] EXCEPT !.says = says]
  BY <1>1 DEF Result
<1>3. calls'[i].says = says
  <2>1. calls[i] \in CallType BY <1>1
  <2> QED BY <1>2, <2>1 DEF CallType
<1>4. HistoryGrows' BY <1>2 DEF History, HistoryGrows
<1>5. ToldOrAtHand'
  <2> SUFFICES ASSUME ~forgot', NEW a \in acted' PROVE IsTold(messages', a) \/ AtHand(a)'
    BY DEF ToldOrAtHand
  <2>1. CASE a \in acted
    <3>1. IsTold(messages, a) \/ AtHand(a) BY <2>1 DEF History, ToldOrAtHand
    <3>2. AtHand(a) => a[2] # i BY DEF AtHand
    <3>3. AtHand(a) => AtHand(a)' BY <1>2, <3>2 DEF AtHand
    <3> QED BY <3>1, <3>3
  <2>2. CASE a \notin acted
    <3>1. says = "done" /\ a = <<step, i>> BY <2>2
    <3> QED BY <1>2, <1>3, <3>1 DEF AtHand
  <2> QED BY <2>1, <2>2
<1>6. SawMeansTold' BY DEF History, SawMeansTold
<1> QED BY <1>4, <1>5, <1>6 DEF History

(* All have; the results follow the message that called for them.          *)
LEMMA CallsEndHistory ==
  ASSUME Inv, Inv', History, CallsEnd PROVE History'
<1> USE DEF CallsEnd, goalVars, answerVars
<1> DEFINE m == Len(calls)
<1>1. messages \in Seq(MessageType) /\ calls \in Seq(CallType) BY SeqTypes
<1>2. m \in Nat BY <1>1, LenIsNat
<1>3. DOMAIN calls = 1..m BY <1>1
<1>4. m <= MaxCalls /\ step \in Steps BY DEF Inv, CallsWhileRunning, TypeOK
<1>5. /\ Len(messages) > 0 /\ messages[1].type = "goal"
      /\ ValidUpTo(messages, Len(messages) - 1) /\ m > 0
      /\ messages[Len(messages)] = Entry("calls", step, m, FALSE)
  BY DEF History, HistoryGrows
<1>6. Results = [i \in 1..m |-> Entry("result", step, i, calls[i].says = "done")]
  BY <1>3 DEF Results
<1> HIDE DEF m
<1>7. \A i \in 1..m : Entry("result", step, i, calls[i].says = "done") \in MessageType
  <2>1. \A i \in 1..m : i \in 0..MaxCalls BY <1>2, <1>4, AgentLoopAssumption
  <2>2. \A i \in 1..m : (calls[i].says = "done") \in BOOLEAN OBVIOUS
  <2> QED BY <1>4, <2>1, <2>2 DEF Entry, MessageType
<1>8. Results \in Seq(MessageType) /\ Len(Results) = m
  <2>1. Results \in [1..m -> MessageType] BY <1>6, <1>7
  <2> QED BY <1>2, <2>1
<1>9. \A i \in 1..m : Results[i] = Entry("result", step, i, calls[i].says = "done") BY <1>6
<1>10. ResultsOf(Results, messages[Len(messages)])
  BY <1>5, <1>8, <1>9 DEF Entry, ResultsOf
<1>11. messages' = messages \o Results OBVIOUS
<1>12. Results \in Seq(MessageType) BY <1>8
<1>13. Len(messages) > 0 /\ ValidUpTo(messages, Len(messages) - 1) BY <1>5
<1>14. /\ Len(messages') > 0 /\ messages'[1] = messages[1]
       /\ ValidUpTo(messages', Len(messages')) /\ HasResult(messages')
       /\ \A a : IsTold(messages, a) => IsTold(messages', a)
       /\ \A i \in 1..Len(Results) : \E k \in DOMAIN messages' : messages'[k] = Results[i]
  BY <1>1, <1>10, <1>11, <1>12, <1>13, ResultsMore
<1>15. phase' \in {"asking", "exhausted"} BY DEF NextStep, BeginStep
<1>16. HistoryGrows' BY <1>5, <1>14, <1>15 DEF HistoryGrows
<1>17. ToldOrAtHand'
  <2> SUFFICES ASSUME ~forgot', NEW a \in acted' PROVE IsTold(messages', a) BY DEF ToldOrAtHand
  <2>1. IsTold(messages, a) \/ AtHand(a) BY DEF History, ToldOrAtHand
  <2>2. CASE AtHand(a)
    <3>1. a[1] = step /\ a[2] \in 1..m /\ calls[a[2]].says = "done" BY <1>3, <2>2 DEF AtHand
    <3>2. Results[a[2]] = Entry("result", a[1], a[2], TRUE) BY <1>9, <3>1
    <3> QED BY <1>8, <1>14, <3>1, <3>2 DEF IsTold
  <2> QED BY <1>14, <2>1, <2>2
<1>18. SawMeansTold' BY <1>14, <1>15 DEF SawMeansTold
<1> QED BY <1>16, <1>17, <1>18 DEF History


LEMMA InitHistory == Init => History
<1> SUFFICES ASSUME Init PROVE History OBVIOUS
<1> USE DEF Init
<1>1. messages = <<Entry("goal", 0, 0, FALSE)>> BY DEF BuildMessages
<1>2. Len(messages) = 1 /\ messages[1] = Entry("goal", 0, 0, FALSE) BY <1>1
<1>3. messages[1].type = "goal" BY <1>2 DEF Entry
<1>4. ValidUpTo(messages, Len(messages))
  <2>1. \A k \in 1..1 : k = 1 OBVIOUS
  <2>2. ValidUpTo(messages, 1) BY <1>3, <2>1 DEF ValidUpTo
  <2> QED BY <1>2, <2>2
<1>5. Len(messages) > 0 BY <1>2
<1>6. phase = "starting" OBVIOUS
<1>7. HistoryGrows BY <1>3, <1>4, <1>5, <1>6 DEF HistoryGrows
<1>8. ToldOrAtHand BY DEF ToldOrAtHand
<1>9. SawMeansTold BY DEF SawMeansTold
<1> QED BY <1>7, <1>8, <1>9 DEF History

LEMMA SaysHistory ==
  ASSUME Inv, Inv', History, Says PROVE History'
<1> USE DEF Says, goalVars, modeVars, toolVars
<1>1. CASE /\ messages' = Append(messages, Entry("reminder", step, 0, FALSE)) /\ NextStep
  <2>1. phase' \in {"asking", "exhausted"} BY <1>1 DEF NextStep, BeginStep
  <2> QED BY <1>1, <2>1, RemindedHistory
<1>2. CASE phase' = "refused" /\ UNCHANGED messages
  BY <1>2, QuietStep
<1>3. CASE phase' = "answered" /\ UNCHANGED messages /\ ~(mustUseRealTool /\ ~sawToolCall)
  <2>1. sawToolCall \/ ~mustUseRealTool BY <1>3
  <2> QED BY <1>3, <2>1, QuietStep
<1> QED BY <1>1, <1>2, <1>3

LEMMA HistoryNext ==
  ASSUME Inv, Inv', History, [Next]_vars PROVE History'
<1> USE DEF goalVars, requestVars, modeVars, toolVars, answerVars
<1>1. CASE Begin
  <2>1. phase' \in {"asking", "failed"} BY <1>1 DEF Begin, BeginStep
  <2> QED BY <1>1, <2>1, QuietStep DEF Begin
<1>2. CASE Refusal
  <2>1. CASE SystemRefused BY <2>1, SystemRefusedHistory
  <2>2. CASE RequiredRefused BY <2>2, QuietStep DEF RequiredRefused
  <2>3. CASE ThinkingRefused BY <2>3, QuietStep DEF ThinkingRefused
  <2> QED BY <1>2, <2>1, <2>2, <2>3 DEF Refusal
<1>3. CASE Reply
  <2>1. CASE Overloaded
    <3>1. phase' \in {"asking", "failed"} BY <2>1 DEF Overloaded
    <3> QED BY <2>1, <3>1, QuietStep DEF Overloaded
  <2>2. NextStep => phase' \in {"asking", "exhausted"} BY DEF NextStep, BeginStep
  <2>3. CASE RateLimited BY <2>2, <2>3, QuietStep DEF RateLimited
  <2>4. CASE RequestFails BY <2>4, QuietStep DEF RequestFails
  <2>5. CASE SaysNothing BY <2>2, <2>5, QuietStep DEF SaysNothing
  <2>6. CASE Says BY <2>6, SaysHistory
  <2>7. CASE Calls BY <2>7, CallsHistory
  <2> QED BY <1>3, <2>1, <2>3, <2>4, <2>5, <2>6, <2>7 DEF Reply
<1>4. CASE ToolStep
  <2>1. ASSUME NEW i \in DOMAIN calls, ToolReturns(i) PROVE History'
    <3>1. PICK says \in {"done", "failed", "blocked"} :
            /\ Result(i, says)
            /\ acted' = IF says = "done" THEN acted \cup {<<step, i>>} ELSE acted
      BY <2>1 DEF ToolReturns
    <3> QED BY <2>1, <3>1, ToolEndsHistory DEF ToolReturns
  <2>2. ASSUME NEW i \in DOMAIN calls, ToolThrows(i) PROVE History'
    <3>1. acted' = IF "failed" = "done" THEN acted \cup {<<step, i>>} ELSE acted
      BY <2>2 DEF ToolThrows
    <3> QED BY <2>2, <3>1, ToolEndsHistory DEF ToolThrows
  <2>3. CASE CallsEnd BY <2>3, CallsEndHistory
  <2> QED BY <1>4, <2>1, <2>2, <2>3 DEF ToolStep
<1>5. CASE UNCHANGED vars
  BY <1>5 DEF vars, History, HistoryGrows, ToldOrAtHand, AtHand, SawMeansTold
<1> QED BY <1>1, <1>2, <1>3, <1>4, <1>5 DEF Next

LEMMA HistoryMeansTrue ==
  ASSUME Inv, History PROVE HistoryIsTrue
<1> DEFINE n == Len(messages)
<1>1. messages \in Seq(MessageType) BY SeqTypes
<1>2. n \in Nat BY <1>1, LenIsNat
<1>3. DOMAIN messages = 1..n BY <1>1
<1>4. HistoryIsValid
  <2> SUFFICES ASSUME phase = "asking", NEW k \in DOMAIN messages
               PROVE  /\ messages[k].type = "calls" =>
                           /\ k + messages[k].call <= n
                           /\ \A i \in 1..messages[k].call :
                                LET r == messages[k + i] IN
                                  /\ r.type = "result" /\ r.step = messages[k].step
                                  /\ r.call = i
                      /\ messages[k].type = "result" =>
                           LET j == k - messages[k].call IN
                             /\ j \in DOMAIN messages /\ messages[j].type = "calls"
                             /\ messages[j].step = messages[k].step
    BY DEF HistoryIsValid
  <2>1. ValidUpTo(messages, n) BY DEF History, HistoryGrows
  <2>2. k \in 1..n BY <1>3
  <2> QED BY <1>3, <2>1, <2>2 DEF ValidUpTo
<1>5. ActsAreTold BY DEF History, ToldOrAtHand, AtHand, IsTold, ActsAreTold
<1>6. AnswersRestOnResults BY DEF History, SawMeansTold, HasResult, AnswersRestOnResults
<1> QED BY <1>4, <1>5, <1>6 DEF HistoryIsTrue

(* However many steps and calls: whenever the model is asked, each message *)
(* with calls is followed by one result for each of them, in their order;  *)
(* what its calls did it has been told; and an answer that must rest on a  *)
(* tool rests on a result, unless the messages had to be built anew        *)
(* (application/agent-loop.ts).                                            *)
THEOREM HistoryHolds == Spec => []HistoryIsTrue
<1>1. Spec => []Inv BY InitInv, NextInv, PTL DEF Spec
<1>2. Inv /\ Inv' /\ History /\ [Next]_vars => History' BY HistoryNext
<1>3. Inv /\ History => HistoryIsTrue BY HistoryMeansTrue
<1>4. Init => History BY InitHistory
<1> QED BY <1>1, <1>2, <1>3, <1>4, PTL DEF Spec
===============================================================================
