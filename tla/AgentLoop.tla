------------------------------ MODULE AgentLoop ------------------------------
(***************************************************************************)
(* One conversation with the model (application/agent-loop.ts): the model  *)
(* is asked, its tool calls run in parallel, their results are added to    *)
(* the messages, and it is asked again, for a bounded number of steps.     *)
(* Providers reject roles and options, are overloaded, limit the rate, or  *)
(* answer nothing; the loop adapts, retries, or gives up.                  *)
(*                                                                         *)
(* A step of this module is what runs between two awaits: a request to the *)
(* model or a tool settles.  The waits before a retry belong to the        *)
(* request that follows.  What a tool does to the world is the subject of  *)
(* DeployGate and Liquidation; here it acts, fails, or is refused by the   *)
(* safety checks.  The model may call any tool, offered to its role or     *)
(* not: nothing looks at the name.  The ids of the calls of one message    *)
(* are distinct; a call is named by its step and its place.                *)
(***************************************************************************)
EXTENDS Naturals, Sequences

CONSTANTS MaxSteps,
          MaxCalls,  \* bound on the tool calls of one message
          Fallback   \* a fallback model other than the one in use is configured

ASSUME AgentLoopAssumption ==
  MaxSteps \in Nat \ {0} /\ MaxCalls \in Nat \ {0} /\ Fallback \in BOOLEAN

VARIABLES
  phase,             \* starting, asking, running (tools), or one of Ends
  insists,           \* the goal names an action: the first request requires a tool
  mustUseRealTool,   \* ... or needs live data: an answer without a tool is rejected
  step, attempt, usedModel, toolChoice,  \* the request in flight
  providerMode, omitToolChoice,          \* what the provider was found not to accept
  messages,          \* what the model is told
  calls,             \* the tool calls of its last message
  firedOnce, sawToolCall, noToolRetryCount,
  (* history *)
  refusals,          \* requests repeated without counting as an attempt
  acted,             \* calls that did something
  forgot             \* the messages were built anew after the first step

goalVars == <<insists, mustUseRealTool>>
requestVars == <<step, attempt, usedModel, toolChoice>>
modeVars == <<providerMode, omitToolChoice>>
toolVars == <<calls, firedOnce, acted>>
answerVars == <<sawToolCall, noToolRetryCount>>
vars == <<phase, goalVars, requestVars, modeVars, messages, toolVars, answerVars, refusals, forgot>>

(* deploy_position; close_position or swap_token, which are treated alike, *)
(* each name for itself; the others.                                       *)
Tools == {"deploy", "close", "other"}
OncePerSession == {"deploy", "close"}
NoRetryTools == {"deploy"}

Ends == {"answered", "refused", "exhausted", "failed"}
Ended == phase \in Ends

(* Requests of one step that fail with an answer. *)
Attempts == 3

(* What a message says to the properties: whether a call was done. *)
Entry(type, s, i, done) == [type |-> type, step |-> s, call |-> i, done |-> done]

(* buildMessages, in either mode. *)
BuildMessages == <<Entry("goal", 0, 0, FALSE)>>

(* What a provider can refuse: the system role, a required tool, a choice *)
(* of tools.                                                               *)
Kinds == 3
Repeated == refusals' = IF refusals <= Kinds THEN refusals + 1 ELSE refusals

(* The request of the next step. *)
BeginStep(s) ==
  /\ phase' = "asking"
  /\ step' = s /\ attempt' = 0 /\ usedModel' = "main"
  /\ toolChoice' = IF s = 0 /\ insists THEN "required" ELSE "auto"

NextStep ==
  \/ step + 1 < MaxSteps /\ BeginStep(step + 1)
  \/ step + 1 >= MaxSteps /\ phase' = "exhausted" /\ UNCHANGED requestVars

(* The wallet and the positions for the prompt have been read, or not. *)
Begin ==
  /\ phase = "starting"
  /\ \/ BeginStep(0)
     \/ phase' = "failed" /\ UNCHANGED requestVars
  /\ UNCHANGED <<goalVars, modeVars, messages, toolVars, answerVars, refusals, forgot>>

-----------------------------------------------------------------------------
(* The request fails.  What the provider does not accept is left out of    *)
(* the next request, which does not count as an attempt.                   *)

\* Mutant: the mode is not remembered.
SystemRefusedAgain ==
  /\ phase = "asking" /\ providerMode = "system" /\ Repeated
  /\ messages' = BuildMessages
  /\ forgot' = (forgot \/ Len(messages) > 1)
  /\ UNCHANGED <<phase, goalVars, requestVars, modeVars, toolVars, answerVars>>

(* The system role: the messages are built anew, without what was called. *)
SystemRefused ==
  /\ phase = "asking" /\ providerMode = "system" /\ Repeated
  /\ providerMode' = "user_embedded"
  /\ messages' = BuildMessages
  /\ forgot' = (forgot \/ Len(messages) > 1)
  /\ UNCHANGED <<phase, goalVars, requestVars, omitToolChoice, toolVars, answerVars>>

RequiredRefused ==
  /\ phase = "asking" /\ toolChoice = "required" /\ Repeated
  /\ toolChoice' = "auto"
  /\ UNCHANGED <<phase, goalVars, step, attempt, usedModel, modeVars, messages, toolVars,
                 answerVars, forgot>>

ThinkingRefused ==
  /\ phase = "asking" /\ ~omitToolChoice /\ Repeated
  /\ omitToolChoice' = TRUE
  /\ UNCHANGED <<phase, goalVars, requestVars, providerMode, messages, toolVars, answerVars, forgot>>

\* Mutant: the fallback model gets attempts of its own, each time.
OverloadedAfresh ==
  /\ phase = "asking"
  /\ attempt' = IF attempt = 1 /\ Fallback THEN 0 ELSE 1
  /\ usedModel' = IF attempt = 1 /\ Fallback THEN "fallback" ELSE usedModel
  /\ UNCHANGED <<phase, goalVars, step, toolChoice, modeVars, messages, toolVars, answerVars,
                 refusals, forgot>>

(* An answer that says overloaded: tried again, the last time with the     *)
(* fallback model.                                                         *)
Overloaded ==
  /\ phase = "asking"
  /\ \/ /\ attempt + 1 < Attempts
        /\ attempt' = attempt + 1
        /\ usedModel' = IF attempt = 1 /\ Fallback THEN "fallback" ELSE usedModel
        /\ UNCHANGED phase
     \/ /\ attempt + 1 = Attempts
        /\ phase' = "failed" /\ UNCHANGED <<attempt, usedModel>>
  /\ UNCHANGED <<goalVars, step, toolChoice, modeVars, messages, toolVars, answerVars, forgot, refusals>>

\* Mutant: after the wait the conversation starts again.
RateLimitedAfresh ==
  /\ phase = "asking"
  /\ NextStep
  /\ messages' = BuildMessages
  /\ UNCHANGED <<goalVars, modeVars, toolVars, answerVars, forgot, refusals>>

(* Too many requests: half a minute later the next step begins. *)
RateLimited ==
  /\ phase = "asking"
  /\ NextStep
  /\ UNCHANGED <<goalVars, modeVars, messages, toolVars, answerVars, forgot, refusals>>

(* Any other error, or an answer without choices, ends the loop. *)
RequestFails ==
  /\ phase = "asking"
  /\ phase' = "failed"
  /\ UNCHANGED <<goalVars, requestVars, modeVars, messages, toolVars, answerVars, forgot, refusals>>

-----------------------------------------------------------------------------
(* The model answers. *)

(* Neither text nor calls: the message is dropped, and the step is over. *)
SaysNothing ==
  /\ phase = "asking"
  /\ NextStep
  /\ UNCHANGED <<goalVars, modeVars, messages, toolVars, answerVars, forgot, refusals>>

\* Mutant: the model is believed once it was reminded.
SaysBelieved ==
  /\ phase = "asking"
  /\ IF mustUseRealTool /\ ~sawToolCall /\ noToolRetryCount = 0
     THEN /\ noToolRetryCount' = 1
          /\ messages' = Append(messages, Entry("reminder", step, 0, FALSE))
          /\ NextStep
     ELSE phase' = "answered" /\ UNCHANGED <<requestVars, messages, noToolRetryCount>>
  /\ UNCHANGED <<goalVars, modeVars, toolVars, sawToolCall, forgot, refusals>>

\* Mutant: one rejection too many.
SaysThrice ==
  /\ phase = "asking"
  /\ IF mustUseRealTool /\ ~sawToolCall
     THEN /\ noToolRetryCount' = noToolRetryCount + 1
          /\ \/ noToolRetryCount' >= 3 /\ phase' = "refused" /\ UNCHANGED <<requestVars, messages>>
             \/ /\ noToolRetryCount' < 3
                /\ messages' = Append(messages, Entry("reminder", step, 0, FALSE))
                /\ NextStep
     ELSE phase' = "answered" /\ UNCHANGED <<requestVars, messages, noToolRetryCount>>
  /\ UNCHANGED <<goalVars, modeVars, toolVars, sawToolCall, forgot, refusals>>

(* Text: the answer; but when a tool must be used and none was called, the *)
(* model is reminded, and the second time the request is refused.          *)
Says ==
  /\ phase = "asking"
  /\ IF mustUseRealTool /\ ~sawToolCall
     THEN /\ noToolRetryCount' = noToolRetryCount + 1
          /\ \/ noToolRetryCount' >= 2 /\ phase' = "refused" /\ UNCHANGED <<requestVars, messages>>
             \/ /\ noToolRetryCount' < 2
                /\ messages' = Append(messages, Entry("reminder", step, 0, FALSE))
                /\ NextStep
     ELSE phase' = "answered" /\ UNCHANGED <<requestVars, messages, noToolRetryCount>>
  /\ UNCHANGED <<goalVars, modeVars, toolVars, sawToolCall, forgot, refusals>>

(* A second deploy in one message. *)
Duplicate(tools, i) == tools[i] = "deploy" /\ \E j \in 1..(i - 1) : tools[j] = "deploy"

(* Second deploys, calls with arguments that cannot be repaired, and what  *)
(* was fired before do not run.                                            *)
Blocked(tools, invalid, i) ==
  Duplicate(tools, i) \/ i \in invalid \/ tools[i] \in firedOnce

(* Tool calls, some with invalid arguments: those that may run start. *)
Calls ==
  /\ phase = "asking"
  /\ \E n \in 1..MaxCalls : \E tools \in [1..n -> Tools], invalid \in SUBSET (1..n) :
       /\ messages' = Append(messages, Entry("calls", step, n, FALSE))
       /\ calls' = [i \in 1..n |->
                      [tool |-> tools[i],
                       says |-> IF Blocked(tools, invalid, i) THEN "blocked" ELSE "running"]]
  /\ phase' = "running" /\ sawToolCall' = TRUE
  /\ UNCHANGED <<goalVars, requestVars, modeVars, firedOnce, acted, noToolRetryCount, forgot, refusals>>

-----------------------------------------------------------------------------
(* Tools run. *)

(* What a result forbids for the rest of the loop: a deploy that was tried, *)
(* and a close or swap that succeeded.                                      *)
Fires(tool, says) ==
  \/ tool \in NoRetryTools /\ says # "blocked"
  \/ tool \in OncePerSession /\ says = "done"

Result(i, says) ==
  /\ calls' = [calls EXCEPT ![i].says = says]
  /\ firedOnce' = IF Fires(calls[i].tool, says) THEN firedOnce \cup {calls[i].tool} ELSE firedOnce

(* executeTool returns: done, failed, or blocked by a safety check. *)
ToolReturns(i) ==
  /\ phase = "running" /\ calls[i].says = "running"
  /\ \E says \in {"done", "failed", "blocked"} :
       /\ Result(i, says)
       /\ acted' = IF says = "done" THEN acted \cup {<<step, i>>} ELSE acted
  /\ UNCHANGED <<phase, goalVars, requestVars, modeVars, messages, answerVars, refusals, forgot>>

\* Mutant: an exception of one tool ends the loop.
ToolThrowsUncaught(i) ==
  /\ phase = "running" /\ calls[i].says = "running"
  /\ Result(i, "failed")
  /\ phase' = "failed"
  /\ UNCHANGED <<goalVars, requestVars, modeVars, messages, acted, answerVars, refusals, forgot>>

(* It throws: the exception becomes the result of this call alone. *)
ToolThrows(i) ==
  /\ phase = "running" /\ calls[i].says = "running"
  /\ Result(i, "failed")
  /\ UNCHANGED <<phase, goalVars, requestVars, modeVars, messages, acted, answerVars, refusals, forgot>>

\* Mutant: a lone call that was blocked gets no result.
ResultsOfRun ==
  [i \in {j \in DOMAIN calls : Len(calls) > 1 \/ calls[j].says # "blocked"} |->
     Entry("result", step, i, calls[i].says = "done")]

Results == [i \in DOMAIN calls |-> Entry("result", step, i, calls[i].says = "done")]

AllReturned == \A i \in DOMAIN calls : calls[i].says # "running"

(* Promise.all: every call has its result. *)
CallsEnd ==
  /\ phase = "running" /\ AllReturned
  /\ messages' = messages \o Results
  /\ calls' = << >>
  /\ NextStep
  /\ UNCHANGED <<goalVars, modeVars, firedOnce, acted, answerVars, refusals, forgot>>

-----------------------------------------------------------------------------
(* What the wording of the goal asks for; managers and screeners need not  *)
(* use a tool, whatever their goal says.                                   *)
GoalAsks ==
  insists \in BOOLEAN /\ mustUseRealTool \in BOOLEAN /\ (mustUseRealTool => insists)

Init ==
  /\ phase = "starting" /\ GoalAsks
  /\ step = 0 /\ attempt = 0 /\ usedModel = "main" /\ toolChoice = "auto"
  /\ providerMode = "system" /\ omitToolChoice = FALSE
  /\ messages = BuildMessages /\ calls = << >>
  /\ firedOnce = {} /\ sawToolCall = FALSE /\ noToolRetryCount = 0
  /\ refusals = 0 /\ acted = {} /\ forgot = FALSE

Refusal == SystemRefused \/ RequiredRefused \/ ThinkingRefused
Reply == Overloaded \/ RateLimited \/ RequestFails \/ SaysNothing \/ Says \/ Calls
ToolStep == \/ \E i \in DOMAIN calls : ToolReturns(i) \/ ToolThrows(i)
            \/ CallsEnd

Next == Begin \/ Refusal \/ Reply \/ ToolStep

Spec == Init /\ [][Next]_vars

(* Requests time out after five minutes and tools return in the end. *)
FairSpec == Spec /\ WF_vars(Next)

-----------------------------------------------------------------------------
Steps == 0..(MaxSteps - 1)

TypeOK ==
  /\ phase \in {"starting", "asking", "running"} \cup Ends
  /\ insists \in BOOLEAN /\ mustUseRealTool \in BOOLEAN
  /\ step \in Steps /\ attempt \in 0..(Attempts - 1)
  /\ usedModel \in {"main", "fallback"} /\ toolChoice \in {"required", "auto"}
  /\ providerMode \in {"system", "user_embedded"} /\ omitToolChoice \in BOOLEAN
  /\ messages \in Seq([type : {"goal", "calls", "result", "reminder"}, step : Steps,
                       call : 0..MaxCalls, done : BOOLEAN])
  /\ calls \in Seq([tool : Tools, says : {"running", "done", "failed", "blocked"}])
  /\ firedOnce \subseteq OncePerSession
  /\ sawToolCall \in BOOLEAN /\ noToolRetryCount \in 0..2
  /\ refusals \in 0..(Kinds + 1) /\ acted \subseteq Steps \X (1..MaxCalls) /\ forgot \in BOOLEAN

(* Whenever the model is asked, each message with tool calls is followed   *)
(* by one result for each of them, in their order, and by a result of      *)
(* nothing else: a history that providers accept, whatever was blocked,    *)
(* invalid, thrown or retried.                                             *)
HistoryIsValid ==
  phase = "asking" =>
    \A k \in DOMAIN messages :
      /\ messages[k].type = "calls" =>
           /\ k + messages[k].call <= Len(messages)
           /\ \A i \in 1..messages[k].call :
                LET r == messages[k + i] IN r.type = "result" /\ r.step = messages[k].step /\ r.call = i
      /\ messages[k].type = "result" =>
           LET j == k - messages[k].call IN
             j \in DOMAIN messages /\ messages[j].type = "calls" /\ messages[j].step = messages[k].step

(* The model is told of everything that its calls did before it goes on or *)
(* answers, unless the messages had to be built anew.                      *)
ActsAreTold ==
  phase \in {"asking", "answered"} /\ ~forgot =>
    \A a \in acted : \E k \in DOMAIN messages : messages[k] = Entry("result", a[1], a[2], TRUE)

(* An answer to a request for an action or live data rests on the result   *)
(* of a call, also when the model was reminded.                            *)
AnswersRestOnResults ==
  phase = "answered" /\ mustUseRealTool /\ ~forgot =>
    \E k \in DOMAIN messages : messages[k].type = "result"

(* However the provider behaves, what does not count as an attempt happens *)
(* once for each thing it may refuse in a loop: it cannot add up.          *)
RequestsAreBounded == refusals <= Kinds

(* When the loop returns or throws, no tool call of it is still running:   *)
(* its caller releases the lock of the cycle.                              *)
NothingRunsOn == Ended => \A i \in DOMAIN calls : calls[i].says # "running"

(* The loop comes to an end. *)
LoopEnds == <>Ended

(* The conversation stays within its bounds: types, requests that are      *)
(* repeated for nothing, and tools that run.                               *)
LoopIsBounded == TypeOK /\ RequestsAreBounded /\ NothingRunsOn

(* What the model is told is complete, in order, and what its answer rests *)
(* on.                                                                     *)
HistoryIsTrue == HistoryIsValid /\ ActsAreTold /\ AnswersRestOnResults
=============================================================================
