----------------------------- MODULE AuthorizeFlow -----------------------------
(***************************************************************************)
(* The consent of `account auth`: a loopback HTTP server on the configured *)
(* port waits for the browser to be sent back by the provider, for at most *)
(* DefaultAuthorizeTimeout.  The first result any request makes decides;   *)
(* the channel of results holds one, and a handler that finds it full      *)
(* waits.  Flows run one after the other or at the same time, and a        *)
(* consent page outlives the flow that opened it.                          *)
(***************************************************************************)
EXTENDS Naturals, Sequences, FiniteSets

CONSTANTS
    Flows, NoFlow,
    Calls               \* requests browsers make to the port

ASSUME NoFlowFresh == NoFlow \notin Flows

VARIABLES
    port,       \* the flow whose listener has the port
    flow,       \* where each flow is
    result,     \* its channel of results
    call,       \* where each request is
    pages       \* the flows whose consent page is open in a browser

authVars == <<port, flow, result, call, pages>>

\* The flow whose state a request has, and what else it has
\* ("other" is an error parameter, or no code: a failure either way).
Query == [state : Flows \union {NoFlow}, has : {"code", "other"}]
NoQuery == [state |-> NoFlow, has |-> "other"]

\* What a handler makes of a request: the query, and whether it is a code.
Verdict == [query : Query, ok : BOOLEAN]
NoVerdict == [query |-> NoQuery, ok |-> FALSE]

FlowPCs == {"start", "wait", "exchange", "drain", "returned"}
Flow == [pc : FlowPCs, took : Verdict, token : BOOLEAN]

CallPCs == {"unsent", "send", "flush", "answered", "cut"}
Call == [pc : CallPCs, to : Flows \union {NoFlow}, brings : Verdict]

\* The capacity of the channel.
ResultCap == 1

\* (mutant) The state of a request is not compared.
JudgeAnyState(f, q) == [query |-> q, ok |-> q.has = "code"]

\* callbackHandler: an error parameter, a foreign state or a missing code is a failure.
Judge(f, q) == [query |-> q, ok |-> q.has = "code" /\ q.state = f]

Active(f) == {c \in Calls : call[c].to = f /\ call[c].pc \in {"send", "flush"}}

-----------------------------------------------------------------------------
\* net.Listen, and the browser, or the user, opens the consent page.
Bind(f) ==
    /\ flow[f].pc = "start"
    /\ IF port = NoFlow
       THEN /\ port' = f
            /\ pages' = pages \union {f}
            /\ flow' = [flow EXCEPT ![f].pc = "wait"]
       ELSE /\ flow' = [flow EXCEPT ![f].pc = "returned"]
            /\ UNCHANGED <<port, pages>>
    /\ UNCHANGED <<result, call>>

\* A browser asks the port for something: a consent page that sends it back, once or
\* again, or anything else.
CallIn(c) ==
    /\ call[c].pc = "unsent"
    /\ port # NoFlow
    /\ \E q \in [state : pages, has : {"code"}] \union {NoQuery} :
           call' = [call EXCEPT ![c] = [pc |-> "send", to |-> port, brings |-> Judge(port, q)]]
    /\ UNCHANGED <<port, flow, result, pages>>

\* (mutant) The handler does not wait for room in the channel.
SendResultAnyway(c) ==
    /\ call[c].pc = "send"
    /\ result' = [result EXCEPT ![call[c].to] = Append(@, call[c].brings)]
    /\ call' = [call EXCEPT ![c].pc = "flush"]
    /\ UNCHANGED <<port, flow, pages>>

SendResult(c) ==
    /\ call[c].pc = "send"
    /\ Len(result[call[c].to]) < ResultCap
    /\ result' = [result EXCEPT ![call[c].to] = Append(@, call[c].brings)]
    /\ call' = [call EXCEPT ![c].pc = "flush"]
    /\ UNCHANGED <<port, flow, pages>>

\* The handler returns, and its page is sent.
Flush(c) ==
    /\ call[c].pc = "flush"
    /\ call' = [call EXCEPT ![c].pc = "answered"]
    /\ UNCHANGED <<port, flow, result, pages>>

\* Authorize returns: its deferred Shutdown closes the listener first.
Leave(f, token) ==
    /\ flow' = [flow EXCEPT ![f].pc = "drain", ![f].token = token]
    /\ port' = NoFlow

\* The first result: a code is exchanged, anything else is the end.
TakeResult(f) ==
    /\ flow[f].pc = "wait"
    /\ result[f] # <<>>
    /\ result' = [result EXCEPT ![f] = Tail(@)]
    /\ flow' = [flow EXCEPT ![f].pc = IF Head(result[f]).ok THEN "exchange" ELSE "drain",
                            ![f].took = Head(result[f])]
    /\ port' = IF Head(result[f]).ok THEN port ELSE NoFlow
    /\ UNCHANGED <<call, pages>>

\* The context is done, or Serve has failed.
GiveUpWaiting(f) ==
    /\ flow[f].pc = "wait"
    /\ Leave(f, FALSE)
    /\ UNCHANGED <<result, call, pages>>

Exchange(f) ==
    /\ flow[f].pc = "exchange"
    /\ \E granted \in BOOLEAN : Leave(f, granted)
    /\ UNCHANGED <<result, call, pages>>

\* (mutant) Shutdown waits for the handlers, however long they take.
ShutdownPatiently(f) ==
    /\ flow[f].pc = "drain"
    /\ Active(f) = {}
    /\ flow' = [flow EXCEPT ![f].pc = "returned"]
    /\ UNCHANGED <<port, result, call, pages>>

\* Shutdown waits for the handlers for two seconds; what is unanswered when the
\* process ends is cut.
Shutdown(f) ==
    /\ flow[f].pc = "drain"
    /\ flow' = [flow EXCEPT ![f].pc = "returned"]
    /\ call' = [c \in Calls |-> IF c \in Active(f) THEN [call[c] EXCEPT !.pc = "cut"] ELSE call[c]]
    /\ UNCHANGED <<port, result, pages>>

AuthInit ==
    /\ port = NoFlow
    /\ flow = [f \in Flows |-> [pc |-> "start", took |-> NoVerdict, token |-> FALSE]]
    /\ result = [f \in Flows |-> <<>>]
    /\ call = [c \in Calls |-> [pc |-> "unsent", to |-> NoFlow, brings |-> NoVerdict]]
    /\ pages = {}

FlowStep(f) == TakeResult(f) \/ GiveUpWaiting(f) \/ Exchange(f) \/ Shutdown(f)
CallStep(c) == SendResult(c) \/ Flush(c)

AuthNext ==
    \/ \E f \in Flows : Bind(f) \/ FlowStep(f)
    \/ \E c \in Calls : CallIn(c) \/ CallStep(c)

AuthSpec == AuthInit /\ [][AuthNext]_authVars

\* The deadline of the wait and of the exchange, and the two seconds of Shutdown.
FairAuthSpec == AuthSpec /\ \A f \in Flows : WF_authVars(FlowStep(f))

-----------------------------------------------------------------------------
(* Properties *)

\* Every variable stays in its range, and the port is a waiting flow's.
AuthTypeOK ==
    /\ port \in Flows \union {NoFlow}
    /\ flow \in [Flows -> Flow]
    /\ \A f \in Flows : Len(result[f]) <= ResultCap
    /\ call \in [Calls -> Call]
    /\ pages \subseteq Flows
    /\ \A f \in Flows : port = f <=> flow[f].pc \in {"wait", "exchange"}

\* A flow gets a token only for a code that came with its own state: never for the
\* consent to another flow that had the port before it, or for a reload of its page.
TokenOfOwnConsent ==
    \A f \in Flows :
        flow[f].token => flow[f].took.query = [state |-> f, has |-> "code"]

\* However many requests come in, and are stuck behind a result that nobody takes
\* any more, a flow that waits comes to its end.
FlowsReturn == \A f \in Flows : flow[f].pc = "wait" ~> flow[f].pc = "returned"
=============================================================================
