---------------------------------- MODULE Sdk ----------------------------------
(***************************************************************************)
(* sdk.py: trace_tool_call around a block of the agent's own code, the     *)
(* report it posts to the gateway when the block ends, and what the agent  *)
(* gets back.  The gateway's side is OtelIngest.                           *)
(*                                                                         *)
(* A report of OtelIngest is posted either through the SDK, one item each, *)
(* or by another client.  The request may never leave; it may also be      *)
(* read, logged and answered after the SDK stopped waiting for it.         *)
(***************************************************************************)
EXTENDS OtelIngest

CONSTANTS Blocks  \* how wrapped blocks end: see BlockAssumption

\* "ok": it completed; "raised": an Exception; "cancelled": a BaseException
\* that is none (KeyboardInterrupt, asyncio.CancelledError), which
\* trace_tool_call's `except Exception` lets by.
ASSUME BlockAssumption ==
  Blocks \subseteq {"ok", "raised", "cancelled"} /\ NoCall \notin Gateways

VARIABLE client  \* the SDK's side of each report

sdkVars == <<otelVars, client>>

NoClient == [stage |-> "none", at |-> NoCall]

SdkInit == OtelInit /\ client = [r \in Reports |-> NoClient]

\* The block ended, and the `finally` posts; raise_on_error is the client's.
\* record_tool_call alone is the same with a block that is "ok".
trace_tool_call(r, block, raise_on_error) ==
  /\ client[r] = NoClient /\ report[r].stage = "new"
  /\ client' = [client EXCEPT ![r] =
       [stage |-> "posting", at |-> NoCall, outcome |-> "pending",
        block |-> block, raise_on_error |-> raise_on_error]]
  /\ UNCHANGED otelVars

\* What the caller sees of the block when no reporting failure gets by.
Own(c) == IF c.block = "ok" THEN "returned" ELSE "own_exception"

\* _post turns the failure into BFAgentViewerReportError if raise_on_error;
\* trace_tool_call lets it through unless the block raised.
ReportFailed(c) ==
  IF c.raise_on_error /\ c.block # "raised" THEN "report_error" ELSE Own(c)

Finish(r, outcome) ==
  /\ client' = [client EXCEPT ![r].stage = "done", ![r].outcome = outcome]
  /\ UNCHANGED otelVars

\* json.dumps or Request raises TypeError or ValueError, before _post's `try`:
\* nothing is sent, and trace_tool_call, which catches BFAgentViewerReportError
\* alone, lets it out of its `finally`, over whatever the block raised.
Unsendable(r) ==
  /\ client[r].stage = "posting"
  /\ Finish(r, "encoding_error")

\* URLError: no connection, or the request could not be sent whole.
Unreachable(r) ==
  /\ client[r].stage = "posting"
  /\ Finish(r, ReportFailed(client[r]))

\* The request is with a gateway, which has yet to read it.
Send(r, g) ==
  /\ client[r].stage = "posting" /\ gw[g].mode = "up"
  /\ client' = [client EXCEPT ![r].stage = "sent", ![r].at = g]
  /\ UNCHANGED otelVars

Replies == {"202", "400", "401", "429", "500", "500_unannounced"}

\* The gateway's answer arrives: HTTPError unless it is the 202.
Answered(r) ==
  /\ client[r].stage = "sent" /\ report[r].stage \in Replies
  /\ Finish(r, IF report[r].stage = "202" THEN Own(client[r])
               ELSE ReportFailed(client[r]))

\* Mutant: _post catches every OSError as if nothing had been sent.
BrokenCaught(r) ==
  /\ client[r].stage = "sent"
  /\ Finish(r, ReportFailed(client[r]))

\* The timeout expires, or the connection is lost, while the SDK waits for the
\* response or reads it: urlopen raises TimeoutError or ConnectionError, which
\* are no URLError, so neither _post nor trace_tool_call catches them.
Broken(r) ==
  /\ client[r].stage = "sent"
  /\ Finish(r, "os_error")

\* The gateway reads a report: another client's, or one the SDK sent it, one
\* item each, whether or not the SDK still waits.
Readable(r) ==
  \/ client[r] = NoClient
  \/ client[r].at = report'[r].gw /\ Len(report'[r].body) = 1

\* A request is unread until a gateway reads it or dies with it.
Unread(r) ==
  /\ client[r].at # NoCall
  /\ report'[r].stage = "new" /\ gw'[client[r].at].mode = "up"

GatewaySide ==
  /\ OtelNext
  /\ \A r \in Reports :
       report[r].stage = "new" /\ report'[r].stage # "new" => Readable(r)
  /\ client' = [r \in Reports |-> IF Unread(r) THEN client[r]
                                  ELSE [client[r] EXCEPT !.at = NoCall]]

SdkStep ==
  \E r \in Reports :
    \/ \E block \in Blocks, strict \in BOOLEAN : trace_tool_call(r, block, strict)
    \/ \E g \in Gateways : Send(r, g)
    \/ Unsendable(r) \/ Unreachable(r) \/ Answered(r) \/ Broken(r)

SdkNext == SdkStep \/ GatewaySide

SdkSpec == SdkInit /\ [][SdkNext]_sdkVars

-------------------------------------------------------------------------------
Ended(r) == client[r].stage = "done"

\* A caller can act on what it gets back (sdk.py:66-71, 82-87, 127-186), with
\* requests the gateway reads late, answers it never gets to send, writes it is
\* refused and processes that die in the middle.  Under raise_on_error
\* BFAgentViewerReportError means that the call is in no log and never will
\* be, so reporting it again cannot log it twice, and a block that returned,
\* that it was logged.  An encoding error means that nothing was sent, and an
\* Exception of the block is never replaced by BFAgentViewerReportError.  It IS
\* replaced by an encoding error, and by the OSError of a connection lost after
\* the request was sent (the one outcome that leaves open whether the call was
\* logged): both contradict sdk.py:129-132, "a reporting failure inside the
\* `finally` below must never replace or mask whatever the wrapped block itself
\* raised".
ReportsTellTruth ==
  \A r \in Reports : Ended(r) =>
    /\ client[r].raise_on_error =>
         /\ client[r].outcome = "report_error" => LoggedItems(r) = {}
         /\ client[r].outcome = "returned" => LoggedItems(r) = {1}
    /\ client[r].outcome = "encoding_error" => LoggedItems(r) = {} /\ report[r].stage = "new"
    /\ client[r].block = "raised" => client[r].outcome # "report_error"
===============================================================================
