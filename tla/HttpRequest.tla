----------------------------- MODULE HttpRequest -----------------------------
(***************************************************************************)
(* One HTTP request as getUrlFunc performs it (getUrl.ts): the answer, the *)
(* timeout and the caller's cancellation race for it.  The server may stop *)
(* answering at any point.                                                 *)
(***************************************************************************)
EXTENDS Naturals

VARIABLES
    timeout,    \* there is a timeout: options.timeout || req.timeout
    stage,      \* "unsent", "headers" (fetch), "body" (arrayBuffer) or "done"
    armed,      \* the timer runs
    aborted,    \* the AbortController has aborted
    cancelled,  \* the caller cancelled the request, before it was done
    due,        \* ethers is about to call the listener of the cancelled signal
    reply       \* "none", "answer", "error", "aborted" or "refused"

httpVars == <<timeout, stage, armed, aborted, cancelled, due, reply>>

InFlight == stage \in {"headers", "body"}

HttpInit ==
    /\ timeout \in BOOLEAN
    /\ stage = "unsent" /\ reply = "none"
    /\ armed = FALSE /\ aborted = FALSE /\ cancelled = FALSE /\ due = FALSE

\* The finally block stops the timer however the request ends.
End(how) == stage' = "done" /\ reply' = how /\ armed' = FALSE

\* 'request cancelled before sending': looked at only when there is a timeout.
SendRequest ==
    /\ stage = "unsent"
    /\ IF timeout /\ cancelled THEN End("refused")
       ELSE stage' = "headers" /\ armed' = timeout /\ UNCHANGED reply
    /\ UNCHANGED <<timeout, aborted, cancelled, due>>

\* Mutant: the timer is stopped as soon as fetch returns.
ArmedUntilHeaders == FALSE

\* The timer goes on until the body is there.
ArmedForBody == armed

Headers ==
    /\ stage = "headers" /\ ~aborted
    /\ stage' = "body"
    /\ armed' = ArmedForBody
    /\ UNCHANGED <<timeout, aborted, cancelled, due, reply>>

Body ==
    /\ stage = "body" /\ ~aborted
    /\ End("answer")
    /\ UNCHANGED <<timeout, aborted, cancelled, due>>

ConnectionFails ==
    /\ InFlight
    /\ End("error")
    /\ UNCHANGED <<timeout, aborted, cancelled, due>>

TimerFires ==
    /\ armed
    /\ armed' = FALSE /\ aborted' = TRUE
    /\ UNCHANGED <<timeout, stage, cancelled, due, reply>>

\* Mutant: no listener is added to the signal.
HeardNever == FALSE

\* The listener that aborts the controller is there while a timer is.
Heard == timeout /\ InFlight

\* ethers' FetchCancelSignal calls its listeners by a timer of 0 ms.
Cancel ==
    /\ stage # "done" /\ ~cancelled
    /\ cancelled' = TRUE
    /\ due' = Heard
    /\ UNCHANGED <<timeout, stage, armed, aborted, reply>>

\* The request may have ended meanwhile: nothing looks at the signal again.
Listener ==
    /\ due
    /\ due' = FALSE /\ aborted' = TRUE
    /\ UNCHANGED <<timeout, stage, armed, cancelled, reply>>

\* An aborted fetch or arrayBuffer rejects.
AbortRejects ==
    /\ InFlight /\ aborted
    /\ End("aborted")
    /\ UNCHANGED <<timeout, aborted, cancelled, due>>

Server == Headers \/ Body \/ ConnectionFails
Library == SendRequest \/ TimerFires \/ Listener \/ AbortRejects

-----------------------------------------------------------------------------
(* Properties *)

\* With a timeout a cancelled request is answered at most in the moment before ethers calls
\* its listener: one cancelled before it was sent, or whose listener was called, never is.
\* Without a timeout there is no listener (getUrl.ts, lines 32-50) and the answer comes.
CancelledIsAborted ==
    [][timeout /\ cancelled /\ reply' = "answer" => reply = "answer" \/ due]_httpVars
=============================================================================
