---------------------------- MODULE PduExchange ----------------------------
(***************************************************************************)
(* What the framed-transport trait promises its clients                    *)
(* (transport/framed.rs): a caller asks one request at a time; while the   *)
(* two ends are in step the ECU hears nothing but requests that were       *)
(* asked, whole, and an exchange returns nothing but the response the ECU  *)
(* gave to its request, whole.  A failed exchange may leave the ends out   *)
(* of step for good; then only the service of a response is checked.       *)
(* Frames, flow control and time-outs do not appear.                       *)
(***************************************************************************)
CONSTANTS
    Requests,     \* the request PDUs callers may ask
    Responses,    \* the PDUs an ECU may give
    Garbled, Mixed,  \* requests nobody asked, responses nobody gave
    AnswerTo(_),  \* the request a response answers
    Acceptable(_,_)  \* the transport's check of a response against a request

VARIABLES
    inStep,       \* nothing of an earlier exchange is still under way
    status,       \* of the exchange: "idle", "pending", "ok" or "err"
    asked,        \* requests asked so far
    current,      \* the request of the last exchange begun, as a set
    heard,        \* requests the ECU took
    given,        \* responses the ECU gave
    returned      \* the response of the last exchange, as a set

vars == <<inStep, status, asked, current, heard, given, returned>>

Init ==
    /\ inStep = TRUE
    /\ status = "idle"
    /\ asked = {} /\ current = {}
    /\ heard = {} /\ given = {}
    /\ returned = {}

(* Transport::exchange is called. *)
Ask(r) ==
    /\ status # "pending"
    /\ status' = "pending"
    /\ asked' = asked \cup {r}
    /\ current' = {r}
    /\ returned' = {}
    /\ UNCHANGED <<inStep, heard, given>>

(* A request the transport cannot carry is refused, and nothing is sent. *)
Refuse(r) ==
    /\ status # "pending"
    /\ status' = "err"
    /\ current' = {r}
    /\ returned' = {}
    /\ UNCHANGED <<inStep, asked, heard, given>>

(* The ECU takes a request: in step, one that was asked. *)
Hear ==
    /\ \E r \in (IF inStep THEN asked ELSE asked \cup Garbled) : heard' = heard \cup {r}
    /\ UNCHANGED <<inStep, status, asked, current, given, returned>>

(* The ECU gives a response to a request it took. *)
Give ==
    /\ \E p \in Responses : AnswerTo(p) \in heard /\ given' = given \cup {p}
    /\ UNCHANGED <<inStep, status, asked, current, heard, returned>>

(* The exchange returns an acceptable response: in step, the answer to it. *)
Return ==
    /\ status = "pending"
    /\ status' = "ok"
    /\ \E p \in (IF inStep THEN given ELSE given \cup Mixed), r \in current :
        /\ Acceptable(p, r)
        /\ inStep => AnswerTo(p) = r
        /\ returned' = {p}
    /\ inStep' \in {inStep, FALSE}
    /\ UNCHANGED <<asked, current, heard, given>>

(* The exchange returns an error. *)
Fail ==
    /\ status = "pending"
    /\ status' = "err"
    /\ inStep' = FALSE
    /\ UNCHANGED <<asked, current, heard, given, returned>>

(* The medium repeats something. *)
Disturb ==
    /\ inStep' = FALSE
    /\ UNCHANGED <<status, asked, current, heard, given, returned>>

Next ==
    \/ \E r \in Requests : Ask(r) \/ Refuse(r)
    \/ Hear
    \/ Give
    \/ Return
    \/ Fail
    \/ Disturb

Spec == Init /\ [][Next]_vars
============================================================================
