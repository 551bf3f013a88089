---------------------------- MODULE DashboardLogin ----------------------------
(***************************************************************************)
(* Logging in to the dashboard: OTPStore of app/web/auth.py and the routes *)
(* request-otp and verify-otp.  Requests interleave where a route awaits,  *)
(* which is only while a code is on its way to Telegram.                   *)
(*                                                                         *)
(* A code is the number of the request that made it, so that two requests  *)
(* never draw the same code; a time stamp is named by the code it was      *)
(* taken for.  Its age, in ticks, stops growing where the code no longer   *)
(* tells ages apart.                                                       *)
(***************************************************************************)
EXTENDS Integers, FiniteSets

CONSTANTS
  MaxRequests,   \* _MAX_OTP_REQUESTS
  Window,        \* _OTP_RATE_WINDOW_SECONDS, in ticks
  Ttl,           \* _OTP_TTL_SECONDS, in ticks
  CodeBound,     \* bound: codes drawn in a behaviour
  RestartBound   \* bound: restarts of the server

ASSUME LoginAssumption ==
  /\ MaxRequests \in Nat \ {0} /\ CodeBound \in Nat /\ RestartBound \in Nat
  /\ Window \in Nat \ {0} /\ Ttl \in 0 .. Window - 1

VARIABLES
  pending,     \* _pending of the configured chat: the code, or NoCode
  timestamps,  \* _request_timestamps: the codes whose stamps it holds
  age,         \* ticks since each code was drawn
  sending,     \* codes whose request awaits Telegram
  phone,       \* codes that have arrived
  drawn,       \* codes drawn so far
  issued,      \* history: the codes of this server process
  tries,       \* history: how often each code was compared with an answer
  sessions,    \* history: how many sessions each code has opened
  restarts

vars == <<pending, timestamps, age, sending, phone, drawn, issued, tries, sessions, restarts>>

Codes == 1 .. CodeBound
NoCode == 0
AnyAge == 0 .. Window

Older(a) == IF a < Window THEN a + 1 ELSE Window

-----------------------------------------------------------------------------
(* request-otp *)

\* Fault: the stamps are kept for the life of a code only.
RecentBriefly(stamps) == {c \in stamps : age[c] <= Ttl}

\* The stamps can_request keeps.
Recent(stamps) == {c \in stamps : age[c] < Window}

CanRequest(stamps) == Cardinality(Recent(stamps)) < MaxRequests

\* 429: the check has pruned the stamps.
Refused ==
  /\ ~CanRequest(timestamps)
  /\ timestamps' = Recent(timestamps)
  /\ UNCHANGED <<pending, age, sending, phone, drawn, issued, tries, sessions, restarts>>

\* A code is drawn, takes the place of the pending one, and is sent.
RequestOtp ==
  /\ CanRequest(timestamps) /\ drawn < CodeBound
  /\ drawn' = drawn + 1
  /\ pending' = drawn'
  /\ timestamps' = Recent(timestamps) \cup {drawn'}
  /\ age' = [age EXCEPT ![drawn'] = 0]
  /\ issued' = issued \cup {drawn'}
  /\ sending' = sending \cup {drawn'}
  /\ UNCHANGED <<phone, tries, sessions, restarts>>

\* Telegram answers: 200, or an error or a timeout, after which the message may
\* have arrived all the same.  What the browser is told changes nothing here.
SendEnds(c) ==
  /\ c \in sending
  /\ sending' = sending \ {c}
  /\ phone' \in {phone, phone \cup {c}}
  /\ UNCHANGED <<pending, timestamps, age, drawn, issued, tries, sessions, restarts>>

-----------------------------------------------------------------------------
(* verify-otp *)

\* Fault: the age is not looked at.
RightAnyTime(entry, c) == c = entry

Right(entry, c) == age[entry] <= Ttl /\ c = entry

\* An answer: a code that has arrived, or a number that was mistyped.  Right or
\* wrong, it takes the pending code away.
VerifyOtp(c) ==
  /\ c \in phone \cup {0}
  /\ pending # NoCode
  /\ pending' = NoCode
  /\ tries' = [tries EXCEPT ![pending] = @ + (IF age[pending] <= Ttl THEN 1 ELSE 0)]
  /\ sessions' = IF Right(pending, c) THEN [sessions EXCEPT ![c] = @ + 1] ELSE sessions
  /\ UNCHANGED <<timestamps, age, sending, phone, drawn, issued, restarts>>

-----------------------------------------------------------------------------
Tick ==
  /\ age' = [c \in Codes |-> IF c <= drawn THEN Older(age[c]) ELSE 0]
  /\ UNCHANGED <<pending, timestamps, sending, phone, drawn, issued, tries, sessions, restarts>>

\* The server process ends and starts again: the store is in its memory.
Restart ==
  /\ restarts < RestartBound
  /\ restarts' = restarts + 1
  /\ pending' = NoCode /\ timestamps' = {} /\ sending' = {} /\ issued' = {}
  /\ UNCHANGED <<age, phone, drawn, tries, sessions>>

Init ==
  /\ pending = NoCode /\ timestamps = {} /\ sending = {} /\ phone = {}
  /\ drawn = 0 /\ issued = {} /\ restarts = 0
  /\ age = [c \in Codes |-> 0]
  /\ tries = [c \in Codes |-> 0] /\ sessions = [c \in Codes |-> 0]

Next ==
  \/ RequestOtp \/ Refused \/ Tick \/ Restart
  \/ \E c \in sending : SendEnds(c)
  \/ \E c \in phone \cup {0} : VerifyOtp(c)

\* Time passes.
Spec == Init /\ [][Next]_vars /\ WF_vars(Tick)

-----------------------------------------------------------------------------
(* Properties *)

\* The shape of the store, and that the stamps never outgrow the limit.
TypeOK ==
  /\ pending \in Codes \cup {NoCode} /\ drawn \in 0 .. CodeBound
  /\ timestamps \subseteq Codes /\ Cardinality(timestamps) <= MaxRequests
  /\ age \in [Codes -> AnyAge]
  /\ sending \subseteq Codes /\ phone \subseteq Codes
  /\ issued \subseteq Codes /\ restarts \in 0 .. RestartBound
  /\ tries \in [Codes -> Nat] /\ sessions \in [Codes -> Nat]

\* Of the codes of one server process, whatever the requests, the refusals and
\* the failed sends between them, no window of 15 minutes holds more than five.
RateLimited == Cardinality({c \in issued : age[c] < Window}) <= MaxRequests

\* A code can be tried once, and so opens at most one session, however answers
\* and new requests interleave.
OneTryPerCode == \A c \in Codes : tries[c] <= 1 /\ sessions[c] <= tries[c]

\* A session opens only for the code drawn last, while it is young, in the
\* process that drew it.
FreshLogin ==
  [][\A c \in Codes : sessions'[c] > sessions[c] =>
        c = drawn /\ c \in issued /\ age[c] <= Ttl]_vars

\* A user who keeps asking is not refused for ever: refusals do not prolong the
\* limit.
LimitLifts == []<>CanRequest(timestamps)
=============================================================================
