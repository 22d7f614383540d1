----------------------------- MODULE AccessToken -----------------------------
(***************************************************************************)
(* The access token that the server's FCM client caches and uses for its   *)
(* pushes (server/internal/push/fcm.go). Requests of several commands call *)
(* SendWake at once; the mutex of the client is held while a new token is  *)
(* requested, and waiting for it does not end with the caller's context.   *)
(* Time is counted in steps of a few seconds.                              *)
(***************************************************************************)
EXTENDS Integers

CONSTANTS
    Caller,     \* goroutines that call SendWake
    NoCaller,   \* none of them
    Patience,   \* of the context that ensureDeviceConnected gives it: 12 s
    Margin,     \* before the end of a token at which it is not used: 60 s
    Default,    \* life of a token whose response does not tell it: 3600 s
    Lives,      \* what responses tell of the life of a token
    MaxTime     \* bound on the time

Life(told) == IF told <= 0 THEN Default ELSE told

ASSUME NoCallerAssumption == NoCaller \notin Caller
ASSUME PatienceAssumption == Patience \in Nat /\ Margin \in Nat /\ Patience <= Margin
\* No token ends before the request that it was made for.
ASSUME LivesAssumption ==
    /\ Lives \subseteq Int /\ Default \in Nat /\ MaxTime \in Nat
    /\ \A told \in Lives : Life(told) >= Patience

VARIABLES
    now,        \* the time
    holder,     \* who holds the mutex, NoCaller if nobody
    expiry,     \* field tokenExp, NoToken while there is no token
    valid,      \* until when the endpoint accepts the token of the client
    place,      \* Caller -> its place in SendWake
    due,        \* Caller -> when its context ends
    asked,      \* when the holder has asked for a token
    until       \* Caller -> until when the token it was given is accepted

tokenVars == <<now, holder, expiry, valid, place, due, asked, until>>

NoToken == -1

TokenTypeOK ==
    /\ now \in Nat /\ asked \in Nat
    /\ holder \in Caller \cup {NoCaller}
    /\ expiry \in Int /\ valid \in Int
    /\ place \in [Caller -> {"idle", "waiting", "asking", "pushing"}]
    /\ due \in [Caller -> Nat] /\ until \in [Caller -> Int]

TokenInit ==
    /\ now = 0 /\ asked = 0
    /\ holder = NoCaller
    /\ expiry = NoToken /\ valid = NoToken
    /\ place = [c \in Caller |-> "idle"]
    /\ due = [c \in Caller |-> 0]
    /\ until = [c \in Caller |-> NoToken]

Goes(c, p) == place' = [place EXCEPT ![c] = p]

\* SendWake returns.
Return(c) ==
    /\ Goes(c, "idle")
    /\ due' = [due EXCEPT ![c] = 0]
    /\ until' = [until EXCEPT ![c] = NoToken]

TimePasses ==
    /\ now < MaxTime
    /\ now' = now + 1
    /\ UNCHANGED <<holder, expiry, valid, place, due, asked, until>>

\* The client is enabled and the device has a token of its own.
CallSendWake(c) ==
    /\ place[c] = "idle"
    /\ due' = [due EXCEPT ![c] = now + Patience]
    /\ Goes(c, "waiting")
    /\ UNCHANGED <<now, holder, expiry, valid, asked, until>>

\* Mutant of Fresh: the token is used to its end.
FreshToTheEnd == expiry # NoToken /\ now < expiry

Fresh == expiry # NoToken /\ now < expiry - Margin

\* The mutex is free, however late that is; the context is not looked at.
UseCached(c) ==
    /\ place[c] = "waiting" /\ holder = NoCaller
    /\ Fresh
    /\ until' = [until EXCEPT ![c] = valid]
    /\ Goes(c, "pushing")
    /\ UNCHANGED <<now, holder, expiry, valid, due, asked>>

AskForToken(c) ==
    /\ place[c] = "waiting" /\ holder = NoCaller
    /\ ~Fresh
    /\ holder' = c
    /\ asked' = now
    /\ Goes(c, "asking")
    /\ UNCHANGED <<now, expiry, valid, due, until>>

\* The endpoint has made the token at some moment since it was asked; the client
\* counts from the moment that it asked.
ReceiveToken(c, told) ==
    /\ place[c] = "asking" /\ now <= due[c]
    /\ \E made \in asked..now : valid' = made + Life(told)
    /\ expiry' = asked + Life(told)
    /\ until' = [until EXCEPT ![c] = valid']
    /\ holder' = NoCaller
    /\ asked' = 0
    /\ Goes(c, "pushing")
    /\ UNCHANGED <<now, due>>

\* An error of the request, an answer that is no token, or the end of the context.
NoTokenComes(c) ==
    /\ place[c] = "asking"
    /\ holder' = NoCaller
    /\ asked' = 0
    /\ Return(c)
    /\ UNCHANGED <<now, expiry, valid>>

\* The push arrives, with whatever result, or the context has ended before.
Push(c) ==
    /\ place[c] = "pushing"
    /\ Return(c)
    /\ UNCHANGED <<now, holder, expiry, valid, asked>>

TokenNext ==
    \/ TimePasses
    \/ \E c \in Caller :
          \/ CallSendWake(c) \/ UseCached(c) \/ AskForToken(c)
          \/ \E told \in Lives : ReceiveToken(c, told)
          \/ NoTokenComes(c) \/ Push(c)

TokenSpec == TokenInit /\ [][TokenNext]_tokenVars

-----------------------------------------------------------------------------
\* As long as a push may still be under way, the token that it carries is accepted:
\* neither the wait for the mutex, nor a token that another request has replaced, nor
\* the time that the endpoint took to make it lets a push go out with a token that
\* has ended. (fcm.go:121-165, 171, 230-233)
UsedTokensAreValid ==
    \A c \in Caller : place[c] = "pushing" /\ now <= due[c] => now <= until[c]
=============================================================================
