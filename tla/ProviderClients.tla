--------------------------- MODULE ProviderClients ---------------------------
(***************************************************************************)
(* internal/provider/*/client.go: how a client talks to its distributor.   *)
(* All five send a request up to a number of attempts, wait between them,  *)
(* and give up when the caller's deadline has passed. Besides, Mouser's    *)
(* turns to the next API key when one is over its quota; DigiKey's and     *)
(* TI's fetch an access token, keep it for a while and renew it once when  *)
(* it is refused; Microchip's fetches several pages.                       *)
(*                                                                         *)
(* A client is used by one lookup at a time. Contents are left out: an     *)
(* answer is what the code distinguishes of status and body, and a call    *)
(* fails with the answer that ended it. Time passes while the client waits *)
(* for an answer or a timer, and between calls, not between its own        *)
(* statements. How long a timer runs is not tied to the clock.             *)
(***************************************************************************)
EXTENDS Integers

CONSTANTS
  Kind,         \* the clients: a subset of Kinds
  MaxAttempts,
  NumKeys,      \* API keys of the Mouser client
  MaxPages,     \* pages the Microchip client fetches at most
  Backoff,      \* configured first delays
  DelayLimit,   \* the longest delay (30 s)
  HttpTimeout,  \* how long the HTTP client waits for an answer (30 s)
  Lifetime,     \* lifetimes a token may be issued with
  Margin,       \* how long before its end a token is renewed (30 s, 60 s)
  MaxCalls,     \* bound: calls made
  MaxTime,      \* bound: the clock
  None

Kinds == {"mouser", "digikey", "ti", "farnell", "microchip"}

(* A token, numbered by the call that got it and its request.              *)
Token == [number : Nat \X Nat, lifetime : Nat, dies : Nat, expires : Nat]

ASSUME ClientsAssumption ==
  /\ Kind \subseteq Kinds
  /\ MaxAttempts \in Nat \ {0}
  /\ NumKeys \in Nat \ {0}
  /\ MaxPages \in Nat \ {0}
  /\ DelayLimit \in Nat
  /\ Backoff \subseteq 1 .. DelayLimit
  /\ Margin \in Nat
  /\ HttpTimeout \in 0 .. Margin
  /\ Lifetime \subseteq Nat \ {0}
  /\ MaxCalls \in Nat
  /\ MaxTime \in Nat
  /\ None \notin Token

VARIABLES
  kind, backoff,                                     \* the configuration
  pc,                                                \* where the call is
  attempt, refreshed, page, bearer, tokenAttempt, delay,  \* its locals
  askedAt,        \* when its last request was sent
  keyIndex,       \* client.keyIndex, which outlives the call
  token,          \* client.accessToken, which outlives it too
  late,           \* the caller's deadline has passed
  result,         \* what the last call returned
  now, calls,
  heard           \* history: what happened in the call, for the properties

config == <<kind, backoff>>
tries == <<attempt, refreshed, page, bearer>>
locals == <<tries, tokenAttempt, delay, askedAt>>
kept == <<keyIndex, token>>
world == <<config, now, calls>>
vars == <<world, pc, locals, kept, late, result, heard>>

UsesToken == kind \in {"digikey", "ti"}

(* What a request may be answered. "daily" and "more" are Mouser's quota   *)
(* and Microchip's next page; "unreadable" is not Mouser's on a 5xx, which *)
(* it treats as the 5xx.                                                   *)
Transient == {"throttled", "unavailable", "transport"}
Permanent == {"unauthorized", "forbidden", "notFound", "bad", "unreadable"}

(* A request made after the deadline never gets through.                   *)
GetsThrough == heard.afterDeadline = 0

Answered(a) == pc = "sent" /\ (GetsThrough \/ a = "transport")

TokenAnswered(a) == pc = "asked" /\ (GetsThrough \/ a = "transport")

NoneHeard == [sent |-> 0, tokenSent |-> 0, failures |-> 0, afterDeadline |-> 0,
              refused |-> {}, spent |-> {}]

Init ==
  /\ kind \in Kind
  /\ backoff \in Backoff
  /\ pc = "idle"
  /\ attempt = 0
  /\ refreshed = FALSE
  /\ page = 0
  /\ bearer = None
  /\ tokenAttempt = 0
  /\ delay = 0
  /\ askedAt = 0
  /\ keyIndex = 1
  /\ token = None
  /\ late = FALSE
  /\ result = [why |-> "none", asking |-> "none"]
  /\ now = 0
  /\ calls = 0
  /\ heard = NoneHeard

Return(why, asking) ==
  /\ pc' = "idle"
  /\ attempt' = 0
  /\ refreshed' = FALSE
  /\ page' = 0
  /\ bearer' = None
  /\ tokenAttempt' = 0
  /\ delay' = 0
  /\ askedAt' = 0
  /\ result' = [why |-> why, asking |-> asking]

-----------------------------------------------------------------------------
(* The call, and its requests for products.                                *)

Call ==
  /\ pc = "idle"
  /\ calls < MaxCalls
  /\ calls' = calls + 1
  /\ pc' = IF UsesToken THEN "token" ELSE "send"
  /\ attempt' = 1
  /\ page' = 1
  /\ late' = FALSE
  /\ result' = [why |-> "none", asking |-> "none"]
  /\ heard' = [NoneHeard EXCEPT !.spent = heard.spent]
  /\ UNCHANGED <<config, now, refreshed, bearer, tokenAttempt, delay, askedAt, kept>>

(* What a sent request adds to the history.                                *)
AfterDeadline == heard.afterDeadline + (IF late THEN 1 ELSE 0)

Send ==
  /\ pc = "send"
  /\ pc' = "sent"
  /\ askedAt' = now
  /\ heard' = [heard EXCEPT !.sent = @ + 1, !.afterDeadline = AfterDeadline]
  /\ UNCHANGED <<world, tries, tokenAttempt, delay, kept, late, result>>

Succeeds ==
  /\ Answered("ok")
  /\ Return("ok", "product")
  /\ UNCHANGED <<world, kept, late, heard>>

(* Microchip: the next page, within the budget.                            *)
NextPage ==
  /\ Answered("more")
  /\ kind = "microchip"
  /\ IF page < MaxPages
       THEN /\ page' = page + 1
            /\ attempt' = 1
            /\ pc' = "send"
            /\ heard' = [heard EXCEPT !.failures = 0]
            /\ UNCHANGED <<refreshed, bearer, tokenAttempt, delay, askedAt, result>>
       ELSE Return("ok", "product") /\ UNCHANGED heard
  /\ UNCHANGED <<world, kept, late>>

HasNextKey == kind = "mouser" /\ keyIndex < NumKeys

SpentAfter(a) == heard.spent \cup (IF a = "daily" THEN {keyIndex} ELSE {})

(* Fault: after the last key comes the first again.                        *)
RotateKeyRound(a) ==
  /\ Answered(a)
  /\ kind = "mouser"
  /\ keyIndex' = (keyIndex % NumKeys) + 1
  /\ pc' = "send"
  /\ heard' = [heard EXCEPT !.spent = SpentAfter(a)]
  /\ UNCHANGED <<world, locals, token, late, result>>

(* Fault: turning to the next key counts as an attempt.                    *)
RotateKeyCounted(a) ==
  /\ Answered(a)
  /\ HasNextKey
  /\ keyIndex' = keyIndex + 1
  /\ IF attempt < MaxAttempts
       THEN /\ attempt' = attempt + 1
            /\ pc' = "send"
            /\ UNCHANGED <<refreshed, page, bearer, tokenAttempt, delay, askedAt, result>>
       ELSE Return(a, "product")
  /\ heard' = [heard EXCEPT !.spent = SpentAfter(a)]
  /\ UNCHANGED <<world, token, late>>

(* Mouser: a key that is throttled or over its quota is left for the next; *)
(* that does not count as an attempt.                                      *)
RotateKey(a) ==
  /\ Answered(a)
  /\ HasNextKey
  /\ keyIndex' = keyIndex + 1
  /\ pc' = "send"
  /\ heard' = [heard EXCEPT !.spent = SpentAfter(a)]
  /\ UNCHANGED <<world, locals, token, late, result>>

(* Mouser: the last key is over its daily quota.                           *)
QuotaSpent ==
  /\ Answered("daily")
  /\ kind = "mouser"
  /\ ~HasNextKey
  /\ heard' = [heard EXCEPT !.spent = SpentAfter("daily")]
  /\ Return("daily", "product")
  /\ UNCHANGED <<world, kept, late>>

(* Fault: the refused token stays in the client.                           *)
ClearTokenForgotten == UNCHANGED token

ClearToken == token' = None

(* Fault: every refusal makes the token be fetched anew.                   *)
RefreshTokenAgain ==
  /\ Answered("unauthorized")
  /\ UsesToken
  /\ ClearToken
  /\ refreshed' = TRUE
  /\ pc' = "token"
  /\ heard' = [heard EXCEPT !.refused = @ \cup {bearer}]
  /\ UNCHANGED <<world, attempt, page, bearer, tokenAttempt, delay, askedAt,
                 keyIndex, late, result>>

(* DigiKey, TI: the first refusal of a token makes it be fetched anew.     *)
RefreshToken ==
  /\ Answered("unauthorized")
  /\ UsesToken
  /\ ~refreshed
  /\ ClearToken
  /\ refreshed' = TRUE
  /\ pc' = "token"
  /\ heard' = [heard EXCEPT !.refused = @ \cup {bearer}]
  /\ UNCHANGED <<world, attempt, page, bearer, tokenAttempt, delay, askedAt,
                 keyIndex, late, result>>

-----------------------------------------------------------------------------
(* Failure and retry.                                                      *)

(* waitForRetry: the first delay, doubled n times until that would pass    *)
(* the limit.                                                              *)
Doubled[n \in Nat] ==
  IF n = 0 THEN backoff
  ELSE IF Doubled[n - 1] > DelayLimit \div 2 THEN DelayLimit ELSE 2 * Doubled[n - 1]

(* How long to wait after attempt n. Microchip's delay grows by the first, *)
(* without a limit.                                                        *)
Delay(n) == IF kind = "microchip" THEN backoff * n ELSE Doubled[n - 1]

(* Fault: a failed transport is retried without asking why it failed.      *)
DeadlineIgnored(a) == FALSE

(* ctx.Err() is asked when a request got no answer at all.                 *)
DeadlineSeen(a) == a = "transport" /\ late

FailsForNow(a) ==
  /\ Answered(a)
  /\ ~(a = "throttled" /\ HasNextKey)
  /\ heard' = [heard EXCEPT !.failures = @ + 1]
  /\ IF ~DeadlineSeen(a) /\ attempt < MaxAttempts
       THEN /\ delay' = Delay(attempt)
            /\ attempt' = attempt + 1
            /\ pc' = "wait"
            /\ UNCHANGED <<refreshed, page, bearer, tokenAttempt, askedAt, result>>
       ELSE Return(IF DeadlineSeen(a) THEN "timeout" ELSE a, "product")
  /\ UNCHANGED <<world, kept, late>>

(* Everything else ends the call; to Microchip 404 means no more records.  *)
FailsForGood(a) ==
  /\ Answered(a)
  /\ ~(a = "unauthorized" /\ UsesToken /\ ~refreshed)
  /\ Return(IF kind = "microchip" /\ a = "notFound" THEN "ok" ELSE a, "product")
  /\ UNCHANGED <<world, kept, late, heard>>

-----------------------------------------------------------------------------
(* DigiKey, TI: the token.                                                 *)

Fresh == token # None /\ now < token.expires

UseToken ==
  /\ pc = "token"
  /\ Fresh
  /\ bearer' = token
  /\ pc' = "send"
  /\ UNCHANGED <<world, attempt, refreshed, page, tokenAttempt, delay, askedAt,
                 kept, late, result, heard>>

AskForToken ==
  /\ \/ pc = "token" /\ ~Fresh /\ tokenAttempt' = 1
     \/ pc = "askAgain" /\ tokenAttempt' = tokenAttempt + 1
  /\ pc' = "asked"
  /\ askedAt' = now
  /\ heard' = [heard EXCEPT !.tokenSent = @ + 1, !.afterDeadline = AfterDeadline]
  /\ UNCHANGED <<world, tries, delay, kept, late, result>>

(* Fault: a token is kept to its very end.                                 *)
KeptForWhole(lifetime) == lifetime

KeptFor(lifetime) == IF lifetime > Margin THEN lifetime - Margin ELSE lifetime

(* The distributor issues a token, whose life begins then, at some instant *)
(* between request and answer; the client counts from the answer.          *)
TokenGranted ==
  /\ TokenAnswered("ok")
  /\ \E lifetime \in Lifetime, issued \in askedAt .. now :
       token' = [number |-> <<calls, heard.tokenSent>>,
                 lifetime |-> lifetime,
                 dies |-> issued + lifetime,
                 expires |-> now + KeptFor(lifetime)]
  /\ bearer' = token'
  /\ pc' = "send"
  /\ UNCHANGED <<world, attempt, refreshed, page, tokenAttempt, delay, askedAt,
                 keyIndex, late, result, heard>>

(* Only TI's loop tries again.                                             *)
TokenFails(a) ==
  /\ TokenAnswered(a)
  /\ IF kind = "ti" /\ a \in Transient /\ ~DeadlineSeen(a) /\ tokenAttempt < MaxAttempts
       THEN /\ delay' = Delay(tokenAttempt)
            /\ pc' = "waitToken"
            /\ UNCHANGED <<tries, tokenAttempt, askedAt, result>>
       ELSE Return(IF DeadlineSeen(a) THEN "timeout" ELSE a, "token")
  /\ UNCHANGED <<world, kept, late, heard>>

-----------------------------------------------------------------------------
(* Time.                                                                   *)

(* A timer may win over a deadline that passed while it ran.               *)
TimerFires ==
  /\ \/ pc = "wait" /\ pc' = IF UsesToken THEN "token" ELSE "send"
     \/ pc = "waitToken" /\ pc' = "askAgain"
  /\ delay' = 0
  /\ UNCHANGED <<world, tries, tokenAttempt, askedAt, kept, late, result, heard>>

WaitIsCutShort ==
  /\ pc \in {"wait", "waitToken"}
  /\ late
  /\ Return("timeout", IF pc = "wait" THEN "product" ELSE "token")
  /\ UNCHANGED <<world, kept, late, heard>>

DeadlinePasses ==
  /\ pc # "idle"
  /\ ~late
  /\ late' = TRUE
  /\ UNCHANGED <<world, pc, locals, kept, result, heard>>

(* An answer comes, or its request fails, before the HTTP client's timeout. *)
Tick ==
  /\ \/ pc \in {"idle", "wait", "waitToken"}
     \/ pc \in {"sent", "asked"} /\ now < askedAt + HttpTimeout
  /\ now < MaxTime
  /\ now' = now + 1
  /\ UNCHANGED <<config, calls, pc, locals, kept, late, result, heard>>

Next ==
  \/ Call \/ Send
  \/ Succeeds \/ NextPage \/ QuotaSpent \/ RefreshToken
  \/ \E a \in {"daily", "throttled"} : RotateKey(a)
  \/ \E a \in Transient : FailsForNow(a)
  \/ \E a \in Permanent : FailsForGood(a)
  \/ UseToken \/ AskForToken \/ TokenGranted
  \/ \E a \in Transient \cup Permanent : TokenFails(a)
  \/ TimerFires \/ WaitIsCutShort \/ DeadlinePasses \/ Tick

Spec == Init /\ [][Next]_vars

-----------------------------------------------------------------------------
(* Properties.                                                             *)

MostSent ==
  CASE kind = "mouser"    -> MaxAttempts + NumKeys - 1
    [] kind = "farnell"   -> MaxAttempts
    [] kind = "microchip" -> MaxPages * MaxAttempts
    [] OTHER              -> MaxAttempts + 1

MostTokensSent ==
  CASE kind = "ti"      -> MostSent * MaxAttempts
    [] kind = "digikey" -> MostSent
    [] OTHER            -> 0

(* Whatever the distributor answers, one call sends a bounded number of    *)
(* requests: the attempts that rotation of keys (mouser Search) and the    *)
(* renewal of a token (digikey apiGET, ti Product) give back are bounded   *)
(* by the keys and by one. No delay but Microchip's exceeds the limit.     *)
RequestsAreBounded ==
  /\ heard.sent <= MostSent
  /\ heard.tokenSent <= MostTokensSent
  /\ keyIndex <= NumKeys
  /\ kind # "microchip" => delay <= DelayLimit

(* No call gives up on a transient failure before all its attempts at one  *)
(* page have failed: another key or another token costs none. Only         *)
(* DigiKey's request for a token is not repeated.                          *)
NoEarlyGiveUp ==
  pc = "idle" /\ result.asking = "product" /\ result.why \in Transient
    => heard.failures = MaxAttempts

(* Once the caller's deadline has passed, a call sends at most one more    *)
(* request (a timer or an answer may have come first), and then reports    *)
(* the deadline and no failure of the distributor.                         *)
DeadlineEndsTheCall ==
  /\ heard.afterDeadline <= 1
  /\ pc = "idle" /\ heard.afterDeadline = 1 => result.why = "timeout"

(* A token the distributor refused is never presented again by the call    *)
(* that saw it refused (apiGET, Product: clearToken before the next        *)
(* attempt).                                                               *)
RefusedTokenIsNotReused == pc = "send" => bearer \notin heard.refused

(* A token longer-lived than the margin is still alive when it is          *)
(* presented, although its life began before the client started to count:  *)
(* token subtracts a margin no shorter than the HTTP client's timeout.     *)
PresentedTokenIsAlive ==
  pc = "send" /\ UsesToken /\ bearer.lifetime > Margin => now < bearer.dies

(* Every token presented is one the distributor should accept.             *)
PresentedTokenIsGood == RefusedTokenIsNotReused /\ PresentedTokenIsAlive

(* A key that reported its daily quota is used by no later request of this *)
(* or a later call, unless there is no key after it (mouser rotateKey).    *)
SpentKeyIsLeft ==
  pc = "send" /\ kind = "mouser" /\ keyIndex \in heard.spent => keyIndex = NumKeys
=============================================================================
