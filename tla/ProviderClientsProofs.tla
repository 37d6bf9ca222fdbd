------------------------ MODULE ProviderClientsProofs ------------------------
(***************************************************************************)
(* What one call of a client may cost and present, proved of every number  *)
(* of attempts, keys and pages, every first delay and token lifetime, and  *)
(* any number of calls.                                                    *)
(***************************************************************************)
EXTENDS ProviderClients, NaturalsLemmas

-----------------------------------------------------------------------------
(* The inductive invariant.                                                *)

Stages == {"idle", "token", "asked", "waitToken", "askAgain", "send", "sent", "wait"}

Failure == Transient \cup Permanent \cup {"daily", "timeout"}

Heard == [sent : Nat, tokenSent : Nat, failures : Nat, afterDeadline : Nat,
          refused : SUBSET Token, spent : SUBSET (1 .. NumKeys)]

TypeOK ==
  /\ kind \in Kind
  /\ backoff \in Backoff
  /\ pc \in Stages
  /\ attempt \in 0 .. MaxAttempts
  /\ page \in 0 .. MaxPages
  /\ bearer \in Token \cup {None}
  /\ tokenAttempt \in 0 .. MaxAttempts
  /\ delay \in Nat
  /\ kind # "microchip" => delay <= DelayLimit
  /\ askedAt \in Nat
  /\ keyIndex \in 1 .. NumKeys
  /\ token \in Token \cup {None}
  /\ result \in [why : Failure \cup {"ok", "none"}, asking : {"product", "token", "none"}]
  /\ now \in Nat
  /\ calls \in Nat
  /\ heard \in Heard

(* How often the client asks for one token.                                *)
TokenTries == IF kind = "ti" THEN MaxAttempts ELSE 1

(* Where a call can be, by what kind of client makes it.                   *)
StageInv ==
  /\ pc # "idle" => attempt >= 1 /\ page >= 1
  /\ pc \in {"token", "asked", "waitToken", "askAgain"} => UsesToken
  /\ pc \in {"asked", "waitToken", "askAgain"} => 1 <= tokenAttempt /\ tokenAttempt <= TokenTries
  /\ pc \in {"waitToken", "askAgain"} => tokenAttempt < TokenTries

(* Requests sent before the one that the attempt stands for: every earlier *)
(* attempt's, and those that did not count as one.                         *)
SentBefore ==
  CASE kind = "mouser"    -> attempt - 1 + (keyIndex - 1)
    [] kind = "farnell"   -> attempt - 1
    [] kind = "microchip" -> (page - 1) * MaxAttempts + (attempt - 1)
    [] OTHER              -> attempt - 1 + (IF refreshed THEN 1 ELSE 0)

SentInv ==
  IF pc = "idle" THEN heard.sent <= MostSent
  ELSE heard.sent <= SentBefore + (IF pc = "sent" THEN 1 ELSE 0)

(* Every request but the next had a token, at so many requests each.       *)
TokenSentInv ==
  IF UsesToken
    THEN heard.tokenSent <=
           IF pc = "idle" THEN MostSent * TokenTries
           ELSE heard.sent * TokenTries
                + (CASE pc = "send" -> TokenTries
                     [] pc \in {"asked", "waitToken", "askAgain"} -> tokenAttempt
                     [] OTHER -> 0)
    ELSE heard.tokenSent = 0

FailuresInv ==
  IF pc = "idle" THEN NoEarlyGiveUp ELSE heard.failures = attempt - 1

(* A request sent after the deadline is the last, and is out.              *)
DeadlineInv ==
  /\ heard.afterDeadline <= 1
  /\ heard.afterDeadline = 1 /\ pc = "idle" => result.why = "timeout"
  /\ heard.afterDeadline = 1 /\ pc # "idle" => late /\ pc \in {"sent", "asked"}

(* Tokens are told apart by when they were fetched; the one a request      *)
(* carries is the client's, and is none that was refused.                  *)
Fetched(t) ==
  \/ t.number[1] < calls
  \/ t.number[1] = calls /\ t.number[2] <= heard.tokenSent

TokenInv ==
  /\ token # None => Fetched(token)
  /\ \A t \in heard.refused :
       /\ Fetched(t)
       /\ t # token
       /\ pc = "asked" => t.number # <<calls, heard.tokenSent>>
  /\ UsesToken /\ pc \in {"send", "sent"} => bearer = token /\ token # None
  /\ ~UsesToken => heard.refused = {}

(* The client stops using a token before the distributor does.             *)
AliveInv ==
  /\ pc \in {"sent", "asked"} => askedAt <= now /\ now <= askedAt + HttpTimeout
  /\ token # None /\ token.lifetime > Margin => token.expires <= token.dies
  /\ PresentedTokenIsAlive

SpentInv ==
  \A k \in heard.spent : k <= keyIndex /\ (k = keyIndex => keyIndex = NumKeys)

IInv ==
  /\ TypeOK
  /\ StageInv
  /\ SentInv
  /\ TokenSentInv
  /\ FailuresInv
  /\ DeadlineInv
  /\ TokenInv
  /\ AliveInv
  /\ SpentInv

-----------------------------------------------------------------------------
(* The delays.                                                             *)

(* A delay that is doubled never passes the limit, however often it is:    *)
(* what waitForRetry's loop computes.                                      *)
LEMMA DelayIsLimited ==
  ASSUME backoff \in 1 .. DelayLimit
  PROVE  \A n \in Nat : Doubled[n] \in 0 .. DelayLimit
<1> DEFINE S == 0 .. DelayLimit
           step == [d \in S |-> IF d > DelayLimit \div 2 THEN DelayLimit ELSE 2 * d]
           Next1(f, n) == IF f[n - 1] > DelayLimit \div 2 THEN DelayLimit ELSE 2 * f[n - 1]
<1>1. DelayLimit \in Nat /\ backoff \in S
  BY ClientsAssumption
<1>2. step \in [S -> S]
  BY <1>1
<1>3. PICK f : Iterates(f, S, step, backoff)
  <2> HIDE DEF S, step
  <2> QED
    BY <1>1, <1>2, IterationExists
<1>4. \A n \in Nat : n # 0 => f[n] = Next1(f, n)
  <2> TAKE n \in Nat
  <2> HAVE n # 0
  <2>1. n - 1 \in Nat /\ (n - 1) + 1 = n
    OBVIOUS
  <2> QED
    BY <1>3, <2>1 DEF Iterates
<1>5. f = [n \in Nat |-> IF n = 0 THEN backoff ELSE Next1(f, n)]
  BY <1>3, <1>4 DEF Iterates
<1>6. Doubled = [n \in Nat |-> IF n = 0 THEN backoff ELSE Next1(Doubled, n)]
  BY <1>5, Zenon DEF Doubled
<1>7. ASSUME NEW n \in Nat, n # 0 PROVE Doubled[n] = Next1(Doubled, n)
  BY <1>6, <1>7
<1> DEFINE Bad == {n \in Nat : Doubled[n] \notin S}
<1> SUFFICES ASSUME Bad # {} PROVE FALSE
  OBVIOUS
<1>8. PICK n \in Bad : \A k \in Bad : n <= k
  BY LeastNat
<1>9. n # 0
  BY <1>1, <1>6, <1>8
<1>10. n - 1 \in Nat /\ n - 1 \notin Bad
  BY <1>8, <1>9
<1>11. Doubled[n] = Next1(Doubled, n)
  BY <1>7, <1>8, <1>9
<1> QED
  BY <1>1, <1>8, <1>10, <1>11

(* The wait after an attempt, of every client.                             *)
LEMMA DelayType ==
  ASSUME TypeOK, NEW n \in Nat \ {0}
  PROVE  Delay(n) \in Nat /\ (kind # "microchip" => Delay(n) <= DelayLimit)
<1>1. backoff \in 1 .. DelayLimit /\ DelayLimit \in Nat
  BY ClientsAssumption DEF TypeOK
<1>2. kind = "microchip" => Delay(n) \in Nat
  BY <1>1 DEF Delay
<1>3. n - 1 \in Nat
  OBVIOUS
<1>4. Doubled[n - 1] \in 0 .. DelayLimit
  BY <1>1, <1>3, DelayIsLimited
<1> QED
  BY <1>1, <1>2, <1>4 DEF Delay

-----------------------------------------------------------------------------
(* Types and stages.                                                       *)

LEMMA ReturnType ==
  ASSUME TypeOK, NEW why \in Failure \cup {"ok"}, NEW asking \in {"product", "token"},
         Return(why, asking),
         UNCHANGED <<config, now, calls>>,
         keyIndex' \in 1 .. NumKeys, token' \in Token \cup {None},
         heard' \in Heard
  PROVE  TypeOK' /\ StageInv'
<1>1. /\ kind' \in Kind /\ backoff' \in Backoff /\ now' \in Nat /\ calls' \in Nat
  BY DEF TypeOK, config
<1>2. /\ pc' = "idle" /\ attempt' \in 0 .. MaxAttempts
      /\ page' \in 0 .. MaxPages /\ bearer' \in Token \cup {None}
      /\ tokenAttempt' \in 0 .. MaxAttempts /\ delay' = 0 /\ askedAt' \in Nat
  BY ClientsAssumption DEF Return
<1>3. result' \in [why : Failure \cup {"ok", "none"}, asking : {"product", "token", "none"}]
  BY DEF Return
<1>4. TypeOK'
  BY <1>1, <1>2, <1>3, ClientsAssumption DEF TypeOK, Stages
<1>5. StageInv'
  BY <1>2 DEF StageInv
<1> QED
  BY <1>4, <1>5

(* What a request adds to the history, whichever it is.                    *)
LEMMA RequestType ==
  ASSUME TypeOK
  PROVE  /\ [heard EXCEPT !.sent = @ + 1, !.afterDeadline = AfterDeadline] \in Heard
         /\ [heard EXCEPT !.tokenSent = @ + 1, !.afterDeadline = AfterDeadline] \in Heard
<1>1. ASSUME NEW m \in Nat, NEW n \in Nat
      PROVE  /\ [heard EXCEPT !.sent = m, !.afterDeadline = n] \in Heard
             /\ [heard EXCEPT !.tokenSent = m, !.afterDeadline = n] \in Heard
  BY DEF TypeOK, Heard
<1>2. heard.sent + 1 \in Nat /\ heard.tokenSent + 1 \in Nat /\ AfterDeadline \in Nat
  BY DEF TypeOK, Heard, AfterDeadline
<1> QED
  BY <1>1, <1>2

LEMMA TypeNext ==
  ASSUME TypeOK, StageInv, TokenInv, Next
  PROVE  TypeOK' /\ StageInv'
<1> USE ClientsAssumption
<1>1. CASE Call
  <2>1. heard' \in Heard
    BY <1>1 DEF Call, NoneHeard, TypeOK, Heard
  <2>2. TypeOK'
    BY <1>1, <2>1 DEF Call, TypeOK, config, kept, Stages
  <2>3. StageInv'
    BY <1>1 DEF Call, StageInv, config, UsesToken
  <2> QED
    BY <2>2, <2>3
<1>2. CASE Send
  <2>1. heard' \in Heard
    BY <1>2, RequestType DEF Send
  <2>2. TypeOK'
    BY <1>2, <2>1 DEF Send, TypeOK, world, config, tries, kept, Stages
  <2>3. StageInv'
    BY <1>2 DEF Send, StageInv, world, config, tries, UsesToken
  <2> QED
    BY <2>2, <2>3
<1>3. CASE Succeeds
  BY <1>3, ReturnType DEF Succeeds, TypeOK, world, kept
<1>4. CASE NextPage
  <2>1. CASE page < MaxPages
    <3>1. heard' \in Heard
      BY <1>4, <2>1 DEF NextPage, TypeOK, Heard
    <3> QED
      BY <1>4, <2>1, <3>1
         DEF NextPage, TypeOK, StageInv, world, config, kept, Stages, UsesToken
  <2>2. CASE ~(page < MaxPages)
    BY <1>4, <2>2, ReturnType DEF NextPage, TypeOK, world, kept
  <2> QED
    BY <2>1, <2>2
<1>5. CASE QuotaSpent
  <2>1. heard' \in Heard
    BY <1>5 DEF QuotaSpent, TypeOK, SpentAfter, Heard
  <2> QED
    BY <1>5, <2>1, ReturnType DEF QuotaSpent, TypeOK, world, kept, Failure
<1>6. CASE RefreshToken
  <2>1. heard' \in Heard
    <3>1. bearer \in Token
      BY <1>6 DEF RefreshToken, Answered, TypeOK, TokenInv
    <3> QED
      BY <1>6, <3>1 DEF RefreshToken, TypeOK, Heard
  <2> QED
    BY <1>6, <2>1 DEF RefreshToken, ClearToken, TypeOK, StageInv, world, config, Stages,
                      UsesToken, Answered
<1>7. ASSUME NEW a \in {"daily", "throttled"}, RotateKey(a)
      PROVE  TypeOK' /\ StageInv'
  <2>1. heard' \in Heard
    BY <1>7 DEF RotateKey, SpentAfter, TypeOK, Heard
  <2> QED
    BY <1>7, <2>1 DEF RotateKey, HasNextKey, TypeOK, StageInv, world, config, locals,
                      tries, Stages, UsesToken, Answered
<1>8. ASSUME NEW a \in Transient, FailsForNow(a)
      PROVE  TypeOK' /\ StageInv'
  <2>1. heard' \in Heard
    BY <1>8 DEF FailsForNow, TypeOK, Heard
  <2>2. CASE ~DeadlineSeen(a) /\ attempt < MaxAttempts
    <3>1. Delay(attempt) \in Nat /\ (kind # "microchip" => Delay(attempt) <= DelayLimit)
      BY <1>8, DelayType DEF FailsForNow, Answered, TypeOK, StageInv
    <3> QED
      BY <1>8, <2>1, <2>2, <3>1
         DEF FailsForNow, TypeOK, StageInv, world, config, kept, Stages, UsesToken, Answered
  <2>3. CASE ~(~DeadlineSeen(a) /\ attempt < MaxAttempts)
    BY <1>8, <2>1, <2>3, ReturnType DEF FailsForNow, TypeOK, world, kept, Failure
  <2> QED
    BY <2>2, <2>3
<1>9. ASSUME NEW a \in Permanent, FailsForGood(a)
      PROVE  TypeOK' /\ StageInv'
  BY <1>9, ReturnType DEF FailsForGood, TypeOK, world, kept, Failure
<1>10. CASE UseToken
  BY <1>10 DEF UseToken, Fresh, TypeOK, StageInv, world, config, kept, Stages, UsesToken
<1>11. CASE AskForToken
  <2>1. heard' \in Heard
    BY <1>11, RequestType DEF AskForToken
  <2>2. /\ tokenAttempt' \in 0 .. MaxAttempts
        /\ 1 <= tokenAttempt' /\ tokenAttempt' <= TokenTries
    BY <1>11 DEF AskForToken, TypeOK, StageInv, TokenTries
  <2>3. TypeOK'
    BY <1>11, <2>1, <2>2 DEF AskForToken, TypeOK, world, config, tries, kept, Stages
  <2>4. StageInv'
    BY <1>11, <2>2 DEF AskForToken, StageInv, world, config, tries, UsesToken, TokenTries
  <2> QED
    BY <2>3, <2>4
<1>12. CASE TokenGranted
  <2>1. token' \in Token
    <3>1. PICK lifetime \in Lifetime, issued \in askedAt .. now :
            token' = [number |-> <<calls, heard.tokenSent>>,
                      lifetime |-> lifetime,
                      dies |-> issued + lifetime,
                      expires |-> now + KeptFor(lifetime)]
      BY <1>12 DEF TokenGranted
    <3>2. lifetime \in Nat /\ issued + lifetime \in Nat /\ now + KeptFor(lifetime) \in Nat
      BY DEF TypeOK, KeptFor
    <3>3. <<calls, heard.tokenSent>> \in Nat \X Nat
      BY DEF TypeOK, Heard
    <3> QED
      BY <3>1, <3>2, <3>3 DEF Token
  <2> QED
    BY <1>12, <2>1 DEF TokenGranted, TokenAnswered, TypeOK, StageInv, world, config,
                       Stages, UsesToken
<1>13. ASSUME NEW a \in Transient \cup Permanent, TokenFails(a)
       PROVE  TypeOK' /\ StageInv'
  <2>1. CASE kind = "ti" /\ a \in Transient /\ ~DeadlineSeen(a) /\ tokenAttempt < MaxAttempts
    <3>1. tokenAttempt \in Nat \ {0}
      BY <1>13 DEF TokenFails, TokenAnswered, TypeOK, StageInv
    <3>2. Delay(tokenAttempt) \in Nat /\ Delay(tokenAttempt) <= DelayLimit
      BY <2>1, <3>1, DelayType
    <3> QED
      BY <1>13, <2>1, <3>2
         DEF TokenFails, TokenAnswered, TypeOK, StageInv, world, config, tries, kept,
             Stages, UsesToken, TokenTries
  <2>2. CASE ~(kind = "ti" /\ a \in Transient /\ ~DeadlineSeen(a) /\ tokenAttempt < MaxAttempts)
    BY <1>13, <2>2, ReturnType DEF TokenFails, TypeOK, world, kept, Failure
  <2> QED
    BY <2>1, <2>2
<1>14. CASE TimerFires
  BY <1>14 DEF TimerFires, TypeOK, StageInv, world, config, tries, kept, Stages, UsesToken,
               TokenTries
<1>15. CASE WaitIsCutShort
  BY <1>15, ReturnType DEF WaitIsCutShort, TypeOK, world, kept, Failure
<1>16. CASE DeadlinePasses \/ Tick
  BY <1>16 DEF DeadlinePasses, Tick, TypeOK, StageInv, world, config, locals, tries, kept,
               Stages, UsesToken, TokenTries
<1> QED
  BY <1>1, <1>2, <1>3, <1>4, <1>5, <1>6, <1>7, <1>8, <1>9, <1>10, <1>11, <1>12, <1>13,
     <1>14, <1>15, <1>16 DEF Next

-----------------------------------------------------------------------------
(* Requests sent.                                                          *)

LEMMA Product ==
  ASSUME NEW a \in Nat, NEW b \in Nat, NEW m \in Nat, a <= b
  PROVE  a * m \in Nat /\ a * m <= b * m /\ (a + 1) * m = a * m + m
OBVIOUS

(* While a call is under way there is room for the attempt it stands at.   *)
LEMMA RoomForAttempt ==
  ASSUME TypeOK, StageInv, pc # "idle"
  PROVE  SentBefore \in Nat /\ SentBefore + 1 <= MostSent
<1>1. /\ attempt \in 1 .. MaxAttempts /\ page \in 1 .. MaxPages /\ keyIndex \in 1 .. NumKeys
      /\ MaxAttempts \in Nat /\ MaxPages \in Nat /\ NumKeys \in Nat
  BY ClientsAssumption DEF TypeOK, StageInv
<1>2. CASE kind = "microchip"
  <2>1. page - 1 \in Nat /\ page \in Nat /\ (page - 1) + 1 = page
    BY <1>1
  <2>2. /\ (page - 1) * MaxAttempts \in Nat
        /\ page * MaxAttempts = (page - 1) * MaxAttempts + MaxAttempts
        /\ page * MaxAttempts <= MaxPages * MaxAttempts
        /\ page * MaxAttempts \in Nat
        /\ MaxPages * MaxAttempts \in Nat
    BY <1>1, <2>1, Product
  <2> QED
    BY <1>1, <1>2, <2>2 DEF SentBefore, MostSent
<1>3. CASE kind # "microchip"
  BY <1>1, <1>3 DEF SentBefore, MostSent
<1> QED
  BY <1>2, <1>3

(* A call that ends has sent no more than it may.                          *)
LEMMA ReturnSent ==
  ASSUME TypeOK, StageInv, SentInv, pc # "idle",
         pc' = "idle", heard'.sent = heard.sent, kind' = kind
  PROVE  SentInv'
<1>1. heard.sent \in Nat /\ heard.sent <= SentBefore + 1
  BY RoomForAttempt DEF SentInv, TypeOK, Heard
<1>2. MostSent' = MostSent
  BY DEF MostSent
<1>3. MostSent \in Nat
  <2>1. MaxPages * MaxAttempts \in Nat
    BY ClientsAssumption, Product
  <2> QED
    BY <2>1, ClientsAssumption DEF MostSent
<1> QED
  BY <1>1, <1>2, <1>3, RoomForAttempt DEF SentInv

(* A step within an attempt.                                               *)
LEMMA SameAttemptSent ==
  ASSUME SentInv, pc \notin {"idle", "sent"}, pc' \notin {"idle", "sent"},
         heard'.sent = heard.sent,
         UNCHANGED <<kind, keyIndex, attempt, refreshed, page>>
  PROVE  SentInv'
BY DEF SentInv, SentBefore

LEMMA SentNext ==
  ASSUME TypeOK, StageInv, SentInv, Next
  PROVE  SentInv'
<1>1. CASE Call
  BY <1>1, ClientsAssumption
     DEF Call, NoneHeard, SentInv, SentBefore, TypeOK, UsesToken, config, kept
<1>2. CASE Send
  BY <1>2, RoomForAttempt
     DEF Send, SentInv, SentBefore, TypeOK, Heard, world, config, tries, kept
<1>3. CASE Succeeds
  BY <1>3, ReturnSent DEF Succeeds, Answered, Return, world, config
<1>4. CASE NextPage
  <2>1. CASE page < MaxPages
    <3>1. /\ heard.sent <= (page - 1) * MaxAttempts + (attempt - 1) + 1
          /\ kind' = "microchip" /\ pc' = "send"
          /\ page' = page + 1 /\ attempt' = 1 /\ heard'.sent = heard.sent
      BY <1>4, <2>1 DEF NextPage, Answered, SentInv, SentBefore, TypeOK, Heard, world, config
    <3>2. page - 1 \in Nat /\ (page - 1) + 1 = page /\ (page + 1) - 1 = page
      BY <1>4 DEF NextPage, Answered, TypeOK, StageInv
    <3>3. /\ page * MaxAttempts = (page - 1) * MaxAttempts + MaxAttempts
          /\ (page - 1) * MaxAttempts \in Nat
      BY <3>2, Product, ClientsAssumption
    <3> QED
      BY <3>1, <3>2, <3>3, ClientsAssumption DEF SentInv, SentBefore, TypeOK, Heard
  <2>2. CASE ~(page < MaxPages)
    BY <1>4, <2>2, ReturnSent DEF NextPage, Answered, Return, world, config
  <2> QED
    BY <2>1, <2>2
<1>5. CASE QuotaSpent
  BY <1>5, ReturnSent DEF QuotaSpent, Answered, Return, world, config, TypeOK, Heard
<1>6. CASE RefreshToken
  BY <1>6 DEF RefreshToken, Answered, SentInv, SentBefore, TypeOK, Heard, world, config,
              UsesToken
<1>7. ASSUME NEW a \in {"daily", "throttled"}, RotateKey(a)
      PROVE  SentInv'
  <2>1. /\ kind = "mouser" /\ kind' = "mouser" /\ pc = "sent" /\ pc' = "send"
        /\ keyIndex' = keyIndex + 1 /\ attempt' = attempt /\ heard'.sent = heard.sent
    BY <1>7 DEF RotateKey, HasNextKey, Answered, TypeOK, Heard, world, config, locals, tries
  <2>2. SentBefore' = SentBefore + 1
    BY <2>1 DEF SentBefore, TypeOK
  <2> QED
    BY <2>1, <2>2, RoomForAttempt DEF SentInv, TypeOK, Heard
<1>8. ASSUME NEW a \in Transient, FailsForNow(a)
      PROVE  SentInv'
  <2>1. heard'.sent = heard.sent /\ kind' = kind /\ keyIndex' = keyIndex /\ pc = "sent"
    BY <1>8 DEF FailsForNow, Answered, TypeOK, Heard, world, config, kept
  <2>2. CASE ~DeadlineSeen(a) /\ attempt < MaxAttempts
    <3>1. attempt' = attempt + 1 /\ pc' = "wait" /\ UNCHANGED <<refreshed, page>>
      BY <1>8, <2>2 DEF FailsForNow
    <3>2. SentBefore' = SentBefore + 1
      BY <2>1, <3>1, RoomForAttempt, ClientsAssumption DEF SentBefore, TypeOK
    <3> QED
      BY <2>1, <3>1, <3>2, RoomForAttempt DEF SentInv, TypeOK, Heard
  <2>3. CASE ~(~DeadlineSeen(a) /\ attempt < MaxAttempts)
    BY <1>8, <2>1, <2>3, ReturnSent DEF FailsForNow, Return
  <2> QED
    BY <2>2, <2>3
<1>9. ASSUME NEW a \in Permanent, FailsForGood(a)
      PROVE  SentInv'
  BY <1>9, ReturnSent DEF FailsForGood, Answered, Return, world, config
<1>10. CASE UseToken
  BY <1>10, SameAttemptSent DEF UseToken, world, config, kept
<1>11. CASE AskForToken
  BY <1>11, SameAttemptSent DEF AskForToken, world, config, tries, kept, TypeOK, Heard
<1>12. CASE TokenGranted
  BY <1>12, SameAttemptSent DEF TokenGranted, TokenAnswered, world, config
<1>13. ASSUME NEW a \in Transient \cup Permanent, TokenFails(a)
       PROVE  SentInv'
  BY <1>13, ReturnSent, SameAttemptSent
     DEF TokenFails, TokenAnswered, Return, world, config, tries, kept
<1>14. CASE TimerFires
  BY <1>14, SameAttemptSent DEF TimerFires, world, config, tries, kept
<1>15. CASE WaitIsCutShort
  BY <1>15, ReturnSent DEF WaitIsCutShort, Return, world, config
<1>16. CASE DeadlinePasses \/ Tick
  BY <1>16 DEF DeadlinePasses, Tick, SentInv, SentBefore, MostSent, world, config, locals,
               tries, kept
<1> QED
  BY <1>1, <1>2, <1>3, <1>4, <1>5, <1>6, <1>7, <1>8, <1>9, <1>10, <1>11, <1>12, <1>13,
     <1>14, <1>15, <1>16 DEF Next

-----------------------------------------------------------------------------
(* Requests for tokens.                                                    *)

(* What the requests sent so far and the next one may have cost in tokens. *)
LEMMA TokenRoom ==
  ASSUME TypeOK, StageInv, SentInv
  PROVE  /\ TokenTries \in Nat \ {0}
         /\ MostSent \in Nat
         /\ heard.sent <= MostSent
         /\ heard.sent * TokenTries \in Nat
         /\ (heard.sent + 1) * TokenTries = heard.sent * TokenTries + TokenTries
         /\ heard.sent * TokenTries <= MostSent * TokenTries
         /\ pc \notin {"idle", "sent"} =>
              heard.sent * TokenTries + TokenTries <= MostSent * TokenTries
<1>1. TokenTries \in Nat \ {0} /\ MostSent \in Nat /\ heard.sent \in Nat
  <2>1. MaxPages * MaxAttempts \in Nat
    BY ClientsAssumption, Product
  <2> QED
    BY <2>1, ClientsAssumption DEF TokenTries, MostSent, TypeOK, Heard
<1>2. heard.sent <= MostSent
  BY <1>1, RoomForAttempt DEF SentInv
<1>3. pc \notin {"idle", "sent"} => heard.sent + 1 <= MostSent
  BY <1>1, RoomForAttempt DEF SentInv
<1>4. pc \notin {"idle", "sent"} => (heard.sent + 1) * TokenTries <= MostSent * TokenTries
  BY <1>1, <1>3, Product
<1> QED
  BY <1>1, <1>2, <1>4, Product

LEMMA ReturnTokenSent ==
  ASSUME TypeOK, StageInv, SentInv, TokenSentInv, pc # "idle",
         pc' = "idle", heard'.tokenSent = heard.tokenSent, kind' = kind
  PROVE  TokenSentInv'
<1>1. MostSent' = MostSent /\ TokenTries' = TokenTries /\ UsesToken' = UsesToken
  BY DEF MostSent, TokenTries, UsesToken
<1>2. UsesToken => heard.tokenSent <= MostSent * TokenTries
  BY TokenRoom DEF TokenSentInv, StageInv, TypeOK, Heard
<1> QED
  BY <1>1, <1>2 DEF TokenSentInv

LEMMA TokenSentNext ==
  ASSUME TypeOK, StageInv, SentInv, TokenSentInv, Next
  PROVE  TokenSentInv'
<1> USE TokenRoom
<1>1. CASE Call
  BY <1>1 DEF Call, NoneHeard, TokenSentInv, TokenTries, TypeOK, UsesToken, config
<1>2. CASE Send
  BY <1>2 DEF Send, TokenSentInv, TokenTries, TypeOK, Heard, UsesToken, world, config
<1>3. CASE Succeeds
  BY <1>3, ReturnTokenSent DEF Succeeds, Answered, Return, world, config
<1>4. CASE NextPage
  BY <1>4, ReturnTokenSent
     DEF NextPage, Answered, Return, TokenSentInv, UsesToken, TypeOK, Heard, world, config
<1>5. CASE QuotaSpent
  BY <1>5, ReturnTokenSent DEF QuotaSpent, Answered, Return, world, config, TypeOK, Heard
<1>6. CASE RefreshToken
  BY <1>6 DEF RefreshToken, Answered, TokenSentInv, TokenTries, TypeOK, Heard, world,
              config, UsesToken
<1>7. ASSUME NEW a \in {"daily", "throttled"}, RotateKey(a)
      PROVE  TokenSentInv'
  BY <1>7 DEF RotateKey, HasNextKey, Answered, TokenSentInv, TypeOK, Heard, UsesToken,
              world, config
<1>8. ASSUME NEW a \in Transient, FailsForNow(a)
      PROVE  TokenSentInv'
  <2>1. /\ heard'.tokenSent = heard.tokenSent /\ heard'.sent = heard.sent
        /\ kind' = kind /\ pc = "sent"
    BY <1>8 DEF FailsForNow, Answered, TypeOK, Heard, world, config
  <2>2. CASE pc' = "wait"
    BY <2>1, <2>2 DEF TokenSentInv, TokenTries, UsesToken
  <2>3. CASE pc' = "idle"
    BY <2>1, <2>3, ReturnTokenSent
  <2> QED
    BY <1>8, <2>2, <2>3 DEF FailsForNow, Return
<1>9. ASSUME NEW a \in Permanent, FailsForGood(a)
      PROVE  TokenSentInv'
  BY <1>9, ReturnTokenSent DEF FailsForGood, Answered, Return, world, config
<1>10. CASE UseToken \/ TokenGranted
  BY <1>10 DEF UseToken, TokenGranted, TokenAnswered, TokenSentInv, TokenTries, UsesToken,
               StageInv, TypeOK, Heard, world, config
<1>11. CASE AskForToken
  BY <1>11 DEF AskForToken, TokenSentInv, TokenTries, UsesToken, StageInv, TypeOK, Heard,
               world, config
<1>12. ASSUME NEW a \in Transient \cup Permanent, TokenFails(a)
       PROVE  TokenSentInv'
  <2>1. heard' = heard /\ kind' = kind /\ pc = "asked"
    BY <1>12 DEF TokenFails, TokenAnswered, world, config
  <2>2. CASE pc' = "waitToken" /\ tokenAttempt' = tokenAttempt
    BY <2>1, <2>2 DEF TokenSentInv, TokenTries, UsesToken
  <2>3. CASE pc' = "idle"
    BY <2>1, <2>3, ReturnTokenSent
  <2> QED
    BY <1>12, <2>2, <2>3 DEF TokenFails, Return
<1>13. CASE TimerFires
  BY <1>13 DEF TimerFires, TokenSentInv, TokenTries, UsesToken, StageInv, world, config
<1>14. CASE WaitIsCutShort
  BY <1>14, ReturnTokenSent DEF WaitIsCutShort, Return, world, config
<1>15. CASE DeadlinePasses \/ Tick
  BY <1>15 DEF DeadlinePasses, Tick, TokenSentInv, TokenTries, MostSent, UsesToken, world,
               config, locals
<1> QED
  BY <1>1, <1>2, <1>3, <1>4, <1>5, <1>6, <1>7, <1>8, <1>9, <1>10, <1>11, <1>12, <1>13,
     <1>14, <1>15 DEF Next

-----------------------------------------------------------------------------
(* Failures: every one of an attempt that counts, and no other.            *)

LEMMA FailuresNext ==
  ASSUME TypeOK, StageInv, FailuresInv, Next
  PROVE  FailuresInv'
<1> USE DEF FailuresInv, NoEarlyGiveUp
<1>1. CASE Call
  BY <1>1 DEF Call, NoneHeard
<1>2. CASE Send \/ AskForToken
  BY <1>2 DEF Send, AskForToken, TypeOK, Heard, tries
<1>3. CASE NextPage
  BY <1>3 DEF NextPage, Answered, Return, TypeOK, Heard, Transient
<1>4. CASE RefreshToken
  BY <1>4 DEF RefreshToken, Answered, TypeOK, Heard
<1>5. ASSUME NEW a \in {"daily", "throttled"}, RotateKey(a)
      PROVE  FailuresInv'
  BY <1>5 DEF RotateKey, Answered, TypeOK, Heard, locals, tries
<1>6. ASSUME NEW a \in Transient, FailsForNow(a)
      PROVE  FailuresInv'
  <2>1. heard'.failures = heard.failures + 1 /\ heard.failures = attempt - 1
    BY <1>6 DEF FailsForNow, Answered, TypeOK, Heard
  <2>2. CASE ~DeadlineSeen(a) /\ attempt < MaxAttempts
    BY <1>6, <2>1, <2>2 DEF FailsForNow, TypeOK, Heard
  <2>3. CASE DeadlineSeen(a)
    BY <1>6, <2>3 DEF FailsForNow, Return, Transient
  <2>4. CASE ~DeadlineSeen(a) /\ ~(attempt < MaxAttempts)
    <3>1. attempt = MaxAttempts
      BY <2>4, ClientsAssumption DEF TypeOK
    <3> QED
      BY <1>6, <2>1, <2>4, <3>1, ClientsAssumption DEF FailsForNow, Return
  <2> QED
    BY <2>2, <2>3, <2>4
<1>7. CASE Succeeds \/ QuotaSpent \/ WaitIsCutShort
  BY <1>7 DEF Succeeds, QuotaSpent, WaitIsCutShort, Return, Transient
<1>8. ASSUME NEW a \in Permanent, FailsForGood(a)
      PROVE  FailuresInv'
  BY <1>8 DEF FailsForGood, Return, Transient, Permanent
<1>9. ASSUME NEW a \in Transient \cup Permanent, TokenFails(a)
      PROVE  FailuresInv'
  BY <1>9 DEF TokenFails, TokenAnswered, Return, tries
<1>10. CASE UseToken \/ TokenGranted \/ TimerFires
  BY <1>10 DEF UseToken, TokenGranted, TokenAnswered, TimerFires, tries
<1>11. CASE DeadlinePasses \/ Tick
  BY <1>11 DEF DeadlinePasses, Tick, locals, tries
<1> QED
  BY <1>1, <1>2, <1>3, <1>4, <1>5, <1>6, <1>7, <1>8, <1>9, <1>10, <1>11 DEF Next

-----------------------------------------------------------------------------
(* The deadline.                                                           *)

LEMMA DeadlineNext ==
  ASSUME TypeOK, StageInv, DeadlineInv, Next
  PROVE  DeadlineInv'
<1> USE DEF DeadlineInv
<1>1. CASE Call
  BY <1>1 DEF Call, NoneHeard
<1>2. CASE Send \/ AskForToken
  <2>1. /\ heard.afterDeadline = 0 /\ heard'.afterDeadline = AfterDeadline
        /\ pc' \in {"sent", "asked"} /\ late' = late
    <3>1. heard.afterDeadline = 0
      BY <1>2 DEF Send, AskForToken, TypeOK, Heard
    <3>2. heard'.afterDeadline = AfterDeadline
      BY <1>2 DEF Send, AskForToken, TypeOK, Heard
    <3>3. pc' \in {"sent", "asked"} /\ late' = late
      BY <1>2 DEF Send, AskForToken
    <3> QED
      BY <3>1, <3>2, <3>3
  <2>2. CASE late
    BY <2>1, <2>2 DEF AfterDeadline
  <2>3. CASE ~late
    BY <2>1, <2>3 DEF AfterDeadline
  <2> QED
    BY <2>2, <2>3
<1>3. CASE Succeeds \/ NextPage \/ QuotaSpent \/ RefreshToken \/ TokenGranted
  <2>1. heard.afterDeadline = 0
    BY <1>3 DEF Succeeds, NextPage, QuotaSpent, RefreshToken, TokenGranted, Answered,
                TokenAnswered, GetsThrough
  <2>2. heard'.afterDeadline = 0
    BY <1>3, <2>1 DEF Succeeds, NextPage, QuotaSpent, RefreshToken, TokenGranted,
                      TypeOK, Heard
  <2> QED
    BY <2>2
<1>4. ASSUME NEW a \in {"daily", "throttled"}, RotateKey(a)
      PROVE  DeadlineInv'
  BY <1>4 DEF RotateKey, Answered, GetsThrough, TypeOK, Heard
<1>5. ASSUME NEW a \in Transient, FailsForNow(a)
      PROVE  DeadlineInv'
  <2>1. heard'.afterDeadline = heard.afterDeadline /\ pc = "sent"
    BY <1>5 DEF FailsForNow, Answered, TypeOK, Heard
  <2>2. CASE DeadlineSeen(a)
    BY <1>5, <2>1, <2>2 DEF FailsForNow, Return
  <2>3. CASE ~DeadlineSeen(a)
    <3>1. heard.afterDeadline = 0
      BY <1>5, <2>1, <2>3 DEF FailsForNow, Answered, GetsThrough, DeadlineSeen, TypeOK, Heard
    <3> QED
      BY <2>1, <3>1
  <2> QED
    BY <2>2, <2>3
<1>6. ASSUME NEW a \in Permanent, FailsForGood(a)
      PROVE  DeadlineInv'
  BY <1>6 DEF FailsForGood, Answered, GetsThrough, Permanent
<1>7. ASSUME NEW a \in Transient \cup Permanent, TokenFails(a)
      PROVE  DeadlineInv'
  <2>1. heard' = heard /\ pc = "asked"
    BY <1>7 DEF TokenFails, TokenAnswered
  <2>2. CASE DeadlineSeen(a)
    BY <1>7, <2>1, <2>2 DEF TokenFails, Return
  <2>3. CASE ~DeadlineSeen(a)
    <3>1. heard.afterDeadline = 0
      BY <1>7, <2>1, <2>3 DEF TokenFails, TokenAnswered, GetsThrough, DeadlineSeen, TypeOK, Heard
    <3> QED
      BY <2>1, <3>1
  <2> QED
    BY <2>2, <2>3
<1>8. CASE UseToken \/ TimerFires \/ WaitIsCutShort
  BY <1>8 DEF UseToken, TimerFires, WaitIsCutShort, Return
<1>9. CASE DeadlinePasses \/ Tick
  BY <1>9 DEF DeadlinePasses, Tick
<1> QED
  BY <1>1, <1>2, <1>3, <1>4, <1>5, <1>6, <1>7, <1>8, <1>9 DEF Next

-----------------------------------------------------------------------------
(* The keys over their quota.                                              *)

LEMMA SpentNext ==
  ASSUME TypeOK, StageInv, SpentInv, Next
  PROVE  SpentInv'
<1> USE DEF SpentInv
<1>1. CASE Call
  BY <1>1 DEF Call, NoneHeard, kept, TypeOK, Heard
<1>2. ASSUME NEW a \in {"daily", "throttled"}, RotateKey(a)
      PROVE  SpentInv'
  BY <1>2, ClientsAssumption DEF RotateKey, HasNextKey, SpentAfter, TypeOK, Heard
<1>3. CASE QuotaSpent
  BY <1>3, ClientsAssumption DEF QuotaSpent, HasNextKey, SpentAfter, TypeOK, Heard, kept
<1>4. CASE Send \/ AskForToken \/ NextPage \/ RefreshToken
  BY <1>4 DEF Send, AskForToken, NextPage, RefreshToken, TypeOK, Heard, kept
<1>5. ASSUME NEW a \in Transient, FailsForNow(a)
      PROVE  SpentInv'
  BY <1>5 DEF FailsForNow, TypeOK, Heard, kept
<1>6. ASSUME NEW a, \/ FailsForGood(a) \/ TokenFails(a)
      PROVE  SpentInv'
  BY <1>6 DEF FailsForGood, TokenFails, kept
<1>7. CASE \/ Succeeds \/ UseToken \/ TokenGranted \/ TimerFires \/ WaitIsCutShort
           \/ DeadlinePasses \/ Tick
  BY <1>7 DEF Succeeds, UseToken, TokenGranted, TimerFires, WaitIsCutShort, DeadlinePasses,
              Tick, kept
<1> QED
  BY <1>1, <1>2, <1>3, <1>4, <1>5, <1>6, <1>7 DEF Next

-----------------------------------------------------------------------------
(* The tokens.                                                             *)

(* What TokenGranted makes the client's token.                             *)
LEMMA Granted ==
  ASSUME TypeOK, StageInv, AliveInv, TokenGranted
  PROVE  /\ token' \in Token
         /\ bearer' = token' /\ pc = "asked" /\ pc' = "send"
         /\ token'.number = <<calls, heard.tokenSent>>
         /\ token'.lifetime > Margin => now < token'.dies /\ token'.expires <= token'.dies
<1>1. pc = "asked" /\ pc' = "send" /\ bearer' = token'
  BY DEF TokenGranted, TokenAnswered
<1>2. PICK lifetime \in Lifetime, issued \in askedAt .. now :
        token' = [number |-> <<calls, heard.tokenSent>>,
                  lifetime |-> lifetime,
                  dies |-> issued + lifetime,
                  expires |-> now + KeptFor(lifetime)]
  BY DEF TokenGranted
<1>3. lifetime \in Nat /\ issued + lifetime \in Nat /\ now + KeptFor(lifetime) \in Nat
  BY ClientsAssumption DEF TypeOK, KeptFor
<1>4. <<calls, heard.tokenSent>> \in Nat \X Nat
  BY DEF TypeOK, Heard
<1>5. token' \in Token
  BY <1>2, <1>3, <1>4 DEF Token
<1>6. now <= issued + Margin
  BY <1>1, ClientsAssumption DEF AliveInv, TypeOK
<1>7. lifetime > Margin =>
        now < issued + lifetime /\ now + KeptFor(lifetime) <= issued + lifetime
  BY <1>6, ClientsAssumption DEF KeptFor, TypeOK
<1> QED
  BY <1>1, <1>2, <1>5, <1>7

LEMMA AliveNext ==
  ASSUME TypeOK, StageInv, TokenInv, AliveInv, Next
  PROVE  AliveInv'
<1> USE DEF AliveInv, PresentedTokenIsAlive
<1>1. CASE TokenGranted
  BY <1>1, Granted DEF TokenGranted, world
<1>2. CASE UseToken
  BY <1>2, ClientsAssumption DEF UseToken, Fresh, TypeOK, Token, world, kept
<1>3. CASE Call
  BY <1>3 DEF Call, UsesToken, config, kept
<1>4. CASE Send \/ AskForToken
  BY <1>4, ClientsAssumption DEF Send, AskForToken, world, kept, TypeOK
<1>5. CASE NextPage
  BY <1>5 DEF NextPage, Answered, Return, UsesToken, world, config, kept
<1>6. CASE RefreshToken
  BY <1>6 DEF RefreshToken, ClearToken
<1>7. ASSUME NEW a, RotateKey(a)
      PROVE  AliveInv'
  BY <1>7 DEF RotateKey, HasNextKey, UsesToken, world, config
<1>8. ASSUME NEW a, \/ FailsForNow(a) \/ FailsForGood(a) \/ TokenFails(a)
      PROVE  AliveInv'
  BY <1>8 DEF FailsForNow, FailsForGood, TokenFails, Return, kept
<1>9. CASE Succeeds \/ QuotaSpent \/ WaitIsCutShort
  BY <1>9 DEF Succeeds, QuotaSpent, WaitIsCutShort, Return, kept
<1>10. CASE TimerFires
  BY <1>10 DEF TimerFires, UsesToken, world, config, kept
<1>11. CASE DeadlinePasses
  BY <1>11 DEF DeadlinePasses, UsesToken, world, config, locals, tries, kept
<1>12. CASE Tick
  BY <1>12, ClientsAssumption DEF Tick, UsesToken, config, locals, tries, kept, TypeOK
<1> QED
  BY <1>1, <1>2, <1>3, <1>4, <1>5, <1>6, <1>7, <1>8, <1>9, <1>10, <1>11, <1>12 DEF Next

(* A step that fetches no token and clears none.                           *)
LEMMA SameTokens ==
  ASSUME TypeOK, TokenInv, token' = token, kind' = kind, calls' = calls,
         heard'.refused = heard.refused, heard'.tokenSent = heard.tokenSent,
         pc' = "asked" => pc = "asked",
         UsesToken /\ pc' \in {"send", "sent"} =>
           bearer' = bearer /\ pc \in {"send", "sent"}
  PROVE  TokenInv'
BY DEF TokenInv, Fetched, UsesToken

LEMMA TokenNext ==
  ASSUME TypeOK, StageInv, TokenInv, AliveInv, Next
  PROVE  TokenInv'
<1>1. CASE TokenGranted
  <2>1. heard' = heard /\ calls' = calls /\ kind' = kind
    BY <1>1 DEF TokenGranted, world, config
  <2>2. token' # None
    BY <1>1, Granted, ClientsAssumption
  <2>3. \A t \in heard.refused : Fetched(t) /\ t # token'
    BY <1>1, Granted DEF TokenInv
  <2>4. token'.number[1] = calls /\ token'.number[2] = heard.tokenSent
    BY <1>1, Granted
  <2>5. bearer' = token' /\ pc' = "send" /\ UsesToken
    BY <1>1, Granted DEF StageInv
  <2>6. heard.tokenSent \in Nat /\ heard.tokenSent <= heard.tokenSent
    BY DEF TypeOK, Heard
  <2> QED
    BY <2>1, <2>2, <2>3, <2>4, <2>5, <2>6 DEF TokenInv, Fetched, UsesToken
<1>2. CASE UseToken
  BY <1>2 DEF UseToken, Fresh, TokenInv, Fetched, UsesToken, world, config, kept
<1>3. CASE Call
  <2>1. /\ calls' = calls + 1 /\ heard'.refused = {} /\ heard'.tokenSent = 0
        /\ token' = token /\ kind' = kind /\ pc' \notin {"asked"}
        /\ UsesToken => pc' \notin {"send", "sent"}
    BY <1>3 DEF Call, NoneHeard, kept, config
  <2>2. token # None => token.number[1] \in Nat /\ token.number[1] < calls + 1
    BY DEF TokenInv, Fetched, TypeOK, Token
  <2> QED
    BY <2>1, <2>2 DEF TokenInv, Fetched, UsesToken
<1>4. CASE AskForToken
  <2>1. /\ calls' = calls /\ heard'.refused = heard.refused
        /\ heard'.tokenSent = heard.tokenSent + 1
        /\ token' = token /\ kind' = kind /\ pc' = "asked"
    BY <1>4 DEF AskForToken, TypeOK, Heard, kept, world, config
  <2>2. ASSUME NEW t \in Token, Fetched(t)
        PROVE  Fetched(t)' /\ t.number # <<calls, heard.tokenSent + 1>>
    BY <2>1, <2>2 DEF Fetched, TypeOK, Heard, Token
  <2>3. heard.refused \subseteq Token /\ (token # None => token \in Token)
    BY DEF TypeOK, Heard
  <2> QED
    BY <2>1, <2>2, <2>3 DEF TokenInv, UsesToken
<1>5. CASE RefreshToken
  <2>1. /\ calls' = calls /\ heard'.refused = heard.refused \cup {token}
        /\ heard'.tokenSent = heard.tokenSent
        /\ token # None /\ token' = None /\ kind' = kind /\ pc' = "token" /\ UsesToken
    BY <1>5 DEF RefreshToken, Answered, ClearToken, TokenInv, TypeOK, Heard, world, config
  <2>2. None \notin heard.refused
    BY ClientsAssumption DEF TypeOK, Heard
  <2> QED
    BY <2>1, <2>2 DEF TokenInv, Fetched, UsesToken
<1>6. CASE Send
  BY <1>6, SameTokens DEF Send, world, config, tries, kept, TypeOK, Heard
<1>7. CASE NextPage
  <2>1. kind = "microchip"
    BY <1>7 DEF NextPage
  <2> QED
    BY <1>7, <2>1, SameTokens
       DEF NextPage, Return, world, config, kept, TypeOK, Heard, UsesToken
<1>8. ASSUME NEW a, RotateKey(a)
      PROVE  TokenInv'
  BY <1>8, SameTokens
     DEF RotateKey, HasNextKey, UsesToken, world, config, TypeOK, Heard
<1>9. ASSUME NEW a, FailsForNow(a)
      PROVE  TokenInv'
  BY <1>9, SameTokens DEF FailsForNow, Return, world, config, kept, TypeOK, Heard
<1>10. ASSUME NEW a, FailsForGood(a) \/ TokenFails(a)
      PROVE  TokenInv'
  BY <1>10, SameTokens DEF FailsForGood, TokenFails, Return, world, config, kept
<1>11. CASE Succeeds \/ QuotaSpent \/ WaitIsCutShort
  BY <1>11, SameTokens
     DEF Succeeds, QuotaSpent, WaitIsCutShort, Return, world, config, kept, TypeOK, Heard
<1>12. CASE TimerFires \/ DeadlinePasses \/ Tick
  BY <1>12, SameTokens DEF TimerFires, DeadlinePasses, Tick, UsesToken, world, config,
                           locals, tries, kept
<1> QED
  BY <1>1, <1>2, <1>3, <1>4, <1>5, <1>6, <1>7, <1>8, <1>9, <1>10, <1>11, <1>12 DEF Next

-----------------------------------------------------------------------------
(* The theorems.                                                           *)

LEMMA InitInv == Init => IInv
<1> SUFFICES ASSUME Init PROVE IInv
  OBVIOUS
<1>1. MaxPages * MaxAttempts \in Nat
  BY ClientsAssumption, Product
<1>2. MostSent \in Nat /\ TokenTries \in Nat
  BY <1>1, ClientsAssumption DEF MostSent, TokenTries
<1>3. MostSent * TokenTries \in Nat
  BY <1>2, Product
<1>4. TypeOK
  BY ClientsAssumption DEF Init, TypeOK, Stages, NoneHeard, Heard
<1>5. StageInv /\ SentInv /\ TokenSentInv
  BY <1>2, <1>3 DEF Init, StageInv, SentInv, TokenSentInv, NoneHeard
<1>6. FailuresInv /\ DeadlineInv
  BY DEF Init, FailuresInv, NoEarlyGiveUp, DeadlineInv, NoneHeard
<1>7. TokenInv /\ AliveInv /\ SpentInv
  BY DEF Init, TokenInv, AliveInv, PresentedTokenIsAlive, SpentInv, NoneHeard
<1> QED
  BY <1>4, <1>5, <1>6, <1>7 DEF IInv

LEMMA NextInv == IInv /\ [Next]_vars => IInv'
<1>1. ASSUME IInv, Next PROVE IInv'
  BY <1>1, TypeNext, SentNext, TokenSentNext, FailuresNext, DeadlineNext, SpentNext,
     AliveNext, TokenNext DEF IInv
<1>2. ASSUME IInv, UNCHANGED vars PROVE IInv'
  <2> USE <1>2 DEF IInv, vars, world, config, locals, tries, kept
  <2>1. TypeOK' /\ StageInv'
    BY DEF TypeOK, StageInv, UsesToken, TokenTries
  <2>2. SentInv' /\ TokenSentInv'
    BY DEF SentInv, SentBefore, MostSent, TokenSentInv, TokenTries, UsesToken
  <2>3. FailuresInv' /\ DeadlineInv' /\ SpentInv'
    BY DEF FailuresInv, NoEarlyGiveUp, DeadlineInv, SpentInv
  <2>4. TokenInv' /\ AliveInv'
    BY DEF TokenInv, Fetched, UsesToken, AliveInv, PresentedTokenIsAlive
  <2> QED
    BY <2>1, <2>2, <2>3, <2>4
<1> QED
  BY <1>1, <1>2

THEOREM ClientInvariant == Spec => []IInv
BY InitInv, NextInv, PTL DEF Spec

(* However the distributor answers, a call's requests are within what its  *)
(* attempts, keys, pages and one renewal of the token allow, and no delay  *)
(* passes the limit (Search, apiGET, Product and waitForRetry).            *)
THEOREM ClientsAreBounded == Spec => []RequestsAreBounded
<1>1. IInv => RequestsAreBounded
  <2> SUFFICES ASSUME IInv PROVE RequestsAreBounded
    OBVIOUS
  <2> USE DEF IInv
  <2>1. heard.sent <= MostSent
    BY TokenRoom
  <2>2. heard.tokenSent <= MostTokensSent
    <3>1. CASE UsesToken
      <4>1. heard.tokenSent <= MostSent * TokenTries
        BY <3>1, TokenRoom DEF TokenSentInv, StageInv, TypeOK, Heard
      <4>2. MostSent * 1 = MostSent
        BY TokenRoom
      <4> QED
        BY <3>1, <4>1, <4>2 DEF MostTokensSent, TokenTries, UsesToken
    <3>2. CASE ~UsesToken
      BY <3>2 DEF TokenSentInv, MostTokensSent, UsesToken
    <3> QED
      BY <3>1, <3>2
  <2> QED
    BY <2>1, <2>2 DEF RequestsAreBounded, TypeOK
<1> QED
  BY <1>1, ClientInvariant, PTL

(* A call reports a transient failure only after as many failures at one   *)
(* page as it has attempts: neither another key nor a renewed token uses   *)
(* one up (attempt-- in Search, apiGET and Product).                       *)
THEOREM ClientsDoNotGiveUpEarly == Spec => []NoEarlyGiveUp
<1>1. IInv => NoEarlyGiveUp
  BY DEF IInv, FailuresInv, NoEarlyGiveUp
<1> QED
  BY <1>1, ClientInvariant, PTL

(* At most one request follows the deadline, and the call then reports it  *)
(* (ctx.Err() where a request got no answer, waitForRetry's select).       *)
THEOREM ClientsObeyTheDeadline == Spec => []DeadlineEndsTheCall
<1>1. IInv => DeadlineEndsTheCall
  BY DEF IInv, DeadlineInv, DeadlineEndsTheCall
<1> QED
  BY <1>1, ClientInvariant, PTL

(* A request carries no token the call has seen refused, and none that may *)
(* have died (token, clearToken).                                          *)
THEOREM ClientsPresentGoodTokens == Spec => []PresentedTokenIsGood
<1>1. IInv => PresentedTokenIsGood
  <2> SUFFICES ASSUME IInv PROVE RefusedTokenIsNotReused
    BY DEF IInv, AliveInv, PresentedTokenIsGood
  <2> QED
    BY DEF IInv, TokenInv, RefusedTokenIsNotReused
<1> QED
  BY <1>1, ClientInvariant, PTL

(* A spent key is left for good while there is another (rotateKey).        *)
THEOREM ClientsLeaveSpentKeys == Spec => []SpentKeyIsLeft
<1>1. IInv => SpentKeyIsLeft
  BY DEF IInv, SpentInv, SpentKeyIsLeft
<1> QED
  BY <1>1, ClientInvariant, PTL
=============================================================================
