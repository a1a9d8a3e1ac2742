--------------------------------- MODULE Otp ---------------------------------
(***************************************************************************)
(* The one-time codes of one phone number: the rate limit and the record   *)
(* in Redis (core-api services/otp.py, routers/auth.py) and the SMS task   *)
(* that flips the record's status (sms-worker tasks/otp.py).  Redis        *)
(* commands and Lua scripts are atomic; everything between two of them     *)
(* interleaves.  Time is a discrete clock; a Redis key with a TTL is gone  *)
(* once its deadline is reached.  A code is named by its number in the     *)
(* order of minting: two random codes are never equal.                     *)
(***************************************************************************)
EXTENDS Integers, Sequences, FiniteSets

CONSTANTS
  Handlers,      \* send-code requests that may run at the same time
  Windows,       \* RATE_LIMITS: "min", "hour", "day"
  Limit,         \* [Windows -> how many codes in a window]
  Length,        \* [Windows -> its length in ticks]
  OtpTtl,        \* OTP_TTL
  MaxAttempts,   \* OTP_MAX_ATTEMPTS
  MaxRetries,    \* max_retries of send_otp_sms
  MaxMints,      \* bound: codes
  MaxTime,       \* bound: the clock
  MaxFaults      \* bound: Redis answers lost by the SMS task

ASSUME OtpAssumption ==
  /\ Limit \in [Windows -> Nat \ {0}] /\ Length \in [Windows -> Nat \ {0}]
  /\ OtpTtl \in Nat \ {0} /\ MaxAttempts \in Nat \ {0} /\ MaxRetries \in Nat

VARIABLES
  now,       \* the clock
  otp,       \* the record under otp:{phone_hash}
  rate,      \* the counters under sms_rate:{phone_hash}:{window}
  handler,   \* send-code requests past their reservation
  sms,       \* the SMS task of each code
  reserved,  \* history: when quota was granted
  log,       \* history: what became of each code
  faults     \* how many Redis answers were lost

otpVars == <<now, otp, rate, handler, sms, reserved, log, faults>>

Mints == 1..MaxMints
Minted == DOMAIN log

NoOtp == [code |-> 0, attempts |-> 0, status |-> "none", deadline |-> 0]
IdleHandler == [pc |-> "idle", code |-> 0]
NoSms == [pc |-> "none", tries |-> 0, status |-> "sent", snap |-> NoOtp,
          ttl |-> 0, readAt |-> 0]

\* What GET returns: nothing once the TTL has run out.
Stored == IF otp.deadline > now THEN otp ELSE NoOtp
Count(w) == IF rate[w].deadline > now THEN rate[w].count ELSE 0

OtpInit ==
  /\ now = 0 /\ otp = NoOtp /\ reserved = <<>> /\ log = <<>> /\ faults = 0
  /\ rate = [w \in Windows |-> [count |-> 0, deadline |-> 0]]
  /\ handler = [h \in Handlers |-> IdleHandler]
  /\ sms = [m \in Mints |-> NoSms]

Tick ==
  /\ now < MaxTime
  /\ now' = now + 1
  /\ UNCHANGED <<otp, rate, handler, sms, reserved, log, faults>>

-----------------------------------------------------------------------------
(* POST /auth/send-code                                                    *)

\* Mutant: only the shortest window is looked at.
QuotaLeftShort ==
  \A w \in Windows : (\A v \in Windows : Length[w] <= Length[v]) => Count(w) < Limit[w]
QuotaLeft == \A w \in Windows : Count(w) < Limit[w]

\* One Lua script: all counters are checked, then all are incremented; the
\* first hit of a window starts its TTL.
ReserveRateLimit(h) ==
  /\ handler[h].pc = "idle"
  /\ Len(log) + Cardinality({g \in Handlers : handler[g].pc = "create"})
       < MaxMints
  /\ QuotaLeft
  /\ rate' = [w \in Windows |->
       IF Count(w) = 0 THEN [count |-> 1, deadline |-> now + Length[w]]
       ELSE [rate[w] EXCEPT !.count = @ + 1]]
  /\ reserved' = Append(reserved, now)
  /\ handler' = [handler EXCEPT ![h].pc = "create"]
  /\ UNCHANGED <<now, otp, sms, log, faults>>

\* A new code replaces whatever record there is.
CreateOtp(h) ==
  LET m == Len(log) + 1 IN
  /\ handler[h].pc = "create"
  /\ otp' = [code |-> m, attempts |-> 0, status |-> "created",
             deadline |-> now + OtpTtl]
  /\ log' = Append(log, [at |-> now, wrong |-> 0, accepted |-> 0, torn |-> 0])
  /\ handler' = [handler EXCEPT ![h] = [pc |-> "send", code |-> m]]
  /\ UNCHANGED <<now, rate, sms, reserved, faults>>

\* send_task to the queue "sms".
SendTask(h) ==
  /\ handler[h].pc = "send"
  /\ sms' = [sms EXCEPT ![handler[h].code].pc = "queued"]
  /\ handler' = [handler EXCEPT ![h] = IdleHandler]
  /\ UNCHANGED <<now, otp, rate, reserved, log, faults>>

SendCode == \E h \in Handlers : ReserveRateLimit(h) \/ CreateOtp(h) \/ SendTask(h)

-----------------------------------------------------------------------------
(* POST /auth/verify-code: one Lua script.  A guess is any code ever       *)
(* minted, or 0 for any other.                                             *)

Counted(m, field) == [log EXCEPT ![m][field] = @ + 1]

Verifiable == Stored.status = "sent"

AttemptsSpent == Stored.attempts + 1 >= MaxAttempts

\* Mutant: the accepted record stays until it expires.
VerifyRightUndeleted ==
  /\ Verifiable
  /\ log' = Counted(Stored.code, "accepted")
  /\ UNCHANGED <<now, otp, rate, handler, sms, reserved, faults>>

VerifyRight ==
  /\ Verifiable
  /\ otp' = NoOtp
  /\ log' = Counted(Stored.code, "accepted")
  /\ UNCHANGED <<now, rate, handler, sms, reserved, faults>>

VerifyWrong(guess) ==
  /\ Verifiable
  /\ guess # Stored.code
  /\ otp' = IF AttemptsSpent THEN NoOtp
            ELSE [otp EXCEPT !.attempts = @ + 1]
  /\ log' = Counted(Stored.code, "wrong")
  /\ UNCHANGED <<now, rate, handler, sms, reserved, faults>>

VerifyOtp == VerifyRight \/ \E guess \in 0..Len(log) : VerifyWrong(guess)

-----------------------------------------------------------------------------
(* send_otp_sms(m): the gateway, then GET, TTL and SET or DEL on the key   *)
(* of the phone, whichever code it holds by then.                          *)

Turn(m, pc, t) == /\ sms[m].pc = pc
                  /\ sms' = [sms EXCEPT ![m] = t]
                  /\ UNCHANGED <<now, rate, handler, reserved>>

\* An exception: autoretry_for=(Exception,) queues the task again.
Retried(t) == IF t.tries < MaxRetries
              THEN [NoSms EXCEPT !.pc = "queued", !.tries = t.tries + 1]
              ELSE [NoSms EXCEPT !.pc = "done"]

Delivered(m) ==
  /\ Turn(m, "queued", [sms[m] EXCEPT !.pc = "get", !.status = "sent"])
  /\ UNCHANGED <<otp, log, faults>>

NotDelivered(m) ==
  /\ Turn(m, "queued",
          IF sms[m].tries >= MaxRetries
          THEN [sms[m] EXCEPT !.pc = "get", !.status = "failed"]
          ELSE Retried(sms[m]))
  /\ UNCHANGED <<otp, log, faults>>

UpdateGet(m) ==
  /\ Turn(m, "get",
          IF Stored = NoOtp THEN [NoSms EXCEPT !.pc = "done"]
          ELSE [sms[m] EXCEPT !.pc = "ttl", !.snap = Stored])
  /\ UNCHANGED <<otp, log, faults>>

UpdateTtl(m) ==
  /\ Turn(m, "ttl", [sms[m] EXCEPT !.pc = "put", !.readAt = now,
                       !.ttl = IF Stored = NoOtp THEN 0
                               ELSE otp.deadline - now])
  /\ UNCHANGED <<otp, log, faults>>

\* The record that the task writes: what it read, with the new status.
Rewritten(t) == [t.snap EXCEPT !.status = t.status, !.deadline = now + t.ttl]

\* The write undoes whatever happened to the key since GET, and is as much
\* too long as the time that passed since TTL.
Torn(t) == t.snap # Stored \/ t.readAt # now

UpdateApplied(t) ==
  CASE t.status = "failed" -> otp' = NoOtp /\ UNCHANGED log
    [] t.status = "sent" /\ t.ttl > 0 ->
         /\ otp' = Rewritten(t)
         /\ log' = IF Torn(t) THEN Counted(t.snap.code, "torn") ELSE log
    [] OTHER -> UNCHANGED <<otp, log>>

UpdatePut(m) ==
  /\ UpdateApplied(sms[m])
  /\ Turn(m, "put", [NoSms EXCEPT !.pc = "done"])
  /\ UNCHANGED faults

\* The connection to Redis fails at any of the three calls; the last one may
\* have been carried out.
UpdateLost(m) ==
  /\ faults < MaxFaults
  /\ faults' = faults + 1
  /\ \/ /\ Turn(m, "get", Retried(sms[m])) /\ UNCHANGED <<otp, log>>
     \/ /\ Turn(m, "ttl", Retried(sms[m])) /\ UNCHANGED <<otp, log>>
     \/ /\ Turn(m, "put", Retried(sms[m])) /\ UNCHANGED <<otp, log>>
     \/ /\ UpdateApplied(sms[m])
        /\ Turn(m, "put", Retried(sms[m]))

-----------------------------------------------------------------------------
OtpNext ==
  \/ Tick
  \/ SendCode
  \/ VerifyOtp
  \/ \E m \in Mints : \/ Delivered(m) \/ NotDelivered(m) \/ UpdateGet(m)
                      \/ UpdateTtl(m) \/ UpdatePut(m) \/ UpdateLost(m)

OtpSpec == OtpInit /\ [][OtpNext]_otpVars

-----------------------------------------------------------------------------
\* INV-012 over sliding windows: the fixed windows of the counters let at
\* most 2 * limit - 1 codes into any span of a window's length, and exactly
\* one into a window whose limit is one.
SmsQuota ==
  \A w \in Windows, i \in DOMAIN reserved :
    Cardinality({j \in DOMAIN reserved :
                   reserved[j] \in reserved[i]..(reserved[i] + Length[w] - 1)})
      <= 2 * Limit[w] - 1

\* A code is accepted once and guessed at no more than MaxAttempts times,
\* and once more for every status write of the SMS task that straddled a
\* change of the record: nothing else brings a spent code back.  And only
\* through such a write does a record outlive the TTL of its code, however
\* often its status was rewritten.
CodeSpent ==
  /\ \A m \in Minted :
       /\ log[m].accepted <= 1 + log[m].torn
       /\ log[m].wrong <= MaxAttempts * (1 + log[m].torn)
  /\ Stored # NoOtp /\ log[otp.code].torn = 0 =>
       otp.deadline <= log[otp.code].at + OtpTtl
=============================================================================
