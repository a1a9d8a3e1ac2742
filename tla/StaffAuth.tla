----------------------------- MODULE StaffAuth ------------------------------
(***************************************************************************)
(* Staff login (core-api services/staff_auth.py, routers/staff_auth.py):   *)
(* counters of failed logins per login and per address in Redis, the       *)
(* account row, and the sessions of Sessions.tla under staff keys, each    *)
(* with the role that it was issued for.  The counters are read before the *)
(* password is compared and written after it.                              *)
(***************************************************************************)
EXTENDS Sessions

CONSTANTS
  Ips,          \* addresses that logins come from
  Roles,        \* StaffRole
  LoginLimit,   \* STAFF_LOGIN_RATE_LIMITS["login"]
  IpLimit,      \* STAFF_LOGIN_RATE_LIMITS["ip"]
  MaxStaffChanges    \* bound: changes of the accounts

ASSUME StaffAuthAssumption ==
  /\ LoginLimit \in Nat \ {0} /\ IpLimit \in Nat \ {0}
  /\ Roles # {} /\ IsFiniteSet(Procs)

VARIABLES
  staff,    \* staff_accounts: active, role
  failed,   \* staff_login_rate:{kind}:{digest}
  visit,    \* of the requests under way: address, role, whether the account
            \* changed since it was last looked at
  roleOf,   \* the role in session:{token}
  staffChanges

staffVars == <<sessionVars, staff, failed, visit, roleOf, staffChanges>>

Keys == Owners \cup Ips
NoVisit == [ip |-> NoOne, role |-> NoOne, moved |-> FALSE]
\* A request that is over leaves no visit behind.
Visited == [p \in Procs |-> IF proc'[p].pc = "idle" THEN NoVisit ELSE visit[p]]
LimitOf(k) == IF k \in Owners THEN LoginLimit ELSE IpLimit

StaffInit ==
  /\ SessionsInit
  /\ staff = [u \in Owners |-> [active |-> TRUE, role |-> CHOOSE r \in Roles : TRUE]]
  /\ failed = [k \in Keys |-> 0]
  /\ visit = [p \in Procs |-> NoVisit]
  /\ roleOf = [t \in Tokens |-> NoOne]
  /\ staffChanges = 0

-----------------------------------------------------------------------------
(* authenticate                                                            *)

\* Mutant: the counter of the address is looked at, that of the login not.
NotThrottledByIp(k) == k \in Ips => failed[k] < LimitOf(k)
\* One dimension of _current_login_retry_after.
NotThrottled(k) == failed[k] < LimitOf(k)

Login(p, u, ip) ==
  /\ proc[p].pc = "idle"
  /\ NotThrottled(u)
  /\ proc' = [proc EXCEPT ![p] = [IdleProc EXCEPT !.pc = "throttle", !.owner = u]]
  /\ visit' = [visit EXCEPT ![p] = [NoVisit EXCEPT !.ip = ip]]
  /\ UNCHANGED <<sessions, index, issued, stray, staff, failed, roleOf, staffChanges>>

LoginIp(p) ==
  /\ proc[p].pc = "throttle"
  /\ proc' = [proc EXCEPT ![p] = IF NotThrottled(visit[p].ip)
                                 THEN [@ EXCEPT !.pc = "compare"] ELSE IdleProc]
  /\ visit' = Visited
  /\ UNCHANGED <<sessions, index, issued, stray, staff, failed, roleOf, staffChanges>>

\* The row and the password.
LoginCompare(p) ==
  LET s == staff[proc[p].owner] IN
  /\ \/ Step(p, "compare", "record") /\ UNCHANGED visit
     \/ /\ Step(p, "compare", "clear") /\ s.active
        /\ visit' = [visit EXCEPT ![p].role = s.role, ![p].moved = FALSE]
  /\ UNCHANGED <<sessions, index, issued, stray, staff, failed, roleOf, staffChanges>>

\* One transaction of INCR and EXPIRE NX for both keys.
RecordFailedLogin(p) ==
  /\ End(p, "record")
  /\ failed' = [k \in Keys |-> IF k \in {proc[p].owner, visit[p].ip}
                               THEN failed[k] + 1 ELSE failed[k]]
  /\ visit' = Visited
  /\ UNCHANGED <<sessions, index, issued, stray, staff, roleOf, staffChanges>>

Cleared(p) == {proc[p].owner}

ClearFailedLogins(p) ==
  /\ Step(p, "clear", "issue")
  /\ failed' = [k \in Keys |-> IF k \in Cleared(p) THEN 0 ELSE failed[k]]
  /\ UNCHANGED <<sessions, index, issued, stray, staff, visit, roleOf, staffChanges>>

\* The TTL of a counter, set by its first failure, runs out.
WindowEnds(k) ==
  /\ failed[k] > 0
  /\ failed' = [failed EXCEPT ![k] = 0]
  /\ UNCHANGED <<sessionVars, staff, visit, roleOf, staffChanges>>

-----------------------------------------------------------------------------
(* Refresh, logout and the account                                         *)

\* Mutant: the role of the session is taken for granted.
AllowsRefreshOfAny(u, role) == staff[u].active
\* _current_staff_allows_refresh
AllowsRefresh(u, role) == staff[u].active /\ staff[u].role = role

StaffRefreshCheck(p) ==
  LET role == roleOf[proc[p].token] IN
  /\ RefreshCheck(p, AllowsRefresh(proc[p].owner, role))
  /\ visit' = [visit EXCEPT ![p].role = role, ![p].moved = FALSE]
  /\ UNCHANGED <<staff, failed, roleOf, staffChanges>>

StaffStoreSession(p) ==
  /\ StoreSession(p)
  /\ roleOf' = [t \in Tokens |-> IF t \in issued' \ issued THEN visit[p].role
                                 ELSE roleOf[t]]
  /\ UNCHANGED <<staff, failed, visit, staffChanges>>

StaffSessionStep(p) ==
  /\ \/ RememberRefreshToken(p)
     \/ \E t \in Tokens : RefreshGet(p, t) \/ LogoutGet(p, t)
     \/ ForgetSession(p) \/ ForgetListed(p)
     \/ RevokeRead(p) \/ RevokeToken(p) \/ RevokeIndex(p)
     \/ RequestDies(p)
  /\ visit' = Visited
  /\ UNCHANGED <<staff, failed, roleOf, staffChanges>>

\* An operator edits the row; no service does.
StaffChanges(u) ==
  /\ staffChanges < MaxStaffChanges /\ staffChanges' = staffChanges + 1
  /\ \E active \in BOOLEAN, role \in Roles :
       /\ staff[u] # [active |-> active, role |-> role]
       /\ staff' = [staff EXCEPT ![u] = [active |-> active, role |-> role]]
  /\ visit' = [p \in Procs |-> IF proc[p].owner = u
                               THEN [visit[p] EXCEPT !.moved = TRUE] ELSE visit[p]]
  /\ UNCHANGED <<sessionVars, failed, roleOf>>

StaffNext ==
  \/ \E p \in Procs :
       \/ \E u \in Owners, ip \in Ips : Login(p, u, ip)
       \/ LoginIp(p) \/ LoginCompare(p) \/ RecordFailedLogin(p) \/ ClearFailedLogins(p)
       \/ StaffRefreshCheck(p) \/ StaffStoreSession(p) \/ StaffSessionStep(p)
  \/ \E k \in Keys : WindowEnds(k)
  \/ \E u \in Owners : StaffChanges(u)

StaffSpec == StaffInit /\ [][StaffNext]_staffVars

-----------------------------------------------------------------------------
\* Requests that passed the counter of k and have yet to write to it.
Guessing(k) ==
  {p \in Procs : \/ proc[p].pc \in {"throttle", "compare", "record"} /\ proc[p].owner = k
                 \/ proc[p].pc \in {"compare", "record"} /\ visit[p].ip = k}

\* A window never sees more failed guesses than its limit, but for those that
\* had passed the counter together: at most one fewer than the requests that
\* run at once.
GuessesBounded ==
  \A k \in Keys : failed[k] + Cardinality(Guessing(k)) <= LimitOf(k) + Cardinality(Procs) - 1

\* No pair is issued for a role that the account does not have, or to an
\* inactive account, unless it changed while the request was under way; a
\* demoted account keeps no session that could be exchanged.
IssuedInStanding ==
  [][\A t \in issued' \ issued :
       \E p \in Procs : /\ proc[p].pc = "issue" /\ proc'[p].token = t
                        /\ \/ visit[p].moved
                           \/ staff[proc[p].owner] = [active |-> TRUE, role |-> roleOf'[t]]]_staffVars
=============================================================================
