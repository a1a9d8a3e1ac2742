------------------------------ MODULE Sessions ------------------------------
(***************************************************************************)
(* Refresh sessions in Redis (core-api services/auth.py): one key          *)
(* session:{token} per live token and one set user_sessions:{owner} that   *)
(* lists them for revocation.  Every request is a few Redis commands; the  *)
(* commands are atomic, the requests are not.  Staff sessions repeat this  *)
(* code under other keys (see StaffAuth).  A session that runs out of its  *)
(* TTL is a logout without a request.                                      *)
(***************************************************************************)
EXTENDS Integers, FiniteSets

CONSTANTS Procs,    \* requests that may run at the same time
          Owners,   \* whom sessions belong to
          Tokens,   \* bound: refresh tokens ever issued
          NoOne     \* no owner, no token

ASSUME SessionsAssumption == NoOne \notin Owners \cup Tokens

VARIABLES sessions,  \* session:{token}: its owner, or NoOne
          index,     \* user_sessions:{owner}
          proc,      \* the requests under way
          issued,    \* history: tokens ever stored
          stray      \* history: tokens that a revocation overlapped, or whose
                     \* request died before it had listed them

sessionVars == <<sessions, index, proc, issued, stray>>

IdleProc == [pc |-> "idle", owner |-> NoOne, token |-> NoOne, todo |-> {}]

SessionsInit ==
  /\ sessions = [t \in Tokens |-> NoOne]
  /\ index = [u \in Owners |-> {}]
  /\ proc = [p \in Procs |-> IdleProc]
  /\ issued = {} /\ stray = {}

Step(p, from, to) == proc[p].pc = from /\ proc' = [proc EXCEPT ![p].pc = to]
End(p, from) == proc[p].pc = from /\ proc' = [proc EXCEPT ![p] = IdleProc]

\* A revocation of u stands between reading the index and deleting it.
Revoking(u) == \E p \in Procs : proc[p].pc = "revoking" /\ proc[p].owner = u

-----------------------------------------------------------------------------
(* issue_tokens: SET session:{token}, then SADD to the index               *)

StoreSession(p) ==
  \E t \in Tokens \ issued :
    /\ proc[p].pc = "issue"
    /\ sessions' = [sessions EXCEPT ![t] = proc[p].owner]
    /\ issued' = issued \cup {t}
    /\ proc' = [proc EXCEPT ![p].pc = "list", ![p].token = t]
    /\ UNCHANGED <<index, stray>>

RememberRefreshToken(p) ==
  LET u == proc[p].owner IN
  /\ End(p, "list")
  /\ index' = [index EXCEPT ![u] = @ \cup {proc[p].token}]
  /\ stray' = IF Revoking(u) THEN stray \cup {proc[p].token} ELSE stray
  /\ UNCHANGED <<sessions, issued>>

-----------------------------------------------------------------------------
(* refresh_tokens: GET, the owner's standing in the database, DEL and      *)
(* SREM, then a new pair; an owner out of standing loses every session.    *)

RefreshGet(p, t) ==
  /\ proc[p].pc = "idle"
  /\ sessions[t] # NoOne
  /\ proc' = [proc EXCEPT ![p] = [IdleProc EXCEPT !.pc = "check", !.token = t,
                                                  !.owner = sessions[t]]]
  /\ UNCHANGED <<sessions, index, issued, stray>>

RefreshCheck(p, active) ==
  /\ Step(p, "check", IF active THEN "rotate" ELSE "expel")
  /\ UNCHANGED <<sessions, index, issued, stray>>

LogoutGet(p, t) ==
  /\ proc[p].pc = "idle"
  /\ sessions[t] # NoOne
  /\ proc' = [proc EXCEPT ![p] = [IdleProc EXCEPT !.pc = "logout", !.token = t,
                                                  !.owner = sessions[t]]]
  /\ UNCHANGED <<sessions, index, issued, stray>>

Forgotten(pc) == CASE pc = "rotate" -> "rotated"
                   [] pc = "expel" -> "expelled"
                   [] pc = "logout" -> "loggedout"

\* The result of DEL, whether the token was still there, decides nothing.
ForgetSession(p) ==
  /\ proc[p].pc \in {"rotate", "expel", "logout"}
  /\ sessions' = [sessions EXCEPT ![proc[p].token] = NoOne]
  /\ Step(p, proc[p].pc, Forgotten(proc[p].pc))
  /\ UNCHANGED <<index, issued, stray>>

ForgetListed(p) ==
  /\ \/ Step(p, "rotated", "issue")
     \/ Step(p, "expelled", "revoke")
     \/ End(p, "loggedout")
  /\ index' = [index EXCEPT ![proc[p].owner] = @ \ {proc[p].token}]
  /\ UNCHANGED <<sessions, issued, stray>>

-----------------------------------------------------------------------------
(* revoke_user_sessions: SMEMBERS, DEL of each token, DEL of the index     *)

\* Mutant: the index is dropped as it is read.
RevokeReadAndDrop(p) ==
  LET u == proc[p].owner IN
  /\ proc[p].pc = "revoke"
  /\ proc' = [proc EXCEPT ![p].pc = "revoking", ![p].todo = index[u]]
  /\ index' = [index EXCEPT ![u] = {}]
  /\ UNCHANGED <<sessions, issued, stray>>

RevokeRead(p) ==
  /\ proc[p].pc = "revoke"
  /\ proc' = [proc EXCEPT ![p].pc = "revoking",
                          ![p].todo = index[proc[p].owner]]
  /\ UNCHANGED <<sessions, index, issued, stray>>

RevokeToken(p) ==
  \E t \in proc[p].todo :
    /\ proc[p].pc = "revoking"
    /\ sessions' = [sessions EXCEPT ![t] = NoOne]
    /\ proc' = [proc EXCEPT ![p].todo = @ \ {t}]
    /\ UNCHANGED <<index, issued, stray>>

RevokeIndex(p) ==
  /\ proc[p].todo = {}
  /\ End(p, "revoking")
  /\ index' = [index EXCEPT ![proc[p].owner] = {}]
  /\ UNCHANGED <<sessions, issued, stray>>

\* The request dies with its process, between two commands.  Before its first
\* write that leaves no trace.
RequestDies(p) ==
  /\ proc[p].pc \in {"list", "rotated", "expelled", "loggedout", "revoke",
                     "revoking"}
  /\ proc' = [proc EXCEPT ![p] = IdleProc]
  /\ stray' = IF proc[p].pc = "list" THEN stray \cup {proc[p].token} ELSE stray
  /\ UNCHANGED <<sessions, index, issued>>

SessionStep(p) ==
  \/ StoreSession(p) \/ RememberRefreshToken(p)
  \/ \E t \in Tokens : RefreshGet(p, t) \/ LogoutGet(p, t)
  \/ ForgetSession(p) \/ ForgetListed(p)
  \/ RevokeRead(p) \/ RevokeToken(p) \/ RevokeIndex(p)

-----------------------------------------------------------------------------
LiveSessions(u) == {t \in Tokens : sessions[t] = u}

\* Every live session is listed, so that a revocation can find it; the only
\* exceptions are a session that is just being issued, one whose listing a
\* revocation overlapped, and one whose request died in between.
ListedOrStray ==
  \A u \in Owners : \A t \in LiveSessions(u) :
    \/ t \in index[u] \cup stray
    \/ \E p \in Procs : proc[p].pc = "list" /\ proc[p].token = t
=============================================================================
