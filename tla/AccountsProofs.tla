---------------------------- MODULE AccountsProofs ----------------------------
(***************************************************************************)
(* Proofs about Accounts and StaffAuth, for any number of accounts,        *)
(* orders, sessions and concurrent requests, which may die between two of  *)
(* their commands.                                                         *)
(*                                                                         *)
(* A request works on what it has read, and the account goes on without    *)
(* it.  SessionsKnown says what a session request may still rely on: no    *)
(* token comes back, and a revocation has every listed session in hand.    *)
(* JobKnows says the same of a block and of a deletion: whatever order     *)
(* they have not got in hand is over, or is on record as late.  Expiring   *)
(* joins the two: while a session of an ended account is left, somebody is *)
(* on the way to it.  The staff's sessions obey SessionsKnown as well; a   *)
(* request at their door relies on the account as it last saw it           *)
(* (Standing), and on a counter that may have moved (CounterBounded).      *)
(***************************************************************************)
EXTENDS Accounts, StaffAuth, FiniteSetTheorems, TLAPS

Pcs == {"idle", "issue", "list", "check", "rotate", "expel", "logout", "rotated",
        "expelled", "loggedout", "revoke", "revoking",
        "throttle", "compare", "record", "clear"}
HoldsToken == {"list", "check", "rotate", "expel", "logout", "rotated", "expelled",
               "loggedout"}
ProcRow == [pc : Pcs, owner : Owners \cup {NoOne}, token : Tokens \cup {NoOne},
            todo : SUBSET Tokens]

SessionsTyped ==
  /\ sessions \in [Tokens -> Owners \cup {NoOne}]
  /\ index \in [Owners -> SUBSET Tokens]
  /\ proc \in [Procs -> ProcRow]

Listing(t) == \E p \in Procs : proc[p].pc = "list" /\ proc[p].token = t

\* What the session request p knows between two of its commands.
ProcKnows(p) ==
  /\ proc[p].pc # "idle" => proc[p].owner \in Owners
  /\ proc[p].pc \in HoldsToken => proc[p].token \in issued \cap Tokens
  /\ proc[p].pc = "list" => sessions[proc[p].token] \in {proc[p].owner, NoOne}
  /\ proc[p].pc \in {"rotated", "expelled", "loggedout"} =>
       sessions[proc[p].token] = NoOne
  /\ proc[p].pc = "revoking" =>
       \A t \in LiveSessions(proc[p].owner) :
         t \in proc[p].todo \cup stray \/ Listing(t)

SessionsKnown ==
  /\ SessionsTyped
  /\ \A t \in Tokens : sessions[t] # NoOne => t \in issued
  /\ \A p \in Procs : ProcKnows(p)
  /\ ListedOrStray

-----------------------------------------------------------------------------

UserRow == [status : {"none", "PENDING_VERIFICATION", "ACTIVE"} \cup Ended,
            phone : BOOLEAN, profile : BOOLEAN, address : BOOLEAN, balance : Int]
OrderRow == [owner : Owners \cup {NoOne},
             status : {"active", "IN_DELIVERY"} \cup Terminal]
JobOps == {"none", "activate", "checkout", "address", "block", "delete", "move"}
Seen == {"none", "select", "cascade", "active", "IN_DELIVERY"} \cup SourceStates
JobRow == [op : JobOps, user : Owners \cup {NoOne}, seen : Seen, todo : SUBSET Orders,
           fresh : BOOLEAN, order : Orders \cup {NoOne}, balance : Nat]

AccountsTyped ==
  /\ users \in [Owners -> UserRow]
  /\ orders \in [Orders -> OrderRow]
  /\ job \in [Procs -> JobRow]

\* An account comes with the activation, and stays.
UserStands(u) ==
  IF users[u].status \in {"none", "PENDING_VERIFICATION"} THEN users[u].balance = -1
  ELSE users[u].balance >= 0

OrderStands(o) ==
  IF orders[o].status = "none" THEN orders[o].owner = NoOne
  ELSE orders[o].owner \in Owners /\ users[orders[o].owner].balance >= 0

\* What the account request p knows between two of its transactions.
JobKnows(p) ==
  LET u == job[p].user IN
  /\ job[p].op \notin {"none", "move"} => u \in Owners
  /\ job[p].op = "activate" => users[u].status # "none"
  /\ job[p].op \in {"checkout", "address", "block", "delete"} => users[u].balance >= 0
  /\ job[p].seen \in {"select", "cascade"} => job[p].op = "block"
  /\ job[p].seen = "select" => job[p].order = NoOne
  /\ job[p].op = "move" => /\ job[p].seen \in {"active", "IN_DELIVERY"}
                          /\ job[p].order \in Orders /\ orders[job[p].order].owner \in Owners
  /\ job[p].op \in {"block", "delete"} => job[p].order \in job[p].todo \cup {NoOne}
  /\ \A o \in job[p].todo : u \in Owners /\ orders[o].owner = u
  /\ job[p].op = "delete" =>
       \A o \in OrdersOf(u) \ late : orders[o].status \in Terminal \/ o \in job[p].todo
  /\ job[p].op = "block" /\ job[p].seen # "select" =>
       \A o \in OrdersOf(u) \ late : orders[o].status = "active" => o \in job[p].todo

AccountsKnown ==
  /\ AccountsTyped
  /\ \A u \in Owners : UserStands(u)
  /\ \A o \in Orders : OrderStands(o)
  /\ \A p \in Procs : JobKnows(p)
  /\ OrdersEnd /\ DeletedIsAnonymous

-----------------------------------------------------------------------------
\* A request is in its account part or in its session part.
OnePart == \A p \in Procs : job[p].op # "none" => proc[p].pc = "idle"

\* Somebody is on the way to session t of account u.
Blocking(u) == \E p \in Procs : job[p].op = "block" /\ job[p].user = u
Reaching(p, u, t) ==
  \/ proc[p].pc = "revoke" /\ proc[p].owner = u
  \/ proc[p].pc = "revoking" /\ proc[p].owner = u /\ t \in proc[p].todo
  \/ proc[p].pc = "list" /\ proc[p].token = t
Expiring(u, t) == Blocking(u) \/ \E p \in Procs : Reaching(p, u, t)

SessionsExpire ==
  \A u \in Owners :
    users[u].status \in Ended /\ u \notin broken =>
      \A t \in LiveSessions(u) : t \in late \cup stray \/ Expiring(u, t)

AccountsInv == SessionsKnown /\ AccountsKnown /\ OnePart /\ SessionsExpire

-----------------------------------------------------------------------------
(* The session requests                                                    *)

LEMMA IdleTyped == IdleProc \in ProcRow
BY DEF IdleProc, ProcRow, Pcs

\* Request p goes from one command to the next.
LEMMA ProcStep ==
  ASSUME SessionsTyped, NEW p \in Procs, NEW to \in Pcs,
         proc' = [proc EXCEPT ![p].pc = to]
  PROVE  /\ proc' \in [Procs -> ProcRow] /\ proc'[p].pc = to
         /\ proc'[p].owner = proc[p].owner /\ proc'[p].token = proc[p].token
         /\ proc'[p].todo = proc[p].todo
         /\ \A q \in Procs \ {p} : proc'[q] = proc[q]
BY DEF SessionsTyped, ProcRow

LEMMA ProcSet ==
  ASSUME SessionsTyped, NEW p \in Procs, NEW row \in ProcRow,
         proc' = [proc EXCEPT ![p] = row]
  PROVE  /\ proc' \in [Procs -> ProcRow] /\ proc'[p] = row
         /\ \A q \in Procs \ {p} : proc'[q] = proc[q]
BY DEF SessionsTyped

LEMMA ProcFields ==
  ASSUME SessionsTyped, NEW p \in Procs
  PROVE  /\ proc[p].pc \in Pcs /\ proc[p].owner \in Owners \cup {NoOne}
         /\ proc[p].token \in Tokens \cup {NoOne} /\ proc[p].todo \in SUBSET Tokens
BY DEF SessionsTyped, ProcRow

\* What every command of request p leaves to the others.
SessionFrame(p) ==
  /\ \A q \in Procs \ {p} : proc'[q] = proc[q]
  /\ issued \subseteq issued' /\ stray \subseteq stray'
  /\ \A t \in Tokens : \/ sessions'[t] \in {sessions[t], NoOne}
                       \/ t \notin issued /\ Listing(t)'
  /\ \A t \in Tokens : Listing(t) =>
       Listing(t)' \/ t \in stray' \/ ~Revoking(sessions[t])

LEMMA OthersKnow ==
  ASSUME SessionsKnown, NEW p \in Procs, SessionFrame(p), NEW q \in Procs \ {p}
  PROVE  ProcKnows(q)'
<1>1. proc'[q] = proc[q] /\ ProcKnows(q)
  BY DEF SessionFrame, SessionsKnown
<1>2. proc[q].pc \in HoldsToken => proc[q].token \in issued' \cap Tokens
  BY <1>1 DEF SessionFrame, ProcKnows
<1>3. proc[q].pc = "list" => sessions'[proc[q].token] \in {proc[q].owner, NoOne}
  BY <1>1 DEF SessionFrame, ProcKnows, HoldsToken
<1>4. proc[q].pc \in {"rotated", "expelled", "loggedout"} =>
        sessions'[proc[q].token] = NoOne
  BY <1>1 DEF SessionFrame, ProcKnows, HoldsToken
<1>5. ASSUME proc[q].pc = "revoking", NEW t \in Tokens, sessions'[t] = proc[q].owner
      PROVE  t \in proc[q].todo \cup stray' \/ Listing(t)'
  <2>1. proc[q].owner \in Owners /\ Revoking(proc[q].owner)
    BY <1>1, <1>5 DEF ProcKnows, Revoking
  <2>2. sessions[t] = proc[q].owner \/ Listing(t)'
    BY <1>5, <2>1, SessionsAssumption DEF SessionFrame
  <2>3. sessions[t] = proc[q].owner => t \in proc[q].todo \cup stray \/ Listing(t)
    BY <1>1, <1>5 DEF ProcKnows, LiveSessions
  <2>4. QED
    BY <2>1, <2>2, <2>3 DEF SessionFrame
<1>6. QED
  BY <1>1, <1>2, <1>3, <1>4, <1>5 DEF ProcKnows, LiveSessions

\* What is left to show of a command of request p.
LEMMA SessionsMove ==
  ASSUME SessionsKnown, NEW p \in Procs, SessionFrame(p), SessionsTyped', ProcKnows(p)',
         \A t \in Tokens : sessions'[t] # NoOne =>
           /\ t \in issued'
           /\ t \in index'[sessions'[t]] \cup stray' \/ Listing(t)'
  PROVE  SessionsKnown'
<1>1. \A q \in Procs : ProcKnows(q)'
  BY OthersKnow
<1>2. ListedOrStray'
  BY SessionsAssumption DEF ListedOrStray, LiveSessions, Listing
<1>3. QED
  BY <1>1, <1>2 DEF SessionsKnown

LEMMA LiveIsListed ==
  ASSUME SessionsKnown, NEW t \in Tokens, sessions[t] # NoOne
  PROVE  /\ sessions[t] \in Owners /\ t \in issued
         /\ t \in index[sessions[t]] \cup stray \/ Listing(t)
BY DEF SessionsKnown, SessionsTyped, ListedOrStray, LiveSessions, Listing

\* Nothing but p's place changes, and p holds no list that it has to finish.
LEMMA PlaceFrame ==
  ASSUME SessionsKnown, NEW p \in Procs, UNCHANGED <<sessions, issued, stray>>,
         \A q \in Procs \ {p} : proc'[q] = proc[q], proc[p].pc # "list"
  PROVE  SessionFrame(p) /\ \A t : Listing(t) => Listing(t)'
BY DEF SessionFrame, Listing

LEMMA StoreKnown ==
  ASSUME SessionsKnown, NEW p \in Procs, StoreSession(p)
  PROVE  SessionsKnown'
<1>1. PICK t \in Tokens \ issued :
        /\ proc[p].pc = "issue"
        /\ sessions' = [sessions EXCEPT ![t] = proc[p].owner]
        /\ issued' = issued \cup {t}
        /\ proc' = [proc EXCEPT ![p].pc = "list", ![p].token = t]
        /\ UNCHANGED <<index, stray>>
  BY DEF StoreSession
<1>2. proc[p].owner \in Owners /\ SessionsTyped
  BY <1>1 DEF SessionsKnown, ProcKnows
<1>3. /\ proc'[p].pc = "list" /\ proc'[p].token = t /\ proc'[p].owner = proc[p].owner
      /\ proc' \in [Procs -> ProcRow]
      /\ \A q \in Procs \ {p} : proc'[q] = proc[q]
  <2> DEFINE row == [proc[p] EXCEPT !.pc = "list", !.token = t]
  <2>1. proc[p] \in ProcRow
    BY <1>2 DEF SessionsTyped
  <2>2. row \in ProcRow /\ row.pc = "list" /\ row.token = t /\ row.owner = proc[p].owner
    BY <2>1 DEF ProcRow, Pcs
  <2>3. proc' = [proc EXCEPT ![p] = row]
    BY <1>1, <1>2 DEF SessionsTyped
  <2> HIDE DEF row
  <2>4. QED
    BY <1>2, <2>2, <2>3, ProcSet
<1>4. /\ sessions'[t] = proc[p].owner
      /\ \A r \in Tokens \ {t} : sessions'[r] = sessions[r]
  BY <1>1, <1>2 DEF SessionsTyped
<1>5. \A r : Listing(r) => Listing(r)'
  BY <1>1, <1>3 DEF Listing
<1>6. Listing(t)'
  BY <1>3 DEF Listing
<1>7. SessionFrame(p)
  BY <1>1, <1>3, <1>4, <1>5, <1>6 DEF SessionFrame
<1>8. SessionsTyped' /\ ProcKnows(p)'
  BY <1>1, <1>2, <1>3, <1>4 DEF SessionsTyped, ProcKnows, HoldsToken
<1>9. \A r \in Tokens : sessions'[r] # NoOne =>
        /\ r \in issued'
        /\ r \in index'[sessions'[r]] \cup stray' \/ Listing(r)'
  BY <1>1, <1>4, <1>5, <1>6, LiveIsListed
<1>10. QED
  BY <1>7, <1>8, <1>9, SessionsMove

LEMMA RememberKnown ==
  ASSUME SessionsKnown, NEW p \in Procs, RememberRefreshToken(p)
  PROVE  SessionsKnown'
<1> DEFINE u == proc[p].owner
           t == proc[p].token
<1>1. /\ proc[p].pc = "list" /\ proc' = [proc EXCEPT ![p] = IdleProc]
      /\ index' = [index EXCEPT ![u] = @ \cup {t}]
      /\ stray' = IF Revoking(u) THEN stray \cup {t} ELSE stray
      /\ UNCHANGED <<sessions, issued>>
  BY DEF RememberRefreshToken, End
<1>2. u \in Owners /\ t \in issued \cap Tokens /\ sessions[t] \in {u, NoOne} /\ SessionsTyped
  BY <1>1 DEF SessionsKnown, ProcKnows, HoldsToken
<1> HIDE DEF u
<1>3. /\ proc'[p] = IdleProc /\ proc' \in [Procs -> ProcRow]
      /\ \A q \in Procs \ {p} : proc'[q] = proc[q]
  BY <1>1, <1>2, IdleTyped, ProcSet
<1>4. /\ index'[u] = index[u] \cup {t} /\ index' \in [Owners -> SUBSET Tokens]
      /\ \A v \in Owners \ {u} : index'[v] = index[v]
  BY <1>1, <1>2 DEF SessionsTyped
<1>5. \A r \in Tokens \ {t} : Listing(r) => Listing(r)'
  BY <1>1, <1>3 DEF Listing
<1>6. SessionFrame(p)
  <2>1. t \in stray' \/ ~Revoking(sessions[t])
    <3>1. CASE sessions[t] = u
      BY <1>1, <3>1
    <3>2. CASE sessions[t] = NoOne
      <4>1. ~Revoking(NoOne)
        BY SessionsAssumption DEF Revoking, SessionsKnown, ProcKnows
      <4>2. QED
        BY <3>2, <4>1
    <3>3. QED
      BY <1>2, <3>1, <3>2
  <2>2. QED
    BY <1>1, <1>3, <1>5, <2>1 DEF SessionFrame
<1>7. SessionsTyped' /\ ProcKnows(p)'
  BY <1>1, <1>2, <1>3, <1>4 DEF SessionsTyped, ProcKnows, HoldsToken, IdleProc
<1>8. \A r \in Tokens : sessions'[r] # NoOne =>
        /\ r \in issued'
        /\ r \in index'[sessions'[r]] \cup stray' \/ Listing(r)'
  <2> SUFFICES ASSUME NEW r \in Tokens, sessions[r] # NoOne
               PROVE  /\ r \in issued'
                      /\ r \in index'[sessions[r]] \cup stray' \/ Listing(r)'
    BY <1>1
  <2>1. /\ sessions[r] \in Owners /\ r \in issued
        /\ r \in index[sessions[r]] \cup stray \/ Listing(r)
    BY LiveIsListed
  <2>2. CASE r = t
    BY <1>1, <1>2, <1>4, <2>1, <2>2
  <2>3. CASE r # t
    BY <1>1, <1>4, <1>5, <2>1, <2>3
  <2>4. QED
    BY <2>2, <2>3
<1>9. QED
  BY <1>6, <1>7, <1>8, SessionsMove

\* Only p's place changes.
LEMMA PlaceKnown ==
  ASSUME SessionsKnown, NEW p \in Procs, UNCHANGED <<sessions, index, issued, stray>>,
         proc' \in [Procs -> ProcRow], \A q \in Procs \ {p} : proc'[q] = proc[q],
         proc[p].pc # "list", ProcKnows(p)'
  PROVE  SessionsKnown'
<1>1. SessionFrame(p) /\ \A t : Listing(t) => Listing(t)'
  BY PlaceFrame
<1>2. SessionsTyped'
  BY DEF SessionsKnown, SessionsTyped
<1>3. QED
  BY <1>1, <1>2, LiveIsListed, SessionsMove

LEMMA GetKnown ==
  ASSUME SessionsKnown, NEW p \in Procs, NEW t \in Tokens, RefreshGet(p, t) \/ LogoutGet(p, t)
  PROVE  SessionsKnown'
<1>1. PICK pc \in {"check", "logout"} :
        /\ proc[p].pc = "idle" /\ sessions[t] # NoOne
        /\ proc' = [proc EXCEPT ![p] = [IdleProc EXCEPT !.pc = pc, !.token = t,
                                                        !.owner = sessions[t]]]
        /\ UNCHANGED <<sessions, index, issued, stray>>
  BY DEF RefreshGet, LogoutGet
<1> DEFINE row == [IdleProc EXCEPT !.pc = pc, !.token = t, !.owner = sessions[t]]
<1>2. sessions[t] \in Owners /\ t \in issued /\ SessionsTyped
  BY <1>1, LiveIsListed DEF SessionsKnown
<1>3. row.pc = pc /\ row.token = t /\ row.owner = sessions[t] /\ row \in ProcRow
  BY <1>2 DEF IdleProc, ProcRow, Pcs
<1>4. proc' = [proc EXCEPT ![p] = row]
  BY <1>1
<1> HIDE DEF row
<1>5. /\ proc' \in [Procs -> ProcRow] /\ proc'[p] = row
      /\ \A q \in Procs \ {p} : proc'[q] = proc[q]
  BY <1>2, <1>3, <1>4, ProcSet
<1>6. ProcKnows(p)'
  BY <1>1, <1>2, <1>3, <1>5 DEF ProcKnows, HoldsToken
<1>7. QED
  BY <1>1, <1>5, <1>6, PlaceKnown

LEMMA StepKnown ==
  ASSUME SessionsKnown, NEW p \in Procs,
         RevokeRead(p) \/ \E active \in BOOLEAN : RefreshCheck(p, active)
  PROVE  SessionsKnown'
<1>0. SessionsTyped /\ ProcKnows(p) /\ proc[p].todo \in SUBSET Tokens
  BY ProcFields DEF SessionsKnown
<1>1. CASE RevokeRead(p)
  <2> DEFINE u == proc[p].owner
  <2>1. /\ proc[p].pc = "revoke" /\ UNCHANGED <<sessions, index, issued, stray>>
        /\ proc' = [proc EXCEPT ![p].pc = "revoking", ![p].todo = index[u]]
    BY <1>1 DEF RevokeRead
  <2>2. u \in Owners
    BY <1>0, <2>1 DEF ProcKnows
  <2>3. /\ proc'[p].pc = "revoking" /\ proc'[p].owner = u /\ proc'[p].todo = index[u]
        /\ proc' \in [Procs -> ProcRow]
        /\ \A q \in Procs \ {p} : proc'[q] = proc[q]
    <3> DEFINE row == [proc[p] EXCEPT !.pc = "revoking", !.todo = index[u]]
    <3>1. proc[p] \in ProcRow /\ index[u] \in SUBSET Tokens
      BY <1>0, <2>2 DEF SessionsTyped
    <3>2. row \in ProcRow /\ row.pc = "revoking" /\ row.todo = index[u] /\ row.owner = u
      BY <3>1 DEF ProcRow, Pcs
    <3>3. proc' = [proc EXCEPT ![p] = row]
      BY <1>0, <2>1 DEF SessionsTyped
    <3> HIDE DEF row
    <3>4. QED
      BY <1>0, <3>2, <3>3, ProcSet
  <2>4. \A t \in Tokens : sessions[t] = u => t \in index[u] \cup stray \/ Listing(t)'
    BY <2>1, <2>2, <2>3, LiveIsListed, PlaceFrame, SessionsAssumption
  <2>5. ProcKnows(p)'
    BY <2>1, <2>2, <2>3, <2>4 DEF ProcKnows, HoldsToken, LiveSessions
  <2>6. QED
    BY <2>1, <2>3, <2>5, PlaceKnown
<1>2. ASSUME NEW active \in BOOLEAN, RefreshCheck(p, active)
      PROVE  SessionsKnown'
  <2> DEFINE to == IF active THEN "rotate" ELSE "expel"
  <2>1. /\ proc[p].pc = "check" /\ proc' = [proc EXCEPT ![p].pc = to]
        /\ to \in {"rotate", "expel"} /\ UNCHANGED <<sessions, index, issued, stray>>
    BY <1>2 DEF RefreshCheck, Step
  <2> HIDE DEF to
  <2>2. /\ proc' \in [Procs -> ProcRow] /\ proc'[p].pc = to
        /\ proc'[p].owner = proc[p].owner /\ proc'[p].token = proc[p].token
        /\ \A q \in Procs \ {p} : proc'[q] = proc[q]
    BY <1>0, <2>1, ProcStep DEF Pcs
  <2>3. ProcKnows(p)'
    BY <1>0, <2>1, <2>2 DEF ProcKnows, HoldsToken
  <2>4. QED
    BY <2>1, <2>2, <2>3, PlaceKnown
<1>3. QED
  BY <1>1, <1>2

LEMMA ForgetKnown ==
  ASSUME SessionsKnown, NEW p \in Procs, ForgetSession(p)
  PROVE  SessionsKnown'
<1> DEFINE t == proc[p].token
<1>1. PICK to \in {"rotated", "expelled", "loggedout"} :
        /\ proc[p].pc \in {"rotate", "expel", "logout"}
        /\ sessions' = [sessions EXCEPT ![t] = NoOne]
        /\ proc' = [proc EXCEPT ![p].pc = to]
        /\ UNCHANGED <<index, issued, stray>>
  BY DEF ForgetSession, Step, Forgotten
<1>2. /\ SessionsTyped /\ ProcKnows(p) /\ t \in issued \cap Tokens
      /\ proc[p].owner \in Owners
  BY <1>1 DEF SessionsKnown, ProcKnows, HoldsToken
<1>3. /\ proc' \in [Procs -> ProcRow] /\ proc'[p].pc = to
      /\ proc'[p].owner = proc[p].owner /\ proc'[p].token = t
      /\ \A q \in Procs \ {p} : proc'[q] = proc[q]
  BY <1>1, <1>2, ProcStep DEF Pcs
<1>4. /\ sessions'[t] = NoOne /\ sessions' \in [Tokens -> Owners \cup {NoOne}]
      /\ \A r \in Tokens \ {t} : sessions'[r] = sessions[r]
  BY <1>1, <1>2 DEF SessionsTyped
<1>5. \A r : Listing(r) => Listing(r)'
  BY <1>1, <1>3 DEF Listing
<1>6. SessionFrame(p)
  BY <1>1, <1>3, <1>4, <1>5 DEF SessionFrame
<1>7. SessionsTyped' /\ ProcKnows(p)'
  BY <1>1, <1>2, <1>3, <1>4 DEF SessionsTyped, ProcKnows, HoldsToken
<1>8. \A r \in Tokens : sessions'[r] # NoOne =>
        /\ r \in issued'
        /\ r \in index'[sessions'[r]] \cup stray' \/ Listing(r)'
  BY <1>1, <1>4, <1>5, LiveIsListed
<1>9. QED
  BY <1>6, <1>7, <1>8, SessionsMove

LEMMA ForgetListedKnown ==
  ASSUME SessionsKnown, NEW p \in Procs, ForgetListed(p)
  PROVE  SessionsKnown'
<1> DEFINE t == proc[p].token
           u == proc[p].owner
<1>1. /\ proc[p].pc \in {"rotated", "expelled", "loggedout"}
      /\ \/ \E to \in {"issue", "revoke"} : proc' = [proc EXCEPT ![p].pc = to]
         \/ proc' = [proc EXCEPT ![p] = IdleProc]
      /\ index' = [index EXCEPT ![u] = @ \ {t}]
      /\ UNCHANGED <<sessions, issued, stray>>
  BY DEF ForgetListed, Step, End
<1>2. /\ SessionsTyped /\ ProcKnows(p) /\ u \in Owners
      /\ t \in issued \cap Tokens /\ sessions[t] = NoOne
  BY <1>1 DEF SessionsKnown, ProcKnows, HoldsToken
<1> HIDE DEF u, t
<1>3. /\ proc' \in [Procs -> ProcRow] /\ proc'[p].pc \in {"issue", "revoke", "idle"}
      /\ proc'[p].pc # "idle" => proc'[p].owner = u
      /\ \A q \in Procs \ {p} : proc'[q] = proc[q]
  <2>1. CASE \E to \in {"issue", "revoke"} : proc' = [proc EXCEPT ![p].pc = to]
    BY <1>2, <2>1, ProcStep DEF Pcs, u
  <2>2. CASE proc' = [proc EXCEPT ![p] = IdleProc]
    BY <1>2, <2>2, ProcSet, IdleTyped DEF IdleProc
  <2>3. QED
    BY <1>1, <2>1, <2>2
<1>4. /\ index' \in [Owners -> SUBSET Tokens]
      /\ \A v \in Owners, r \in Tokens \ {t} : r \in index[v] => r \in index'[v]
  BY <1>1, <1>2 DEF SessionsTyped
<1>5. SessionFrame(p) /\ \A r : Listing(r) => Listing(r)'
  BY <1>1, <1>3, PlaceFrame
<1>6. SessionsTyped' /\ ProcKnows(p)'
  BY <1>1, <1>2, <1>3, <1>4 DEF SessionsTyped, ProcKnows, HoldsToken
<1>7. \A r \in Tokens : sessions'[r] # NoOne =>
        /\ r \in issued'
        /\ r \in index'[sessions'[r]] \cup stray' \/ Listing(r)'
  BY <1>1, <1>2, <1>4, <1>5, LiveIsListed
<1>8. QED
  BY <1>5, <1>6, <1>7, SessionsMove

LEMMA RevokeTokenKnown ==
  ASSUME SessionsKnown, NEW p \in Procs, RevokeToken(p)
  PROVE  SessionsKnown'
<1> DEFINE u == proc[p].owner
<1>1. PICK t \in proc[p].todo :
        /\ proc[p].pc = "revoking" /\ sessions' = [sessions EXCEPT ![t] = NoOne]
        /\ proc' = [proc EXCEPT ![p].todo = @ \ {t}]
        /\ UNCHANGED <<index, issued, stray>>
  BY DEF RevokeToken
<1>2. /\ SessionsTyped /\ ProcKnows(p) /\ u \in Owners
      /\ proc[p].todo \in SUBSET Tokens
  BY <1>1, ProcFields DEF SessionsKnown, ProcKnows
<1>3. /\ proc' \in [Procs -> ProcRow] /\ proc'[p].pc = "revoking"
      /\ proc'[p].owner = u /\ proc'[p].todo = proc[p].todo \ {t}
      /\ \A q \in Procs \ {p} : proc'[q] = proc[q]
  BY <1>1, <1>2 DEF SessionsTyped, ProcRow
<1>4. /\ sessions'[t] = NoOne /\ sessions' \in [Tokens -> Owners \cup {NoOne}]
      /\ \A r \in Tokens \ {t} : sessions'[r] = sessions[r]
  BY <1>1, <1>2 DEF SessionsTyped
<1>5. \A r : Listing(r) => Listing(r)'
  BY <1>1, <1>3 DEF Listing
<1>6. SessionFrame(p)
  BY <1>1, <1>3, <1>4, <1>5 DEF SessionFrame
<1>7. ProcKnows(p)'
  <2>1. ASSUME NEW r \in Tokens, sessions'[r] = u
        PROVE  r \in proc'[p].todo \cup stray' \/ Listing(r)'
    <3>1. r # t /\ sessions[r] = u
      BY <1>2, <1>4, <2>1, SessionsAssumption
    <3>2. r \in proc[p].todo \cup stray \/ Listing(r)
      BY <1>1, <1>2, <3>1 DEF ProcKnows, LiveSessions
    <3>3. QED
      BY <1>1, <1>3, <1>5, <3>1, <3>2
  <2>2. QED
    BY <1>2, <1>3, <2>1 DEF ProcKnows, HoldsToken, LiveSessions
<1>8. SessionsTyped'
  BY <1>1, <1>2, <1>3, <1>4 DEF SessionsTyped
<1>9. \A r \in Tokens : sessions'[r] # NoOne =>
        /\ r \in issued'
        /\ r \in index'[sessions'[r]] \cup stray' \/ Listing(r)'
  BY <1>1, <1>4, <1>5, LiveIsListed
<1>10. QED
  BY <1>6, <1>7, <1>8, <1>9, SessionsMove

LEMMA RevokeIndexKnown ==
  ASSUME SessionsKnown, NEW p \in Procs, RevokeIndex(p)
  PROVE  SessionsKnown'
<1> DEFINE u == proc[p].owner
<1>1. /\ proc[p].pc = "revoking" /\ proc[p].todo = {}
      /\ proc' = [proc EXCEPT ![p] = IdleProc] /\ index' = [index EXCEPT ![u] = {}]
      /\ UNCHANGED <<sessions, issued, stray>>
  BY DEF RevokeIndex, End
<1>2. SessionsTyped /\ ProcKnows(p) /\ u \in Owners
  BY <1>1 DEF SessionsKnown, ProcKnows
<1>3. \A r \in Tokens : sessions[r] = u => r \in stray \/ Listing(r)
  BY <1>1, <1>2 DEF ProcKnows, LiveSessions
<1> HIDE DEF u
<1>4. /\ proc' \in [Procs -> ProcRow] /\ proc'[p] = IdleProc
      /\ \A q \in Procs \ {p} : proc'[q] = proc[q]
  BY <1>1, <1>2, IdleTyped, ProcSet
<1>5. /\ index' \in [Owners -> SUBSET Tokens]
      /\ \A v \in Owners \ {u} : index'[v] = index[v]
  BY <1>1, <1>2 DEF SessionsTyped
<1>6. SessionFrame(p) /\ \A r : Listing(r) => Listing(r)'
  BY <1>1, <1>4, PlaceFrame
<1>7. SessionsTyped' /\ ProcKnows(p)'
  BY <1>1, <1>2, <1>4, <1>5 DEF SessionsTyped, ProcKnows, HoldsToken, IdleProc
<1>8. \A r \in Tokens : sessions'[r] # NoOne =>
        /\ r \in issued'
        /\ r \in index'[sessions'[r]] \cup stray' \/ Listing(r)'
  BY <1>1, <1>3, <1>5, <1>6, LiveIsListed
<1>9. QED
  BY <1>6, <1>7, <1>8, SessionsMove

LEMMA DeathKnown ==
  ASSUME SessionsKnown, NEW p \in Procs, RequestDies(p)
  PROVE  SessionsKnown'
<1> DEFINE t == proc[p].token
<1>1. /\ proc' = [proc EXCEPT ![p] = IdleProc]
      /\ stray' = IF proc[p].pc = "list" THEN stray \cup {t} ELSE stray
      /\ UNCHANGED <<sessions, index, issued>>
  BY DEF RequestDies
<1>2. SessionsTyped
  BY DEF SessionsKnown
<1>3. /\ proc' \in [Procs -> ProcRow] /\ proc'[p] = IdleProc
      /\ \A q \in Procs \ {p} : proc'[q] = proc[q]
  BY <1>1, <1>2, IdleTyped, ProcSet
<1>4. \A r : Listing(r) => Listing(r)' \/ r \in stray'
  BY <1>1, <1>3 DEF Listing
<1>5. SessionFrame(p)
  BY <1>1, <1>3, <1>4 DEF SessionFrame
<1>6. SessionsTyped' /\ ProcKnows(p)'
  BY <1>1, <1>2, <1>3 DEF SessionsTyped, ProcKnows, HoldsToken, IdleProc
<1>7. \A r \in Tokens : sessions'[r] # NoOne =>
        /\ r \in issued'
        /\ r \in index'[sessions'[r]] \cup stray' \/ Listing(r)'
  BY <1>1, <1>4, LiveIsListed
<1>8. QED
  BY <1>5, <1>6, <1>7, SessionsMove

LEMMA ContinueKnown ==
  ASSUME SessionsKnown, NEW p \in Procs, proc[p].pc = "idle", NEW u \in Owners,
         NEW pc \in {"issue", "revoke"}, Continue(p, u, pc)
  PROVE  SessionsKnown'
<1> DEFINE row == [IdleProc EXCEPT !.pc = pc, !.owner = u]
<1>1. proc' = [proc EXCEPT ![p] = row] /\ UNCHANGED <<sessions, index, issued, stray>>
  BY DEF Continue
<1>2. row \in ProcRow /\ row.pc = pc /\ row.owner = u
  BY DEF IdleProc, ProcRow, Pcs
<1> HIDE DEF row
<1>3. /\ proc' \in [Procs -> ProcRow] /\ proc'[p] = row
      /\ \A q \in Procs \ {p} : proc'[q] = proc[q]
  BY <1>1, <1>2, ProcSet DEF SessionsKnown
<1>4. ProcKnows(p)'
  BY <1>2, <1>3 DEF ProcKnows, HoldsToken
<1>5. QED
  BY <1>1, <1>3, <1>4, PlaceKnown

LEMMA RequestKnown ==
  ASSUME SessionsKnown, NEW p \in Procs,
         SessionStep(p) \/ (\E active \in BOOLEAN : RefreshCheck(p, active)) \/ RequestDies(p)
  PROVE  SessionsKnown'
BY StoreKnown, RememberKnown, GetKnown, StepKnown, ForgetKnown, ForgetListedKnown,
   RevokeTokenKnown, RevokeIndexKnown, DeathKnown DEF SessionStep

LEMMA SessionsInitKnown == SessionsInit => SessionsKnown
<1> SUFFICES ASSUME SessionsInit PROVE SessionsKnown
  OBVIOUS
<1>1. SessionsTyped
  BY IdleTyped DEF SessionsInit, SessionsTyped
<1>2. \A t \in Tokens : sessions[t] = NoOne
  BY DEF SessionsInit
<1>3. \A p \in Procs : proc[p].pc = "idle"
  BY DEF SessionsInit, IdleProc
<1>4. \A p \in Procs : ProcKnows(p)
  BY <1>3 DEF ProcKnows, HoldsToken
<1>5. ListedOrStray
  BY <1>2, SessionsAssumption DEF ListedOrStray, LiveSessions
<1>6. QED
  BY <1>1, <1>2, <1>4, <1>5 DEF SessionsKnown

-----------------------------------------------------------------------------
(* The accounts: what a step leaves to whoever has read them before        *)

AccountFrame ==
  /\ late \subseteq late'
  /\ \A u \in Owners :
       /\ users[u].status # "none" => users'[u].status # "none"
       /\ users[u].balance >= 0 => users'[u].balance >= 0
  /\ \A o \in Orders :
       /\ orders[o].owner \in {NoOne, orders'[o].owner}
       /\ \/ orders'[o] = orders[o]
          \/ /\ orders'[o].owner = orders[o].owner
             /\ \/ orders'[o].status \in Terminal
                \/ orders'[o].status = "IN_DELIVERY" /\ orders[o].status \notin Terminal
          \/ o \in late' \/ ~Ending(orders'[o].owner)

\* The parts of OrdersEnd and DeletedIsAnonymous.
OrdersOver(u) == \A o \in OrdersOf(u) \ late : orders[o].status \in Terminal
NoneActive(u) == \A o \in OrdersOf(u) \ late : orders[o].status # "active"
Guarded(u) == u \in broken \/ \E p \in Procs : job[p].op = "block" /\ job[p].user = u
Anonymous(u) ==
  /\ ~users[u].phone /\ ~users[u].profile
  /\ users[u].address => u \in late
  /\ users[u].balance > 0 => OrdersOf(u) \cap late # {}

LEMMA EndsAre ==
  /\ OrdersEnd <=> \A u \in Owners :
       /\ users[u].status = "DELETED" => OrdersOver(u)
       /\ users[u].status = "BLOCKED" => Guarded(u) \/ NoneActive(u)
  /\ DeletedIsAnonymous <=>
       \A u \in Owners : users[u].status = "DELETED" => Anonymous(u)
BY DEF OrdersEnd, OrdersOver, NoneActive, Guarded, OrdersOf, DeletedIsAnonymous, Anonymous

LEMMA JobStays ==
  ASSUME AccountsKnown, AccountFrame, NEW q \in Procs, job'[q] = job[q]
  PROVE  JobKnows(q)'
<1> DEFINE u == job[q].user
<1>1. JobKnows(q)
  BY DEF AccountsKnown
<1>2. job[q].op \notin {"none", "move"} => u \in Owners
  BY <1>1 DEF JobKnows
<1>3. /\ job[q].op = "activate" => users'[u].status # "none"
      /\ job[q].op \in {"checkout", "address", "block", "delete"} => users'[u].balance >= 0
  BY <1>1, <1>2 DEF JobKnows, AccountFrame
<1>4. ASSUME job[q].op \in {"block", "delete"}, NEW o \in OrdersOf(u)' \ late'
      PROVE  \/ orders'[o] = orders[o] /\ o \in OrdersOf(u) \ late
             \/ orders'[o].status \in Terminal
             \/ /\ orders'[o].status = "IN_DELIVERY"
                /\ orders[o].status \notin Terminal /\ o \in OrdersOf(u) \ late
  <2>1. Ending(u) /\ orders'[o].owner = u
    BY <1>4 DEF Ending, OrdersOf
  <2>2. o \in Orders
    BY <1>4 DEF OrdersOf
  <2>3. QED
    BY <1>4, <2>1, <2>2 DEF AccountFrame, OrdersOf
<1>5. job[q].op = "delete" =>
        \A o \in OrdersOf(u)' \ late' :
          orders'[o].status \in Terminal \/ o \in job[q].todo
  BY <1>1, <1>4 DEF JobKnows
<1>6. job[q].op = "block" /\ job[q].seen # "select" =>
        \A o \in OrdersOf(u)' \ late' : orders'[o].status = "active" => o \in job[q].todo
  BY <1>1, <1>4 DEF JobKnows, Terminal
<1>7. \A o \in job[q].todo : u \in Owners /\ orders'[o].owner = u
  <2>1. job[q].todo \subseteq Orders
    BY DEF AccountsKnown, AccountsTyped, JobRow
  <2>2. QED
    BY <1>1, <2>1, SessionsAssumption DEF JobKnows, AccountFrame
<1>8. job[q].op = "move" => orders'[job[q].order].owner \in Owners
  BY <1>1, SessionsAssumption DEF JobKnows, AccountFrame
<1>9. QED
  BY <1>1, <1>2, <1>3, <1>5, <1>6, <1>7, <1>8 DEF JobKnows, OrdersOf

\* What is left to show of a step that keeps the frame.
LEMMA AccountsMove ==
  ASSUME AccountsKnown, AccountFrame, AccountsTyped',
         \A u \in Owners : UserStands(u)', \A o \in Orders : OrderStands(o)',
         \A q \in Procs : JobKnows(q)' \/ job'[q] = job[q],
         \A u \in Owners : users'[u].status = "DELETED" =>
           /\ users'[u] = users[u] \/ Anonymous(u)'
           /\ users[u].status = "DELETED" \/ OrdersOver(u)',
         \A u \in Owners : users'[u].status = "BLOCKED" =>
           \/ users[u].status = "BLOCKED" /\ (Guarded(u) => Guarded(u)')
           \/ Guarded(u)' \/ NoneActive(u)'
  PROVE  AccountsKnown'
<1>1. \A q \in Procs : JobKnows(q)'
  BY JobStays
<1>2. ASSUME NEW u \in Owners, users[u].status \in Ended, NEW o \in OrdersOf(u)' \ late'
      PROVE  \/ orders'[o] = orders[o] /\ o \in OrdersOf(u) \ late
             \/ orders'[o].status \in Terminal
             \/ /\ orders'[o].status = "IN_DELIVERY"
                /\ orders[o].status \notin Terminal /\ o \in OrdersOf(u) \ late
  <2>1. Ending(u) /\ orders'[o].owner = u /\ o \in Orders
    BY <1>2 DEF Ending, OrdersOf
  <2>2. QED
    BY <1>2, <2>1 DEF AccountFrame, OrdersOf
<1>3. ASSUME NEW u \in Owners, users'[u].status = "DELETED"
      PROVE  OrdersOver(u)'
  <2>1. CASE users[u].status = "DELETED"
    <3>1. OrdersOver(u)
      BY <2>1, EndsAre DEF AccountsKnown
    <3>2. QED
      BY <1>2, <2>1, <3>1 DEF OrdersOver, Ended
  <2>2. QED
    BY <1>3, <2>1
<1>4. ASSUME NEW u \in Owners, users'[u].status = "BLOCKED"
      PROVE  Guarded(u)' \/ NoneActive(u)'
  <2>1. CASE users[u].status = "BLOCKED" /\ (Guarded(u) => Guarded(u)')
    <3>1. Guarded(u) \/ NoneActive(u)
      BY <2>1, EndsAre DEF AccountsKnown
    <3>2. QED
      BY <1>2, <2>1, <3>1 DEF NoneActive, Ended, Terminal
  <2>2. QED
    BY <1>4, <2>1
<1>5. ASSUME NEW u \in Owners, users'[u].status = "DELETED"
      PROVE  Anonymous(u)'
  <2>1. CASE users'[u] = users[u]
    <3>1. Anonymous(u)
      BY <1>5, <2>1, EndsAre DEF AccountsKnown
    <3>2. OrdersOf(u) \cap late \subseteq OrdersOf(u)' \cap late'
      BY SessionsAssumption DEF AccountFrame, OrdersOf
    <3>3. QED
      BY <2>1, <3>1, <3>2 DEF Anonymous, AccountFrame
  <2>2. QED
    BY <1>5, <2>1
<1>6. OrdersEnd' /\ DeletedIsAnonymous'
  BY <1>3, <1>4, <1>5 DEF OrdersEnd, OrdersOver, NoneActive, Guarded, OrdersOf,
     DeletedIsAnonymous, Anonymous
<1>7. QED
  BY <1>1, <1>6 DEF AccountsKnown

-----------------------------------------------------------------------------
(* Steps that write neither users nor orders                               *)

LEMMA NoJobTyped ==
  /\ NoJob \in JobRow /\ NoJob.op = "none" /\ NoJob.seen = "none" /\ NoJob.todo = {}
  /\ NoJob.order = NoOne
BY DEF NoJob, JobRow, JobOps, Seen

LEMMA JobSet ==
  ASSUME AccountsTyped, NEW p \in Procs, NEW row \in JobRow, job' = [job EXCEPT ![p] = row]
  PROVE  /\ job' \in [Procs -> JobRow] /\ job'[p] = row
         /\ \A q \in Procs \ {p} : job'[q] = job[q]
BY DEF AccountsTyped

LEMMA JobFields ==
  ASSUME AccountsTyped, NEW p \in Procs
  PROVE  /\ job[p].op \in JobOps /\ job[p].user \in Owners \cup {NoOne}
         /\ job[p].seen \in Seen /\ job[p].todo \in SUBSET Orders
         /\ job[p].fresh \in BOOLEAN /\ job[p].order \in Orders \cup {NoOne}
         /\ job[p].balance \in Nat
BY DEF AccountsTyped, JobRow

LEMMA IdleJobKnows ==
  ASSUME NEW p \in Procs, job'[p] = NoJob
  PROVE  JobKnows(p)'
BY NoJobTyped DEF JobKnows

LEMMA JobMoves ==
  ASSUME AccountsKnown, UNCHANGED <<users, orders>>, late \subseteq late',
         broken \subseteq broken', NEW p \in Procs, job' \in [Procs -> JobRow],
         \A q \in Procs \ {p} : job'[q] = job[q], JobKnows(p)' \/ job'[p] = job[p],
         job[p].op = "block" =>
           \/ job'[p].op = "block" /\ job'[p].user = job[p].user
           \/ job[p].user \in broken' \/ NoneActive(job[p].user)
  PROVE  AccountsKnown'
<1>1. AccountFrame
  BY DEF AccountFrame
<1>2. AccountsTyped' /\ (\A u \in Owners : UserStands(u)') /\ (\A o \in Orders : OrderStands(o)')
  BY DEF AccountsKnown, AccountsTyped, UserStands, OrderStands
<1>3. ASSUME NEW u \in Owners, Guarded(u)
      PROVE  Guarded(u)' \/ NoneActive(u)'
  <2>1. CASE \E q \in Procs \ {p} : job[q].op = "block" /\ job[q].user = u
    BY <2>1 DEF Guarded
  <2>2. CASE job[p].op = "block" /\ job[p].user = u
    BY <2>2 DEF Guarded, NoneActive, OrdersOf
  <2>3. QED
    BY <1>3, <2>1, <2>2 DEF Guarded
<1>4. QED
  BY <1>1, <1>2, <1>3, AccountsMove

-----------------------------------------------------------------------------
(* Requests that only read                                                 *)

LEMMA RequestAccounts ==
  ASSUME AccountsKnown, NEW p \in Procs, NEW u \in Owners,
         NEW op \in {"checkout", "address"}, Request(p, u, op)
  PROVE  AccountsKnown'
<1> DEFINE b == IF op = "checkout" THEN users[u].balance ELSE 0
           row == [NoJob EXCEPT !.op = op, !.user = u, !.balance = b]
<1>1. job' = [job EXCEPT ![p] = row] /\ users[u].balance >= 0
  BY DEF Request
<1>2. UNCHANGED <<users, orders, late, broken>> /\ job[p].op = "none"
  BY DEF Request, Free
<1>3. b \in Nat
  BY <1>1 DEF AccountsKnown, AccountsTyped, UserRow
<1> HIDE DEF b
<1>4. row \in JobRow /\ row.op = op /\ row.user = u /\ row.seen = "none" /\ row.todo = {}
  BY <1>3 DEF NoJob, JobRow, JobOps, Seen
<1> HIDE DEF row
<1>5. job' \in [Procs -> JobRow] /\ job'[p] = row /\ \A q \in Procs \ {p} : job'[q] = job[q]
  BY <1>1, <1>4, JobSet DEF AccountsKnown
<1>6. JobKnows(p)'
  BY <1>1, <1>2, <1>4, <1>5 DEF JobKnows
<1>7. QED
  BY <1>2, <1>5, <1>6, JobMoves

\* The request ends, and whatever it has noted is kept.
LEMMA JobEnds ==
  ASSUME AccountsKnown, UNCHANGED <<users, orders>>, late \subseteq late',
         broken \subseteq broken', NEW p \in Procs, job' = [job EXCEPT ![p] = NoJob],
         job[p].op = "block" => job[p].user \in broken' \/ NoneActive(job[p].user)
  PROVE  AccountsKnown'
<1>1. job' \in [Procs -> JobRow] /\ job'[p] = NoJob /\ \A q \in Procs \ {p} : job'[q] = job[q]
  BY NoJobTyped, JobSet DEF AccountsKnown
<1>2. JobKnows(p)'
  BY <1>1, IdleJobKnows
<1>3. QED
  BY <1>1, <1>2, JobMoves

LEMMA BlockSelectAccounts ==
  ASSUME AccountsKnown, NEW p \in Procs, BlockSelect(p)
  PROVE  AccountsKnown'
<1> DEFINE u == job[p].user
           row == [job[p] EXCEPT !.seen = "cascade", !.todo = Cancellable(u)]
<1>1. job' = [job EXCEPT ![p] = row] /\ job[p].op = "block"
  BY DEF BlockSelect
<1>2. UNCHANGED <<users, orders, late, broken>> /\ job[p] \in JobRow /\ JobKnows(p)
  BY DEF BlockSelect, AccountsKnown, AccountsTyped
<1>3. Cancellable(u) \in SUBSET Orders
  BY DEF Cancellable, OrdersOf
<1>4. /\ row \in JobRow /\ row.op = "block" /\ row.user = u /\ row.seen = "cascade"
      /\ row.todo = Cancellable(u)
  BY <1>1, <1>2, <1>3 DEF JobRow, Seen
<1>a. job[p].seen = "select" /\ row.order = NoOne
  BY <1>1, <1>2 DEF BlockSelect, JobKnows, JobRow
<1> HIDE DEF row
<1>5. job' \in [Procs -> JobRow] /\ job'[p] = row /\ \A q \in Procs \ {p} : job'[q] = job[q]
  BY <1>1, <1>4, JobSet DEF AccountsKnown
<1>6. /\ users[u].balance >= 0 /\ u \in Owners
      /\ \A o \in row.todo : orders[o].owner = u
      /\ \A o \in OrdersOf(u) \ late : orders[o].status = "active" => o \in row.todo
  BY <1>1, <1>2, <1>4 DEF JobKnows, Cancellable, OrdersOf
<1>7. JobKnows(p)'
  BY <1>2, <1>4, <1>a, <1>5, <1>6 DEF JobKnows, OrdersOf
<1>8. QED
  BY <1>1, <1>2, <1>4, <1>5, <1>7, JobMoves

LEMMA BlockRevokeAccounts ==
  ASSUME AccountsKnown, NEW p \in Procs, BlockRevoke(p)
  PROVE  AccountsKnown'
<1>1. job' = [job EXCEPT ![p] = NoJob] /\ UNCHANGED <<users, orders, late, broken>>
  BY DEF BlockRevoke, Continue
<1>2. NoneActive(job[p].user)
  BY DEF BlockRevoke, AccountsKnown, JobKnows, NoneActive
<1>3. QED
  BY <1>1, <1>2, JobEnds

LEMMA DeleteReadAccounts ==
  ASSUME AccountsKnown, NEW p \in Procs, NEW u \in Owners, DeleteRead(p, u)
  PROVE  AccountsKnown'
<1> DEFINE row == [NoJob EXCEPT !.op = "delete", !.user = u, !.seen = users[u].status,
                                !.todo = Cancellable(u)]
<1>1. job' = [job EXCEPT ![p] = row] /\ UNCHANGED <<users, orders, late, broken>>
  BY DEF DeleteRead
<1>2. users[u].status \in SourceStates /\ BlockingOrders(u) = {} /\ job[p].op = "none"
  BY DEF DeleteRead, Free
<1>3. Cancellable(u) \in SUBSET Orders
  BY DEF Cancellable, OrdersOf
<1>4. /\ row \in JobRow /\ row.op = "delete" /\ row.user = u /\ row.seen = users[u].status
      /\ row.todo = Cancellable(u) /\ row.order = NoOne
  BY <1>2, <1>3 DEF NoJob, JobRow, JobOps, Seen
<1> HIDE DEF row
<1>5. job' \in [Procs -> JobRow] /\ job'[p] = row /\ \A q \in Procs \ {p} : job'[q] = job[q]
  BY <1>1, <1>4, JobSet DEF AccountsKnown
<1>6. \A o \in OrdersOf(u) \ late :
        orders[o].status \in Terminal \/ o \in row.todo
  <2>1. SUFFICES ASSUME NEW o \in OrdersOf(u), orders[o].status \notin Terminal
                 PROVE  o \in row.todo
    OBVIOUS
  <2>2. orders[o].status \in {"active", "IN_DELIVERY"} \cup Terminal
    BY DEF AccountsKnown, AccountsTyped, OrderRow, OrdersOf
  <2>3. QED
    BY <1>2, <1>4, <2>1, <2>2 DEF BlockingOrders, Cancellable
<1>7. users[u].balance >= 0 /\ \A o \in row.todo : orders[o].owner = u
  BY <1>2, <1>4 DEF AccountsKnown, UserStands, SourceStates, Cancellable, OrdersOf
<1>8. JobKnows(p)'
  BY <1>1, <1>2, <1>4, <1>5, <1>6, <1>7 DEF JobKnows, OrdersOf, SourceStates
<1>9. QED
  BY <1>1, <1>2, <1>5, <1>8, JobMoves

LEMMA SessionRequestAccounts ==
  ASSUME AccountsKnown, NEW p \in Procs, SessionRequest(p)
  PROVE  AccountsKnown'
<1>1. UNCHANGED <<users, orders, job, broken>> /\ late \subseteq late'
  BY DEF SessionRequest, LateToken
<1>2. job' \in [Procs -> JobRow]
  BY <1>1 DEF AccountsKnown, AccountsTyped
<1>3. QED
  BY <1>1, <1>2, JobMoves

LEMMA DiesAccounts ==
  ASSUME AccountsKnown, NEW p \in Procs, Dies(p)
  PROVE  AccountsKnown'
<1>1. UNCHANGED <<users, orders, late>>
  BY DEF Dies
<1>2. CASE RequestDies(p) /\ broken \subseteq broken' /\ UNCHANGED job
  <2>1. job' \in [Procs -> JobRow]
    BY <1>2 DEF AccountsKnown, AccountsTyped
  <2>2. QED
    BY <1>1, <1>2, <2>1, JobMoves
<1>3. CASE /\ broken' = IF job[p].op = "block" THEN broken \cup {job[p].user} ELSE broken
           /\ job' = [job EXCEPT ![p] = NoJob]
  BY <1>1, <1>3, JobEnds
<1>4. QED
  BY <1>2, <1>3 DEF Dies

-----------------------------------------------------------------------------
(* Requests that write one row of users                                    *)

LEMMA UserMoves ==
  ASSUME AccountsKnown, UNCHANGED orders, late \subseteq late', NEW u \in Owners,
         users' \in [Owners -> UserRow], \A v \in Owners \ {u} : users'[v] = users[v],
         UserStands(u)', users'[u].status # "none",
         users[u].balance >= 0 => users'[u].balance >= 0,
         broken \ {u} \subseteq broken',
         job' \in [Procs -> JobRow], \A q \in Procs : JobKnows(q)' \/ job'[q] = job[q],
         \A q \in Procs : job[q].op = "block" => job'[q] = job[q],
         users'[u].status = "DELETED" =>
           Anonymous(u)' /\ (users[u].status = "DELETED" \/ OrdersOver(u)'),
         users'[u].status = "BLOCKED" =>
           Guarded(u)' \/ (users[u].status = "BLOCKED" /\ broken \subseteq broken')
  PROVE  AccountsKnown'
<1>1. AccountFrame
  BY DEF AccountFrame
<1>2. AccountsTyped'
  BY DEF AccountsKnown, AccountsTyped
<1>3. \A v \in Owners : UserStands(v)'
  BY DEF AccountsKnown, UserStands
<1>4. \A o \in Orders : OrderStands(o)'
  BY DEF AccountsKnown, OrderStands
<1>5. ASSUME NEW v \in Owners, users'[v].status = "DELETED"
      PROVE  /\ users'[v] = users[v] \/ Anonymous(v)'
             /\ users[v].status = "DELETED" \/ OrdersOver(v)'
  BY <1>5
<1>6. ASSUME NEW v \in Owners, users'[v].status = "BLOCKED"
      PROVE  \/ users[v].status = "BLOCKED" /\ (Guarded(v) => Guarded(v)')
             \/ Guarded(v)' \/ NoneActive(v)'
  <2>1. v # u \/ broken \subseteq broken' => (Guarded(v) => Guarded(v)')
    BY DEF Guarded
  <2>2. QED
    BY <1>6, <2>1
<1>7. QED
  BY <1>1, <1>2, <1>3, <1>4, <1>5, <1>6, AccountsMove

LEMMA UserFields ==
  ASSUME AccountsTyped, NEW u \in Owners
  PROVE  /\ users[u].status \in {"none", "PENDING_VERIFICATION", "ACTIVE"} \cup Ended
         /\ users[u].phone \in BOOLEAN /\ users[u].profile \in BOOLEAN
         /\ users[u].address \in BOOLEAN /\ users[u].balance \in Int
BY DEF AccountsTyped, UserRow

\* What an update of one column of a row of users leaves.
LEMMA StatusWritten ==
  ASSUME AccountsTyped, NEW u \in Owners,
         NEW s \in {"none", "PENDING_VERIFICATION", "ACTIVE"} \cup Ended,
         SetUser(u, "status", s)
  PROVE  /\ users' \in [Owners -> UserRow] /\ \A v \in Owners \ {u} : users'[v] = users[v]
         /\ users'[u].status = s /\ users'[u].balance = users[u].balance
BY DEF AccountsTyped, UserRow, SetUser

LEMMA AddressWritten ==
  ASSUME AccountsTyped, NEW u \in Owners, NEW a \in BOOLEAN, SetUser(u, "address", a)
  PROVE  /\ users' \in [Owners -> UserRow] /\ \A v \in Owners \ {u} : users'[v] = users[v]
         /\ users'[u].status = users[u].status /\ users'[u].balance = users[u].balance
         /\ users'[u].phone = users[u].phone /\ users'[u].profile = users[u].profile
BY DEF AccountsTyped, UserRow, SetUser

LEMMA BalanceWritten ==
  ASSUME AccountsTyped, NEW u \in Owners, NEW b \in Int, SetUser(u, "balance", b)
  PROVE  /\ users' \in [Owners -> UserRow] /\ \A v \in Owners \ {u} : users'[v] = users[v]
         /\ users'[u].status = users[u].status /\ users'[u].balance = b
         /\ users'[u].phone = users[u].phone /\ users'[u].profile = users[u].profile
         /\ users'[u].address = users[u].address
BY DEF AccountsTyped, UserRow, SetUser

LEMMA RowWritten ==
  ASSUME AccountsTyped, NEW u \in Owners, NEW row \in UserRow,
         users' = [users EXCEPT ![u] = row]
  PROVE  /\ users' \in [Owners -> UserRow] /\ users'[u] = row
         /\ \A v \in Owners \ {u} : users'[v] = users[v]
BY DEF AccountsTyped

LEMMA Created ==
  ASSUME AccountsTyped, NEW u \in Owners, CreateUser(u)
  PROVE  /\ users' \in [Owners -> UserRow] /\ \A v \in Owners \ {u} : users'[v] = users[v]
         /\ users[u].balance = -1 /\ users[u].status = "none"
         /\ users'[u].status = "PENDING_VERIFICATION" /\ users'[u].balance = -1
<1> DEFINE row == [NoUser EXCEPT !.status = "PENDING_VERIFICATION", !.phone = TRUE,
                                 !.profile = TRUE]
<1>1. NoUser \in UserRow /\ NoUser.balance = -1 /\ NoUser.status = "none"
  BY DEF NoUser, UserRow
<1>2. row \in UserRow /\ row.status = "PENDING_VERIFICATION" /\ row.balance = -1
  BY <1>1 DEF UserRow
<1>3. users' = [users EXCEPT ![u] = row] /\ users[u].balance = -1 /\ users[u].status = "none"
  BY <1>1 DEF CreateUser
<1> HIDE DEF row
<1>4. QED
  BY <1>2, <1>3, RowWritten

LEMMA SendCodeAccounts ==
  ASSUME AccountsKnown, SendCode
  PROVE  AccountsKnown'
<1>1. PICK u \in Owners : CreateUser(u)
  BY DEF SendCode
<1>2. UNCHANGED <<orders, job, late, broken>>
  BY DEF SendCode
<1>3. /\ users' \in [Owners -> UserRow] /\ \A v \in Owners \ {u} : users'[v] = users[v]
      /\ users[u].balance = -1
      /\ users'[u].status = "PENDING_VERIFICATION" /\ users'[u].balance = -1
  BY <1>1, Created DEF AccountsKnown
<1>4. UserStands(u)' /\ job' \in [Procs -> JobRow]
  BY <1>2, <1>3 DEF UserStands, AccountsKnown, AccountsTyped
<1>5. QED
  BY <1>2, <1>3, <1>4, UserMoves

LEMMA VerifyCodeAccounts ==
  ASSUME AccountsKnown, NEW p \in Procs, VerifyCode(p)
  PROVE  AccountsKnown'
<1>1. UNCHANGED <<orders, late, broken>> /\ job[p].op = "none"
  BY DEF VerifyCode, Free
<1>2. ASSUME NEW u \in Owners, users'[u].status # "none",
             job' = [job EXCEPT ![p] = [NoJob EXCEPT !.op = "activate", !.user = u]]
      PROVE  /\ job' \in [Procs -> JobRow] /\ \A q \in Procs \ {p} : job'[q] = job[q]
             /\ JobKnows(p)' /\ job'[p].op = "activate"
  <2> DEFINE row == [NoJob EXCEPT !.op = "activate", !.user = u]
  <2>1. /\ row \in JobRow /\ row.op = "activate" /\ row.user = u /\ row.seen = "none"
        /\ row.todo = {}
    BY DEF NoJob, JobRow, JobOps, Seen
  <2> HIDE DEF row
  <2>2. /\ job' \in [Procs -> JobRow] /\ job'[p] = row
        /\ \A q \in Procs \ {p} : job'[q] = job[q]
    BY <1>2, <2>1, JobSet DEF AccountsKnown, row
  <2>3. QED
    BY <1>2, <2>1, <2>2 DEF JobKnows
<1>3. ASSUME NEW u \in Owners, CreateUser(u),
             job' = [job EXCEPT ![p] = [NoJob EXCEPT !.op = "activate", !.user = u]]
      PROVE  AccountsKnown'
  <2>1. /\ users' \in [Owners -> UserRow] /\ \A v \in Owners \ {u} : users'[v] = users[v]
        /\ users[u].balance = -1
        /\ users'[u].status = "PENDING_VERIFICATION" /\ users'[u].balance = -1
    BY <1>3, Created DEF AccountsKnown
  <2>2. UserStands(u)'
    BY <2>1 DEF UserStands
  <2>3. /\ job' \in [Procs -> JobRow] /\ \A q \in Procs \ {p} : job'[q] = job[q]
        /\ JobKnows(p)'
    BY <1>2, <1>3, <2>1
  <2>4. QED
    BY <1>1, <2>1, <2>2, <2>3, UserMoves
<1>4. ASSUME NEW u \in Owners, users[u].status = "PENDING_VERIFICATION", UNCHANGED users,
             job' = [job EXCEPT ![p] = [NoJob EXCEPT !.op = "activate", !.user = u]]
      PROVE  AccountsKnown'
  <2>1. /\ job' \in [Procs -> JobRow] /\ \A q \in Procs \ {p} : job'[q] = job[q]
        /\ JobKnows(p)'
    BY <1>2, <1>4
  <2>2. QED
    BY <1>1, <1>4, <2>1, JobMoves
<1>5. ASSUME NEW u \in Owners, Continue(p, u, "issue"), UNCHANGED users
      PROVE  AccountsKnown'
  BY <1>1, <1>5, JobEnds DEF Continue
<1>6. QED
  BY <1>3, <1>4, <1>5 DEF VerifyCode

LEMMA ActivateUserAccounts ==
  ASSUME AccountsKnown, NEW p \in Procs, ActivateUser(p)
  PROVE  AccountsKnown'
<1>1. UNCHANGED <<orders, late, broken>> /\ job[p].op = "activate"
  BY DEF ActivateUser
<1>2. PICK u \in Owners : u = job[p].user
  BY <1>1 DEF AccountsKnown, JobKnows
<1>3. CASE users[u].balance = -1
  <2>1. /\ users' = [users EXCEPT ![u].status = "ACTIVE", ![u].balance = 0]
        /\ job' = [job EXCEPT ![p] = NoJob]
    BY <1>2, <1>3 DEF ActivateUser, Continue
  <2>2. /\ users' \in [Owners -> UserRow] /\ \A v \in Owners \ {u} : users'[v] = users[v]
        /\ users'[u].status = "ACTIVE" /\ users'[u].balance = 0
    BY <1>2, <2>1 DEF AccountsKnown, AccountsTyped, UserRow
  <2>3. /\ job' \in [Procs -> JobRow] /\ job'[p] = NoJob
        /\ \A q \in Procs \ {p} : job'[q] = job[q]
    BY <2>1, NoJobTyped, JobSet DEF AccountsKnown
  <2>4. UserStands(u)' /\ JobKnows(p)'
    BY <2>2, <2>3, IdleJobKnows DEF UserStands
  <2>5. QED
    BY <1>1, <1>2, <2>2, <2>3, <2>4, UserMoves
<1>4. CASE users[u].balance # -1
  <2>1. job' = [job EXCEPT ![p] = NoJob] /\ UNCHANGED users
    BY <1>2, <1>4 DEF ActivateUser
  <2>2. QED
    BY <1>1, <2>1, JobEnds
<1>5. QED
  BY <1>3, <1>4

LEMMA CreateAddressAccounts ==
  ASSUME AccountsKnown, NEW p \in Procs, CreateAddress(p)
  PROVE  AccountsKnown'
<1>1. UNCHANGED <<orders, broken>> /\ job[p].op = "address"
  BY DEF CreateAddress
<1>2. PICK u \in Owners : u = job[p].user /\ users[u].balance >= 0
  BY <1>1 DEF AccountsKnown, JobKnows
<1>3. /\ job' = [job EXCEPT ![p] = NoJob] /\ late \subseteq late' /\ (Ending(u) => u \in late')
      /\ SetUser(u, "address", TRUE)
  BY <1>2 DEF CreateAddress, Late
<1>4. /\ users' \in [Owners -> UserRow] /\ \A v \in Owners \ {u} : users'[v] = users[v]
      /\ users'[u].status = users[u].status /\ users'[u].balance = users[u].balance
      /\ users'[u].phone = users[u].phone /\ users'[u].profile = users[u].profile
  BY <1>2, <1>3, AddressWritten DEF AccountsKnown
<1>5. /\ job' \in [Procs -> JobRow] /\ job'[p] = NoJob
      /\ \A q \in Procs \ {p} : job'[q] = job[q]
  BY <1>3, NoJobTyped, JobSet DEF AccountsKnown
<1>6. UserStands(u) /\ users[u].status # "none"
  BY <1>2 DEF AccountsKnown, UserStands
<1>7. UserStands(u)' /\ JobKnows(p)'
  BY <1>4, <1>5, <1>6, IdleJobKnows DEF UserStands
<1>8. ASSUME users'[u].status = "DELETED"
      PROVE  Anonymous(u)'
  <2>1. Anonymous(u)
    BY <1>2, <1>4, <1>8, EndsAre DEF AccountsKnown
  <2>2. u \in late'
    BY <1>3, <1>4, <1>8 DEF Ending, Ended
  <2>3. OrdersOf(u)' = OrdersOf(u)
    BY <1>1 DEF OrdersOf
  <2>4. users[u].balance > 0 => OrdersOf(u)' \cap late' # {}
    BY <1>3, <2>1, <2>3 DEF Anonymous
  <2>5. QED
    BY <1>4, <2>1, <2>2, <2>4 DEF Anonymous
<1>9. QED
  BY <1>1, <1>2, <1>3, <1>4, <1>5, <1>6, <1>7, <1>8, UserMoves

LEMMA StatusSet ==
  ASSUME AccountsKnown, NEW u \in Owners, NEW s \in SourceStates, SetUser(u, "status", s),
         users[u].status \in SourceStates, UNCHANGED <<orders, late>>,
         broken \ {u} \subseteq broken', job' \in [Procs -> JobRow],
         \A q \in Procs : JobKnows(q)' \/ job'[q] = job[q],
         \A q \in Procs : job[q].op = "block" => job'[q] = job[q],
         s = "BLOCKED" => Guarded(u)'
  PROVE  AccountsKnown'
<1>1. /\ users' \in [Owners -> UserRow] /\ \A v \in Owners \ {u} : users'[v] = users[v]
      /\ users'[u].status = s /\ users'[u].balance = users[u].balance
  BY StatusWritten DEF AccountsKnown, SourceStates, Ended
<1>2. users[u].balance >= 0
  BY DEF AccountsKnown, UserStands, SourceStates
<1>3. UserStands(u)'
  BY <1>1, <1>2 DEF UserStands, SourceStates
<1>4. QED
  BY <1>1, <1>2, <1>3, UserMoves DEF SourceStates

LEMMA UnblockUserAccounts ==
  ASSUME AccountsKnown, NEW u \in Owners, UnblockUser(u)
  PROVE  AccountsKnown'
<1>1. /\ users[u].status = "BLOCKED" /\ SetUser(u, "status", "ACTIVE")
      /\ UNCHANGED <<orders, late, job>> /\ broken \ {u} \subseteq broken'
  BY DEF UnblockUser
<1>2. job' \in [Procs -> JobRow]
  BY <1>1 DEF AccountsKnown, AccountsTyped
<1>3. QED
  BY <1>1, <1>2, StatusSet DEF SourceStates

LEMMA BlockUserAccounts ==
  ASSUME AccountsKnown, NEW p \in Procs, NEW u \in Owners, BlockUser(p, u)
  PROVE  AccountsKnown'
<1>1. UNCHANGED <<orders, late, broken>> /\ job[p].op = "none"
  BY DEF BlockUser, Free
<1>2. CASE /\ users[u].status = "ACTIVE" /\ SetUser(u, "status", "BLOCKED")
           /\ job' = [job EXCEPT ![p] = [NoJob EXCEPT !.op = "block", !.user = u,
                                                      !.seen = "select"]]
  <2> DEFINE row == [NoJob EXCEPT !.op = "block", !.user = u, !.seen = "select"]
  <2>1. /\ row \in JobRow /\ row.op = "block" /\ row.user = u /\ row.seen = "select"
        /\ row.todo = {} /\ row.order = NoOne
    BY DEF NoJob, JobRow, JobOps, Seen
  <2>2. job' = [job EXCEPT ![p] = row]
    BY <1>2
  <2> HIDE DEF row
  <2>3. /\ job' \in [Procs -> JobRow] /\ \A q \in Procs \ {p} : job'[q] = job[q]
        /\ job'[p].op = "block" /\ job'[p].user = u /\ job'[p].seen = "select"
        /\ job'[p].todo = {} /\ job'[p].order = NoOne
    BY <2>1, <2>2, JobSet DEF AccountsKnown
  <2>4. users'[u].balance = users[u].balance
    BY <1>2, StatusWritten DEF AccountsKnown, Ended
  <2>5. users[u].balance >= 0
    BY <1>2 DEF AccountsKnown, UserStands
  <2>6. JobKnows(p)' /\ Guarded(u)'
    BY <2>3, <2>4, <2>5 DEF JobKnows, Guarded
  <2>7. QED
    BY <1>1, <1>2, <2>3, <2>6, StatusSet DEF SourceStates
<1>3. CASE Continue(p, u, "revoke") /\ UNCHANGED users
  BY <1>1, <1>3, JobEnds DEF Continue
<1>4. QED
  BY <1>2, <1>3 DEF BlockUser

LEMMA DeleteAddressAccounts ==
  ASSUME AccountsKnown, NEW u \in Owners, DeleteAddress(u)
  PROVE  AccountsKnown'
<1>1. /\ users[u].status \notin Ended \cup {"none"} /\ SetUser(u, "address", FALSE)
      /\ UNCHANGED <<orders, late, broken, job>>
  BY DEF DeleteAddress, Authenticated
<1>2. /\ users' \in [Owners -> UserRow] /\ \A v \in Owners \ {u} : users'[v] = users[v]
      /\ users'[u].status = users[u].status /\ users'[u].balance = users[u].balance
  BY <1>1, AddressWritten DEF AccountsKnown
<1>3. UserStands(u)' /\ job' \in [Procs -> JobRow]
  BY <1>1, <1>2 DEF AccountsKnown, AccountsTyped, UserStands
<1>4. QED
  BY <1>1, <1>2, <1>3, UserMoves DEF Ended

LEMMA AdjustLoyaltyAccounts ==
  ASSUME AccountsKnown, NEW u \in Owners, AdjustLoyalty(u)
  PROVE  AccountsKnown'
<1>1. /\ users[u].status \in SourceStates /\ UNCHANGED <<orders, late, broken, job>>
      /\ \E b \in Nat : SetUser(u, "balance", b)
  BY AccountsAssumption DEF AdjustLoyalty, SourceStates
<1>2. PICK b \in Nat : SetUser(u, "balance", b)
  BY <1>1
<1>3. /\ users' \in [Owners -> UserRow] /\ \A v \in Owners \ {u} : users'[v] = users[v]
      /\ users'[u].status = users[u].status /\ users'[u].balance = b
  BY <1>2, BalanceWritten DEF AccountsKnown
<1>4. UserStands(u)' /\ job' \in [Procs -> JobRow]
  BY <1>1, <1>3 DEF AccountsKnown, AccountsTyped, UserStands, SourceStates
<1>5. QED
  BY <1>1, <1>3, <1>4, UserMoves DEF SourceStates

LEMMA RowErased ==
  ASSUME NEW row \in UserRow, NEW a \in BOOLEAN, NEW b \in BOOLEAN, NEW c \in BOOLEAN,
         NEW n \in Int, NEW s \in {"none", "PENDING_VERIFICATION", "ACTIVE"} \cup Ended
  PROVE  [row EXCEPT !.status = s, !.phone = a, !.profile = b, !.address = c,
                     !.balance = n] \in UserRow
BY DEF UserRow

LEMMA DeleteCommitAccounts ==
  ASSUME AccountsKnown, NEW p \in Procs, DeleteCommit(p)
  PROVE  AccountsKnown'
<1>1. /\ job[p].op = "delete" /\ job[p].todo = {} /\ UNCHANGED <<orders, late, broken>>
  BY DEF DeleteCommit
<1>2. PICK u \in Owners : u = job[p].user /\ users[u].balance >= 0
  BY <1>1 DEF AccountsKnown, JobKnows
<1>3. CASE users' = [users EXCEPT ![u] = Tombstone(u)] /\ job' = [job EXCEPT ![p] = NoJob]
  <2> DEFINE row == Tombstone(u)
  <2>1. users[u] \in UserRow
    BY DEF AccountsKnown, AccountsTyped
  <2>2. row \in UserRow /\ row.status = "DELETED" /\ row.balance = 0
    <3>1. "DELETED" \in {"none", "PENDING_VERIFICATION", "ACTIVE"} \cup Ended
      BY DEF Ended
    <3>a. FALSE \in BOOLEAN /\ 0 \in Int
      OBVIOUS
    <3>2. row \in UserRow
      BY <2>1, <3>1, <3>a, RowErased, Zenon DEF Tombstone
    <3>3. row.status = "DELETED"
      BY <2>1 DEF Tombstone, UserRow
    <3>4. row.balance = 0
      BY <2>1 DEF Tombstone, UserRow
    <3>5. QED
      BY <3>2, <3>3, <3>4
  <2>a. ~row.phone /\ ~row.profile /\ ~row.address
    BY <2>1 DEF Tombstone, UserRow
  <2> HIDE DEF row
  <2>3. /\ users' \in [Owners -> UserRow] /\ users'[u] = row
        /\ \A v \in Owners \ {u} : users'[v] = users[v]
    BY <1>3, <2>2, RowWritten DEF AccountsKnown, row
  <2>4. /\ job' \in [Procs -> JobRow] /\ job'[p] = NoJob
        /\ \A q \in Procs \ {p} : job'[q] = job[q]
    BY <1>3, NoJobTyped, JobSet DEF AccountsKnown
  <2>5. UserStands(u)' /\ JobKnows(p)' /\ Anonymous(u)'
    BY <2>2, <2>a, <2>3, <2>4, IdleJobKnows DEF UserStands, Anonymous
  <2>6. OrdersOver(u)
    BY <1>1, <1>2 DEF AccountsKnown, JobKnows, OrdersOver
  <2>7. OrdersOver(u)'
    BY <1>1, <2>6 DEF OrdersOver, OrdersOf
  <2>8. \A q \in Procs : JobKnows(q)' \/ job'[q] = job[q]
    BY <2>4, <2>5
  <2>9. \A q \in Procs : job[q].op = "block" => job'[q] = job[q]
    BY <1>1, <2>4
  <2>10. QED
    BY <1>1, <2>2, <2>3, <2>4, <2>5, <2>7, <2>8, <2>9, UserMoves
<1>4. CASE job' = [job EXCEPT ![p] = NoJob] /\ UNCHANGED users
  BY <1>1, <1>4, JobEnds
<1>5. QED
  BY <1>2, <1>3, <1>4 DEF DeleteCommit, Continue

-----------------------------------------------------------------------------
(* Requests that write one order                                           *)

\* Order o of account u is written, and perhaps u's points with it.
LEMMA OrderMoves ==
  ASSUME AccountsKnown, late \subseteq late', broken \subseteq broken',
         NEW o \in Orders, NEW u \in Owners, NEW s \in {"active", "IN_DELIVERY"} \cup Terminal,
         s # "none", users[u].balance >= 0,
         UNCHANGED users \/ \E b \in Nat : SetUser(u, "balance", b),
         users[u].status = "DELETED" => UNCHANGED users \/ o \in late',
         orders' = [orders EXCEPT ![o] = [owner |-> u, status |-> s]],
         orders[o].owner \in {u, NoOne},
         \/ o \in late' \/ ~Ending(u)
         \/ /\ orders[o].owner = u
            /\ \/ s \in Terminal \/ s = orders[o].status
               \/ s = "IN_DELIVERY" /\ orders[o].status \notin Terminal,
         job' \in [Procs -> JobRow], \A q \in Procs : JobKnows(q)' \/ job'[q] = job[q],
         \A q \in Procs : job[q].op = "block" =>
           (job'[q].op = "block" /\ job'[q].user = job[q].user) \/ job[q].user \in broken'
  PROVE  AccountsKnown'
<1>1. /\ orders' \in [Orders -> OrderRow]
      /\ orders'[o].owner = u /\ orders'[o].status = s
      /\ \A x \in Orders \ {o} : orders'[x] = orders[x]
  <2>1. [owner |-> u, status |-> s] \in OrderRow
    BY DEF OrderRow
  <2>2. QED
    BY <2>1 DEF AccountsKnown, AccountsTyped
<1>2. orders[o] \in OrderRow
  BY DEF AccountsKnown, AccountsTyped
<1>3. orders[o].owner = u /\ s = orders[o].status => orders'[o] = orders[o]
  BY <1>1, <1>2 DEF OrderRow
<1>4. /\ users' \in [Owners -> UserRow] /\ \A v \in Owners \ {u} : users'[v] = users[v]
      /\ users'[u].status = users[u].status /\ users'[u].balance >= 0
      /\ users'[u].phone = users[u].phone /\ users'[u].profile = users[u].profile
      /\ users'[u].address = users[u].address
  <2>1. CASE UNCHANGED users
    BY <2>1 DEF AccountsKnown, AccountsTyped
  <2>2. ASSUME NEW b \in Nat, SetUser(u, "balance", b)
        PROVE  <1>4!:
    BY <2>2, BalanceWritten DEF AccountsKnown
  <2>3. QED
    BY <2>1, <2>2
<1>5. AccountFrame
  <2>1. \A v \in Owners : /\ users[v].status # "none" => users'[v].status # "none"
                          /\ users[v].balance >= 0 => users'[v].balance >= 0
    BY <1>4
  <2>2. QED
    BY <1>1, <1>3, <2>1 DEF AccountFrame
<1>6. AccountsTyped'
  BY <1>1, <1>4 DEF AccountsTyped
<1>7. \A v \in Owners : UserStands(v)'
  <2>1. UserStands(u) /\ users[u].balance # -1
    BY DEF AccountsKnown
  <2>2. QED
    BY <1>4, <2>1 DEF AccountsKnown, UserStands
<1>8. \A x \in Orders : OrderStands(x)'
  BY <1>1, <1>4, <1>5 DEF AccountsKnown, OrderStands, AccountFrame
<1>9. ASSUME users'[u].status = "DELETED"
      PROVE  users'[u] = users[u] \/ Anonymous(u)'
  <2>1. Anonymous(u)
    BY <1>4, <1>9, EndsAre DEF AccountsKnown
  <2>2. o \in late' => o \in OrdersOf(u)' \cap late'
    BY <1>1 DEF OrdersOf
  <2>3. QED
    BY <1>4, <1>9, <2>1, <2>2 DEF Anonymous
<1>10. ASSUME NEW v \in Owners, Guarded(v)
       PROVE  Guarded(v)'
  <2>1. CASE v \in broken
    BY <2>1 DEF Guarded
  <2>2. ASSUME NEW q \in Procs, job[q].op = "block", job[q].user = v
        PROVE  Guarded(v)'
    BY <2>2 DEF Guarded
  <2>3. QED
    BY <1>10, <2>1, <2>2 DEF Guarded
<1>11. QED
  BY <1>4, <1>5, <1>6, <1>7, <1>8, <1>9, <1>10, AccountsMove

LEMMA OrderFields ==
  ASSUME AccountsTyped, NEW o \in Orders,
         NEW s \in {"active", "IN_DELIVERY"} \cup Terminal, SetOrderStatus(o, s)
  PROVE  orders' = [orders EXCEPT ![o] = [owner |-> orders[o].owner, status |-> s]]
<1>1. orders[o] \in OrderRow
  BY DEF AccountsTyped
<1>2. [orders[o] EXCEPT !.status = s] = [owner |-> orders[o].owner, status |-> s]
  BY <1>1 DEF OrderRow
<1>3. QED
  BY <1>2 DEF SetOrderStatus

LEMMA PlaceOrderAccounts ==
  ASSUME AccountsKnown, NEW p \in Procs, PlaceOrder(p)
  PROVE  AccountsKnown'
<1>1. job[p].op = "checkout" /\ job' = [job EXCEPT ![p] = NoJob] /\ UNCHANGED broken
  BY DEF PlaceOrder
<1>2. PICK u \in Owners : u = job[p].user /\ users[u].balance >= 0
  BY <1>1 DEF AccountsKnown, JobKnows
<1>3. PICK o \in Orders : /\ orders[o].status = "none"
                          /\ orders' = [orders EXCEPT ![o] = [owner |-> u, status |-> "active"]]
                          /\ Late(u, o)
  BY <1>2 DEF PlaceOrder
<1>4. orders[o].owner = NoOne
  BY <1>3 DEF AccountsKnown, OrderStands
<1>5. late \subseteq late' /\ (Ending(u) => o \in late')
  BY <1>3 DEF Late
<1>6. UNCHANGED users \/ \E b \in Nat : SetUser(u, "balance", b)
  <2>1. job[p].balance \in Nat
    BY JobFields DEF AccountsKnown
  <2>2. job[p].balance > 0 => job[p].balance - 1 \in Nat
    BY <2>1
  <2>3. QED
    BY <1>2, <2>2 DEF PlaceOrder
<1>7. users[u].status = "DELETED" => o \in late'
  BY <1>5 DEF Ending, Ended
<1>8. /\ job' \in [Procs -> JobRow] /\ job'[p] = NoJob
      /\ \A q \in Procs \ {p} : job'[q] = job[q]
  BY <1>1, NoJobTyped, JobSet DEF AccountsKnown
<1>9. JobKnows(p)'
  BY <1>8, IdleJobKnows
<1>10. QED
  BY <1>1, <1>2, <1>3, <1>4, <1>5, <1>6, <1>7, <1>8, <1>9, OrderMoves

\* What the UPDATE of an order that was read as "seen" leaves.
LEMMA OrderStored ==
  ASSUME AccountsKnown, NEW o \in Orders, NEW u \in Owners, orders[o].owner = u,
         NEW seen \in {"active", "IN_DELIVERY"}, NEW balance \in Nat,
         NEW to \in {"active", "IN_DELIVERY", "COMPLETED", "CANCELLED"},
         StoreOrder(o, seen, to, balance)
  PROVE  /\ orders' = [orders EXCEPT ![o] = [owner |-> u, status |-> to]]
         /\ users[u].balance >= 0 /\ late \subseteq late'
         /\ orders[o].status = seen \/ (Ending(u) => o \in late')
         /\ UNCHANGED users \/ \E b \in Nat : SetUser(u, "balance", b)
         /\ users[u].status = "DELETED" => o \in late'
<1>1. orders' = [orders EXCEPT ![o] = [owner |-> u, status |-> to]]
  BY OrderFields DEF AccountsKnown, StoreOrder, Terminal
<1>2. users[u].balance >= 0 /\ users[u].balance \in Int
  BY SessionsAssumption, UserFields DEF AccountsKnown, OrderStands
<1>3. /\ late \subseteq late'
      /\ orders[o].status = seen \/ (Ending(u) => o \in late')
  BY DEF StoreOrder, Late
<1>4. UNCHANGED users \/ \E b \in Nat : SetUser(u, "balance", b)
  <2>1. \A b \in {balance, users[u].balance} : b + 1 \in Nat
    BY <1>2
  <2>2. QED
    BY <2>1 DEF StoreOrder
<1>5. ASSUME users[u].status = "DELETED"
      PROVE  o \in late'
  <2>1. OrdersOver(u) /\ Ending(u)
    BY <1>5, EndsAre DEF AccountsKnown, Ending, Ended
  <2>2. orders[o].status = seen => o \in late
    BY <2>1 DEF OrdersOver, OrdersOf, Terminal
  <2>3. QED
    BY <1>3, <2>1, <2>2
<1>6. QED
  BY <1>1, <1>2, <1>3, <1>4, <1>5

LEMMA MoveReadAccounts ==
  ASSUME AccountsKnown, NEW p \in Procs, NEW o \in Orders, MoveRead(p, o)
  PROVE  AccountsKnown'
<1> DEFINE row == [NoJob EXCEPT !.op = "move", !.order = o, !.seen = orders[o].status,
                                !.balance = users[orders[o].owner].balance]
<1>1. /\ job' = [job EXCEPT ![p] = row] /\ UNCHANGED <<users, orders, late, broken>>
      /\ orders[o].status \in {"active", "IN_DELIVERY"} /\ job[p].op = "none"
  BY DEF MoveRead, Free
<1>2. orders[o].owner \in Owners /\ users[orders[o].owner].balance >= 0
  BY <1>1 DEF AccountsKnown, OrderStands
<1>3. users[orders[o].owner].balance \in Nat
  BY <1>2, UserFields DEF AccountsKnown
<1>4. /\ row \in JobRow /\ row.op = "move" /\ row.order = o /\ row.seen = orders[o].status
      /\ row.todo = {}
  BY <1>1, <1>3 DEF NoJob, JobRow, JobOps, Seen
<1> HIDE DEF row
<1>5. job' \in [Procs -> JobRow] /\ job'[p] = row /\ \A q \in Procs \ {p} : job'[q] = job[q]
  BY <1>1, <1>4, JobSet DEF AccountsKnown
<1>6. JobKnows(p)'
  BY <1>1, <1>2, <1>4, <1>5 DEF JobKnows
<1>7. QED
  BY <1>1, <1>5, <1>6, JobMoves

LEMMA MoveCommitAccounts ==
  ASSUME AccountsKnown, NEW p \in Procs, MoveCommit(p)
  PROVE  AccountsKnown'
<1> DEFINE o == job[p].order
           u == orders[o].owner
<1>1. job[p].op = "move" /\ job' = [job EXCEPT ![p] = NoJob] /\ UNCHANGED broken
  BY DEF MoveCommit
<1>2. o \in Orders /\ u \in Owners /\ job[p].seen \in {"active", "IN_DELIVERY"}
  BY <1>1 DEF AccountsKnown, JobKnows
<1>3. PICK to \in MovesTo(job[p].seen) : StoreOrder(o, job[p].seen, to, job[p].balance)
  BY DEF MoveCommit
<1>4. to \in {"active", "IN_DELIVERY", "COMPLETED", "CANCELLED"}
  BY <1>3 DEF MovesTo
<1>5. job[p].balance \in Nat
  BY JobFields DEF AccountsKnown
<1>6. /\ orders' = [orders EXCEPT ![o] = [owner |-> u, status |-> to]]
      /\ users[u].balance >= 0 /\ late \subseteq late'
      /\ orders[o].status = job[p].seen \/ (Ending(u) => o \in late')
      /\ UNCHANGED users \/ \E b \in Nat : SetUser(u, "balance", b)
      /\ users[u].status = "DELETED" => o \in late'
  BY <1>2, <1>3, <1>4, <1>5, OrderStored
<1>7. orders[o].status = job[p].seen =>
        \/ to \in Terminal \/ to = orders[o].status
        \/ to = "IN_DELIVERY" /\ orders[o].status \notin Terminal
  BY <1>2, <1>3 DEF MovesTo, Terminal
<1>8. /\ job' \in [Procs -> JobRow] /\ job'[p] = NoJob
      /\ \A q \in Procs \ {p} : job'[q] = job[q]
  BY <1>1, NoJobTyped, JobSet DEF AccountsKnown
<1>9. JobKnows(p)'
  BY <1>8, IdleJobKnows
<1>a. to # "none" /\ to \in {"active", "IN_DELIVERY"} \cup Terminal
  BY <1>4 DEF Terminal
<1> HIDE DEF o, u
<1>10. QED
  BY <1>1, <1>2, <1>6, <1>7, <1>8, <1>9, <1>a, OrderMoves DEF u

LEMMA CascadeLoadAccounts ==
  ASSUME AccountsKnown, NEW p \in Procs, CascadeLoad(p)
  PROVE  AccountsKnown'
<1>1. UNCHANGED <<users, orders, late>> /\ JobKnows(p) /\ job[p] \in JobRow
  BY DEF CascadeLoad, AccountsKnown, AccountsTyped
<1>2. job[p].op \in {"block", "delete"}
  BY <1>1 DEF CascadeLoad, JobKnows
<1>3. PICK u \in Owners : u = job[p].user /\ users[u].balance >= 0
  BY <1>1, <1>2 DEF JobKnows
<1>4. PICK o \in job[p].todo :
        \/ /\ job' = [job EXCEPT ![p].order = o, ![p].balance = users[u].balance]
           /\ UNCHANGED broken
        \/ /\ job' = [job EXCEPT ![p] = NoJob]
           /\ broken' = IF job[p].op = "block" THEN broken \cup {job[p].user} ELSE broken
  BY <1>3 DEF CascadeLoad
<1>5. CASE /\ job' = [job EXCEPT ![p].order = o, ![p].balance = users[u].balance]
           /\ UNCHANGED broken
  <2> DEFINE row == [job[p] EXCEPT !.order = o, !.balance = users[u].balance]
  <2>1. users[u].balance \in Nat
    BY <1>3, UserFields DEF AccountsKnown
  <2>2. /\ row \in JobRow /\ row.op = job[p].op /\ row.user = u /\ row.seen = job[p].seen
        /\ row.todo = job[p].todo /\ row.order = o
    BY <1>1, <1>3, <2>1 DEF JobRow
  <2>3. job' = [job EXCEPT ![p] = row]
    BY <1>5
  <2>4. job[p].seen # "select"
    BY <1>2 DEF CascadeLoad, AccountsKnown, JobKnows
  <2> HIDE DEF row
  <2>5. /\ job' \in [Procs -> JobRow] /\ job'[p] = row
        /\ \A q \in Procs \ {p} : job'[q] = job[q]
    BY <2>2, <2>3, JobSet DEF AccountsKnown
  <2>6. JobKnows(p)'
    BY <1>1, <1>2, <1>3, <2>2, <2>4, <2>5 DEF JobKnows, OrdersOf
  <2>7. QED
    BY <1>1, <1>3, <1>5, <2>2, <2>5, <2>6, JobMoves
<1>6. CASE /\ job' = [job EXCEPT ![p] = NoJob]
           /\ broken' = IF job[p].op = "block" THEN broken \cup {job[p].user} ELSE broken
  BY <1>1, <1>6, JobEnds
<1>7. QED
  BY <1>4, <1>5, <1>6

LEMMA CascadeStoreAccounts ==
  ASSUME AccountsKnown, NEW p \in Procs, CascadeStore(p)
  PROVE  AccountsKnown'
<1> DEFINE o == job[p].order
<1>1. /\ job[p].op \in {"block", "delete"} /\ UNCHANGED broken
      /\ StoreOrder(o, "active", "CANCELLED", job[p].balance)
      /\ job' = [job EXCEPT ![p].todo = @ \ {o}, ![p].fresh = TRUE,
                            ![p].order = NoOne, ![p].balance = 0]
  BY DEF CascadeStore
<1>2. JobKnows(p) /\ job[p] \in JobRow
  BY DEF AccountsKnown, AccountsTyped
<1>3. PICK u \in Owners : u = job[p].user /\ users[u].balance >= 0
  BY <1>1, <1>2 DEF JobKnows
<1>4. o \in job[p].todo /\ o \in Orders /\ orders[o].owner = u
  BY <1>1, <1>2, <1>3 DEF CascadeStore, JobKnows, JobRow
<1>5. /\ orders' = [orders EXCEPT ![o] = [owner |-> u, status |-> "CANCELLED"]]
      /\ users[u].balance >= 0 /\ late \subseteq late'
      /\ UNCHANGED users \/ \E b \in Nat : SetUser(u, "balance", b)
      /\ users[u].status = "DELETED" => o \in late'
  <2>1. job[p].balance \in Nat
    BY <1>2 DEF JobRow
  <2>2. QED
    BY <1>1, <1>4, <2>1, OrderStored
<1> DEFINE row == [job[p] EXCEPT !.todo = @ \ {o}, !.fresh = TRUE, !.order = NoOne,
                                 !.balance = 0]
<1>6. /\ row \in JobRow /\ row.op = job[p].op /\ row.user = u /\ row.seen = job[p].seen
      /\ row.todo = job[p].todo \ {o} /\ row.order = NoOne
  BY <1>2, <1>3 DEF JobRow
<1>7. job' = [job EXCEPT ![p] = row]
  BY <1>1
<1> HIDE DEF row, o
<1>8. /\ job' \in [Procs -> JobRow] /\ job'[p] = row
      /\ \A q \in Procs \ {p} : job'[q] = job[q]
  BY <1>6, <1>7, JobSet DEF AccountsKnown
<1>9. /\ orders'[o].status = "CANCELLED" /\ orders'[o].owner = u
      /\ \A x \in Orders \ {o} : orders'[x] = orders[x]
  BY <1>4, <1>5 DEF AccountsKnown, AccountsTyped
<1>10. JobKnows(p)'
  <2>1. row.todo \subseteq Orders
    BY <1>6 DEF JobRow
  <2>2. \A x \in row.todo : orders'[x].owner = u
    BY <1>2, <1>3, <1>6, <1>9, <2>1 DEF JobKnows
  <2>3. row.op = "delete" =>
          \A x \in OrdersOf(u)' \ late' : orders'[x].status \in Terminal \/ x \in row.todo
    BY <1>2, <1>3, <1>5, <1>6, <1>9 DEF JobKnows, OrdersOf, Terminal
  <2>4. row.op = "block" /\ row.seen # "select" =>
          \A x \in OrdersOf(u)' \ late' : orders'[x].status = "active" => x \in row.todo
    BY <1>2, <1>3, <1>5, <1>6, <1>9 DEF JobKnows, OrdersOf
  <2>5. users'[u].balance >= 0
    BY <1>3, <1>5, BalanceWritten DEF AccountsKnown
  <2>6. /\ row.op \in {"block", "delete"}
        /\ row.seen \in {"select", "cascade"} => row.op = "block"
    BY <1>1, <1>2, <1>6 DEF JobKnows
  <2>7. QED
    BY <1>3, <1>6, <1>8, <2>2, <2>3, <2>4, <2>5, <2>6 DEF JobKnows, OrdersOf
<1>11. "CANCELLED" \in {"active", "IN_DELIVERY"} \cup Terminal /\ "CANCELLED" \in Terminal
  BY DEF Terminal
<1>12. \A q \in Procs : job[q].op = "block" => job'[q].op = "block" /\ job'[q].user = job[q].user
  BY <1>3, <1>6, <1>8
<1>13. broken \subseteq broken' /\ orders[o].owner = u /\ o \in Orders
  BY <1>1, <1>4 DEF o
<1>14. QED
  BY <1>5, <1>8, <1>10, <1>11, <1>12, <1>13, OrderMoves

-----------------------------------------------------------------------------
(* The way to the sessions of an ended account                             *)

LEMMA SessionsStay ==
  ASSUME SessionsKnown, UNCHANGED sessionVars
  PROVE  SessionsKnown'
BY DEF sessionVars, SessionsKnown, SessionsTyped, ProcKnows, ListedOrStray, LiveSessions,
   Listing

\* Nothing happens to sessions and their requests.
LEMMA WayStays ==
  ASSUME SessionsExpire, UNCHANGED sessionVars, late \subseteq late',
         \A u \in Owners : users'[u].status \in Ended =>
           \/ users[u].status \in Ended /\ (u \in broken => u \in broken')
           \/ Blocking(u)',
         \A u \in Owners : Blocking(u) => Blocking(u)' \/ u \in broken'
  PROVE  SessionsExpire'
<1>1. SUFFICES ASSUME NEW u \in Owners, users'[u].status \in Ended, u \notin broken',
                      NEW t \in LiveSessions(u)', ~Blocking(u)'
               PROVE  t \in late' \cup stray' \/ \E p \in Procs : Reaching(p, u, t)'
  BY DEF SessionsExpire, Expiring
<1>2. users[u].status \in Ended /\ u \notin broken /\ ~Blocking(u)
  BY <1>1
<1>3. t \in LiveSessions(u)
  BY <1>1 DEF LiveSessions, sessionVars
<1>4. t \in late \cup stray \/ \E p \in Procs : Reaching(p, u, t)
  BY <1>2, <1>3 DEF SessionsExpire, Expiring
<1>5. QED
  BY <1>4 DEF Reaching, sessionVars

\* The same, of the requests whose jobs go on or end.
LEMMA JobsGoOn ==
  ASSUME SessionsExpire, UNCHANGED sessionVars, late \subseteq late',
         \A u \in Owners : users'[u].status \in Ended =>
           users[u].status \in Ended /\ (u \in broken => u \in broken'),
         NEW p \in Procs, \A q \in Procs \ {p} : job'[q] = job[q],
         job[p].op = "block" =>
           \/ job'[p].op = "block" /\ job'[p].user = job[p].user
           \/ job[p].user \in broken'
  PROVE  SessionsExpire'
<1>1. ASSUME NEW u \in Owners, Blocking(u)
      PROVE  Blocking(u)' \/ u \in broken'
  <2>1. CASE job[p].op = "block" /\ job[p].user = u
    BY <2>1 DEF Blocking
  <2>2. CASE \E q \in Procs \ {p} : job[q].op = "block" /\ job[q].user = u
    BY <2>2 DEF Blocking
  <2>3. QED
    BY <1>1, <2>1, <2>2 DEF Blocking
<1>2. QED
  BY <1>1, WayStays

\* Request p comes from its account part, or has just read the account.
LEMMA WayContinues ==
  ASSUME SessionsKnown, AccountsTyped, SessionsExpire, NEW p \in Procs, proc[p].pc = "idle",
         NEW u \in Owners, NEW pc \in {"issue", "revoke"}, Continue(p, u, pc),
         UNCHANGED <<late, broken>>,
         \A v \in Owners : users'[v].status \in Ended =>
           users[v].status \in Ended \/ (v = u /\ pc = "revoke"),
         job[p].op = "block" => job[p].user = u /\ pc = "revoke"
  PROVE  SessionsExpire'
<1>1. /\ proc'[p].pc = pc /\ proc'[p].owner = u
      /\ \A q \in Procs \ {p} : proc'[q] = proc[q] /\ job'[q] = job[q]
      /\ UNCHANGED <<sessions, stray>>
  <2>1. proc' = [proc EXCEPT ![p] = [IdleProc EXCEPT !.pc = pc, !.owner = u]]
    BY DEF Continue
  <2>2. proc'[p] = [IdleProc EXCEPT !.pc = pc, !.owner = u]
    BY <2>1 DEF SessionsKnown, SessionsTyped
  <2>3. proc'[p].pc = pc /\ proc'[p].owner = u
    BY <2>2 DEF IdleProc
  <2>4. \A q \in Procs \ {p} : proc'[q] = proc[q] /\ job'[q] = job[q]
    BY <2>1 DEF Continue, SessionsKnown, SessionsTyped, AccountsTyped
  <2>5. QED
    BY <2>3, <2>4 DEF Continue
<1>2. SUFFICES ASSUME NEW v \in Owners, users'[v].status \in Ended, v \notin broken',
                      NEW t \in LiveSessions(v)', ~(v = u /\ pc = "revoke")
               PROVE  t \in late' \cup stray' \/ Expiring(v, t)'
  BY <1>1 DEF SessionsExpire, Expiring, Reaching
<1>3. t \in late \cup stray \/ Expiring(v, t)
  BY <1>1, <1>2 DEF SessionsExpire, LiveSessions
<1>4. ASSUME Blocking(v)
      PROVE  Blocking(v)'
  <2>1. PICK q \in Procs : job[q].op = "block" /\ job[q].user = v
    BY <1>4 DEF Blocking
  <2>2. q # p
    BY <1>2, <2>1
  <2>3. QED
    BY <1>1, <2>1, <2>2 DEF Blocking
<1>5. ASSUME NEW q \in Procs, Reaching(q, v, t)
      PROVE  Reaching(q, v, t)'
  <2>1. q # p
    BY <1>5 DEF Reaching
  <2>2. QED
    BY <1>1, <1>5, <2>1 DEF Reaching
<1>6. QED
  BY <1>1, <1>2, <1>3, <1>4, <1>5 DEF Expiring

\* A command of request p.
LEMMA WayMoves ==
  ASSUME SessionsExpire, UNCHANGED <<users, job>>, late \subseteq late',
         broken \subseteq broken', stray \subseteq stray', NEW p \in Procs,
         \A q \in Procs \ {p} : proc'[q] = proc[q],
         \A u \in Owners, t \in Tokens :
           sessions'[t] = u /\ users[u].status \in Ended /\ u \notin broken' =>
             \/ t \in late' \cup stray' \/ Reaching(p, u, t)'
             \/ sessions[t] = u /\ ~Reaching(p, u, t)
  PROVE  SessionsExpire'
<1>1. SUFFICES ASSUME NEW u \in Owners, users[u].status \in Ended, u \notin broken',
                      NEW t \in Tokens, sessions'[t] = u,
                      sessions[t] = u, ~Reaching(p, u, t)
               PROVE  t \in late' \cup stray' \/ Expiring(u, t)'
  BY DEF SessionsExpire, LiveSessions, Expiring
<1>2. t \in late \cup stray \/ Expiring(u, t)
  BY <1>1 DEF SessionsExpire, LiveSessions
<1>3. ASSUME NEW q \in Procs, Reaching(q, u, t)
      PROVE  Reaching(q, u, t)'
  BY <1>1, <1>3 DEF Reaching
<1>4. Blocking(u) => Blocking(u)'
  BY DEF Blocking
<1>5. QED
  BY <1>2, <1>3, <1>4 DEF Expiring

LEMMA StoreExpires ==
  ASSUME SessionsKnown, SessionsExpire, UNCHANGED <<users, job, broken, late>>,
         NEW p \in Procs, StoreSession(p)
  PROVE  SessionsExpire'
<1>1. PICK t \in Tokens \ issued :
        /\ proc[p].pc = "issue"
        /\ sessions' = [sessions EXCEPT ![t] = proc[p].owner]
        /\ proc' = [proc EXCEPT ![p].pc = "list", ![p].token = t]
        /\ UNCHANGED stray
  BY DEF StoreSession
<1>2. /\ proc'[p].pc = "list" /\ proc'[p].token = t
      /\ \A q \in Procs \ {p} : proc'[q] = proc[q]
      /\ \A r \in Tokens \ {t} : sessions'[r] = sessions[r]
  BY <1>1 DEF SessionsKnown, SessionsTyped, ProcRow
<1>3. \A u, r : ~Reaching(p, u, r)
  BY <1>1 DEF Reaching
<1>4. \A u : Reaching(p, u, t)'
  BY <1>2 DEF Reaching
<1>5. QED
  BY <1>1, <1>2, <1>3, <1>4, WayMoves

LEMMA RememberExpires ==
  ASSUME SessionsKnown, SessionsExpire, UNCHANGED <<users, job, broken>>, NEW p \in Procs,
         RememberRefreshToken(p), LateToken(p)
  PROVE  SessionsExpire'
<1> DEFINE t == proc[p].token
<1>1. /\ proc[p].pc = "list" /\ proc' = [proc EXCEPT ![p] = IdleProc]
      /\ stray \subseteq stray' /\ UNCHANGED sessions
  BY DEF RememberRefreshToken, End
<1>2. /\ sessions[t] \in {proc[p].owner, NoOne} /\ proc[p].owner \in Owners
      /\ \A q \in Procs \ {p} : proc'[q] = proc[q]
  BY <1>1 DEF SessionsKnown, SessionsTyped, ProcKnows
<1>3. late \subseteq late' /\ (users[proc[p].owner].status \in Ended => t \in late')
  BY <1>1 DEF LateToken
<1>4. \A u, r : Reaching(p, u, r) => r = t
  BY <1>1 DEF Reaching
<1>5. \A u \in Owners : sessions[t] = u => u = proc[p].owner
  BY <1>2, SessionsAssumption
<1>6. QED
  BY <1>1, <1>2, <1>3, <1>4, <1>5, WayMoves

LEMMA GetExpires ==
  ASSUME SessionsKnown, SessionsExpire, UNCHANGED <<users, job, broken, late>>, NEW p \in Procs,
         \/ \E t \in Tokens : RefreshGet(p, t) \/ LogoutGet(p, t)
         \/ \E active \in BOOLEAN : RefreshCheck(p, active)
  PROVE  SessionsExpire'
<1>1. /\ proc[p].pc \in {"idle", "check"} /\ UNCHANGED <<sessions, stray>>
      /\ \E row : proc' = [proc EXCEPT ![p] = row]
  BY DEF RefreshGet, LogoutGet, RefreshCheck, Step
<1>2. \A q \in Procs \ {p} : proc'[q] = proc[q]
  BY <1>1 DEF SessionsKnown, SessionsTyped
<1>3. \A u, r : ~Reaching(p, u, r)
  BY <1>1 DEF Reaching
<1>4. QED
  BY <1>1, <1>2, <1>3, WayMoves

LEMMA ForgetExpires ==
  ASSUME SessionsKnown, SessionsExpire, UNCHANGED <<users, job, broken, late>>, NEW p \in Procs,
         ForgetSession(p) \/ ForgetListed(p)
  PROVE  SessionsExpire'
<1>1. /\ proc[p].pc \in {"rotate", "expel", "logout", "rotated", "expelled", "loggedout"}
      /\ UNCHANGED stray /\ \E row : proc' = [proc EXCEPT ![p] = row]
      /\ \E t : sessions' = [sessions EXCEPT ![t] = NoOne] \/ UNCHANGED sessions
  BY DEF ForgetSession, ForgetListed, Step, End
<1>2. \A q \in Procs \ {p} : proc'[q] = proc[q]
  BY <1>1 DEF SessionsKnown, SessionsTyped
<1>3. \A r \in Tokens : sessions'[r] \in {sessions[r], NoOne}
  BY <1>1 DEF SessionsKnown, SessionsTyped
<1>4. \A u, r : ~Reaching(p, u, r)
  BY <1>1 DEF Reaching
<1>5. QED
  BY <1>1, <1>2, <1>3, <1>4, SessionsAssumption, WayMoves

LEMMA RevokeReadExpires ==
  ASSUME SessionsKnown, SessionsExpire, UNCHANGED <<users, job, broken, late>>, NEW p \in Procs,
         RevokeRead(p)
  PROVE  SessionsExpire'
<1> DEFINE v == proc[p].owner
<1>1. /\ proc[p].pc = "revoke" /\ UNCHANGED <<sessions, stray>>
      /\ proc' = [proc EXCEPT ![p].pc = "revoking", ![p].todo = index[v]]
  BY DEF RevokeRead
<1>2. /\ proc'[p].pc = "revoking" /\ proc'[p].owner = v /\ proc'[p].todo = index[v]
      /\ \A q \in Procs \ {p} : proc'[q] = proc[q]
  BY <1>1 DEF SessionsKnown, SessionsTyped, ProcRow
<1>3. \A u, r : Reaching(p, u, r) => u = v
  BY <1>1 DEF Reaching
<1>4. ASSUME NEW u \in Owners, NEW t \in Tokens, sessions'[t] = u, users[u].status \in Ended,
             u \notin broken'
      PROVE  \/ t \in late' \cup stray' \/ Expiring(u, t)'
             \/ sessions[t] = u /\ u # v
  <2>1. CASE u = v
    <3>1. t \in index[u] \cup stray \/ Listing(t)
      BY <1>1, <1>4, LiveIsListed, SessionsAssumption
    <3>2. t \in index[u] => Reaching(p, u, t)'
      BY <1>2, <2>1 DEF Reaching
    <3>3. ASSUME Listing(t)
          PROVE  \E q \in Procs : Reaching(q, u, t)'
      <4>1. PICK q \in Procs : proc[q].pc = "list" /\ proc[q].token = t
        BY <3>3 DEF Listing
      <4>2. Reaching(q, u, t)'
        BY <1>1, <1>2, <4>1 DEF Reaching
      <4>3. QED
        BY <4>2
    <3>4. QED
      BY <1>1, <3>1, <3>2, <3>3 DEF Expiring
  <2>2. QED
    BY <1>1, <1>4, <2>1
<1>5. ASSUME NEW u \in Owners, NEW t \in Tokens, sessions[t] = u, users[u].status \in Ended,
             u \notin broken', u # v
      PROVE  t \in late' \cup stray' \/ Expiring(u, t)'
  <2>1. t \in late \cup stray \/ Expiring(u, t)
    BY <1>5 DEF SessionsExpire, LiveSessions
  <2>2. ASSUME NEW q \in Procs, Reaching(q, u, t)
        PROVE  Reaching(q, u, t)'
    BY <1>2, <1>3, <1>5, <2>2 DEF Reaching
  <2>3. Blocking(u) => Blocking(u)'
    BY DEF Blocking
  <2>4. QED
    BY <1>1, <2>1, <2>2, <2>3 DEF Expiring
<1>6. QED
  BY <1>1, <1>4, <1>5 DEF SessionsExpire, LiveSessions

LEMMA RevokeTokenExpires ==
  ASSUME SessionsKnown, SessionsExpire, UNCHANGED <<users, job, broken, late>>, NEW p \in Procs,
         RevokeToken(p)
  PROVE  SessionsExpire'
<1>1. PICK t \in proc[p].todo :
        /\ proc[p].pc = "revoking" /\ sessions' = [sessions EXCEPT ![t] = NoOne]
        /\ proc' = [proc EXCEPT ![p].todo = @ \ {t}]
        /\ UNCHANGED <<index, issued, stray>>
  BY DEF RevokeToken
<1>2. t \in Tokens
  BY ProcFields DEF SessionsKnown
<1>3. /\ proc'[p].pc = "revoking" /\ proc'[p].owner = proc[p].owner
      /\ proc'[p].todo = proc[p].todo \ {t}
      /\ \A q \in Procs \ {p} : proc'[q] = proc[q]
      /\ sessions'[t] = NoOne /\ \A r \in Tokens \ {t} : sessions'[r] = sessions[r]
  BY <1>1, <1>2 DEF SessionsKnown, SessionsTyped, ProcRow
<1>4. \A u \in Owners, r \in Tokens \ {t} : Reaching(p, u, r) => Reaching(p, u, r)'
  BY <1>1, <1>3 DEF Reaching
<1>5. QED
  BY <1>1, <1>3, <1>4, SessionsAssumption, WayMoves

LEMMA RevokeIndexExpires ==
  ASSUME SessionsKnown, SessionsExpire, UNCHANGED <<users, job, broken, late>>, NEW p \in Procs,
         RevokeIndex(p)
  PROVE  SessionsExpire'
<1>1. /\ proc[p].pc = "revoking" /\ proc[p].todo = {} /\ UNCHANGED <<sessions, stray>>
      /\ proc' = [proc EXCEPT ![p] = IdleProc]
  BY DEF RevokeIndex, End
<1>2. \A q \in Procs \ {p} : proc'[q] = proc[q]
  BY <1>1 DEF SessionsKnown, SessionsTyped
<1>3. \A u, r : ~Reaching(p, u, r)
  BY <1>1 DEF Reaching
<1>4. QED
  BY <1>1, <1>2, <1>3, WayMoves

LEMMA DeathExpires ==
  ASSUME SessionsKnown, SessionsExpire, NEW p \in Procs, RequestDies(p),
         UNCHANGED <<users, job, late>>,
         broken' = IF proc[p].pc \in {"revoke", "revoking"} THEN broken \cup {proc[p].owner}
                   ELSE broken
  PROVE  SessionsExpire'
<1>1. /\ proc' = [proc EXCEPT ![p] = IdleProc] /\ UNCHANGED sessions
      /\ stray' = IF proc[p].pc = "list" THEN stray \cup {proc[p].token} ELSE stray
  BY DEF RequestDies
<1>2. \A q \in Procs \ {p} : proc'[q] = proc[q]
  BY <1>1 DEF SessionsKnown, SessionsTyped
<1>3. \A u, r : Reaching(p, u, r) => u \in broken' \/ r \in stray'
  BY <1>1 DEF Reaching
<1>4. QED
  BY <1>1, <1>2, <1>3, WayMoves

-----------------------------------------------------------------------------
(* The steps                                                               *)

LEMMA AccountsStep ==
  ASSUME AccountsKnown, AccountsNext
  PROVE  AccountsKnown'
BY SendCodeAccounts, VerifyCodeAccounts, ActivateUserAccounts, RequestAccounts,
   PlaceOrderAccounts, CreateAddressAccounts, DeleteAddressAccounts, MoveReadAccounts,
   MoveCommitAccounts, BlockUserAccounts, BlockSelectAccounts, CascadeLoadAccounts,
   CascadeStoreAccounts, BlockRevokeAccounts, UnblockUserAccounts, AdjustLoyaltyAccounts,
   DeleteReadAccounts, DeleteCommitAccounts, SessionRequestAccounts, DiesAccounts
   DEF AccountsNext

\* What a step does about the sessions.
LEMMA SessionSide ==
  ASSUME AccountsKnown, OnePart, AccountsNext
  PROVE  \/ UNCHANGED sessionVars
         \/ \E p \in Procs, u \in Owners, pc \in {"issue", "revoke"} :
              proc[p].pc = "idle" /\ Continue(p, u, pc)
         \/ \E p \in Procs :
              \/ SessionStep(p) \/ RequestDies(p)
              \/ \E active \in BOOLEAN : RefreshCheck(p, active)
<1> DEFINE Continues == \E p \in Procs, u \in Owners, pc \in {"issue", "revoke"} :
                          proc[p].pc = "idle" /\ Continue(p, u, pc)
<1> HIDE DEF Continues
<1>1. ASSUME NEW p \in Procs, VerifyCode(p)
      PROVE  UNCHANGED sessionVars \/ Continues
  BY <1>1 DEF VerifyCode, Free, Continues
<1>2. ASSUME NEW p \in Procs, job[p].op \notin {"none", "move"}
      PROVE  proc[p].pc = "idle" /\ job[p].user \in Owners
  BY <1>2 DEF OnePart, AccountsKnown, JobKnows
<1>3. ASSUME NEW p \in Procs, ActivateUser(p)
      PROVE  UNCHANGED sessionVars \/ Continues
  BY <1>2, <1>3 DEF ActivateUser, Continues
<1>4. ASSUME NEW p \in Procs, BlockRevoke(p)
      PROVE  Continues
  BY <1>2, <1>4 DEF BlockRevoke, Continues
<1>5. ASSUME NEW p \in Procs, DeleteCommit(p)
      PROVE  UNCHANGED sessionVars \/ Continues
  BY <1>2, <1>5 DEF DeleteCommit, Continues
<1>6. ASSUME NEW p \in Procs, NEW u \in Owners, BlockUser(p, u)
      PROVE  UNCHANGED sessionVars \/ Continues
  BY <1>6 DEF BlockUser, Free, Continues
<1>7. ASSUME NEW p \in Procs, SessionRequest(p)
      PROVE  SessionStep(p) \/ \E active \in BOOLEAN : RefreshCheck(p, active)
  <2>1. Authenticated(proc[p].owner) \in BOOLEAN
    BY DEF Authenticated
  <2>2. QED
    BY <1>7, <2>1 DEF SessionRequest
<1>8. ASSUME NEW p \in Procs, Dies(p)
      PROVE  UNCHANGED sessionVars \/ RequestDies(p)
  BY <1>8 DEF Dies
<1>9. CASE \/ SendCode
           \/ \E p \in Procs : \/ PlaceOrder(p) \/ CreateAddress(p) \/ BlockSelect(p)
                               \/ CascadeLoad(p) \/ CascadeStore(p) \/ MoveCommit(p)
           \/ \E p \in Procs, o \in Orders : MoveRead(p, o)
           \/ \E p \in Procs, u \in Owners : \/ Request(p, u, "checkout")
                                             \/ Request(p, u, "address")
                                             \/ DeleteRead(p, u)
           \/ \E u \in Owners : DeleteAddress(u) \/ UnblockUser(u) \/ AdjustLoyalty(u)
  BY <1>9 DEF SendCode, PlaceOrder, CreateAddress, BlockSelect, CascadeLoad, CascadeStore,
     MoveCommit, MoveRead, Request, DeleteRead, DeleteAddress, UnblockUser, AdjustLoyalty
<1>10. QED
  BY <1>1, <1>3, <1>4, <1>5, <1>6, <1>7, <1>8, <1>9 DEF AccountsNext, Continues

LEMMA SessionsStep ==
  ASSUME SessionsKnown, AccountsKnown, OnePart, AccountsNext
  PROVE  SessionsKnown'
BY SessionSide, SessionsStay, ContinueKnown, RequestKnown

LEMMA OnePartStep ==
  ASSUME SessionsTyped, AccountsKnown, OnePart, AccountsNext
  PROVE  OnePart'
<1> AccountsTyped
  BY DEF AccountsKnown
<1>1. ASSUME NEW p \in Procs, NEW u, NEW pc, Continue(p, u, pc)
      PROVE  OnePart'
  BY <1>1, NoJobTyped DEF Continue, OnePart, SessionsTyped, AccountsTyped
<1>2. ASSUME NEW p \in Procs, UNCHANGED sessionVars, proc[p].pc = "idle",
             \E row : job' = [job EXCEPT ![p] = row]
      PROVE  OnePart'
  BY <1>2 DEF sessionVars, OnePart, AccountsTyped
<1>3. ASSUME UNCHANGED <<sessionVars, job>>
      PROVE  OnePart'
  BY <1>3 DEF sessionVars, OnePart
<1>4. ASSUME NEW p \in Procs, SessionRequest(p)
      PROVE  OnePart'
  <2>1. job[p].op = "none" /\ UNCHANGED job /\ \E row : proc' = [proc EXCEPT ![p] = row]
    BY <1>4 DEF SessionRequest, SessionStep, StoreSession, RememberRefreshToken, RefreshGet,
       LogoutGet, ForgetSession, ForgetListed, RevokeRead, RevokeToken, RevokeIndex,
       RefreshCheck, Step, End
  <2>2. QED
    BY <2>1 DEF OnePart, SessionsTyped
<1>5. ASSUME NEW p \in Procs, Dies(p)
      PROVE  OnePart'
  <2>1. CASE RequestDies(p) /\ UNCHANGED job
    BY <2>1 DEF RequestDies, IdleProc, OnePart, SessionsTyped
  <2>2. CASE job[p].op # "none" /\ job' = [job EXCEPT ![p] = NoJob] /\ UNCHANGED sessionVars
    BY <1>2, <2>2 DEF OnePart
  <2>3. QED
    BY <1>5, <2>1, <2>2 DEF Dies
<1>6. \A p \in Procs : job[p].op # "none" => proc[p].pc = "idle"
  BY DEF OnePart
<1>7. ASSUME NEW p \in Procs, VerifyCode(p)
      PROVE  OnePart'
  BY <1>1, <1>2, <1>7 DEF VerifyCode, Free
<1>8. ASSUME NEW p \in Procs, ActivateUser(p)
      PROVE  OnePart'
  BY <1>1, <1>2, <1>6, <1>8 DEF ActivateUser
<1>9. ASSUME NEW p \in Procs,
             PlaceOrder(p) \/ CreateAddress(p) \/ MoveCommit(p) \/ BlockSelect(p)
      PROVE  OnePart'
  BY <1>2, <1>6, <1>9 DEF PlaceOrder, CreateAddress, BlockSelect, MoveCommit
<1>b. ASSUME NEW p \in Procs, CascadeStore(p)
      PROVE  OnePart'
  <2>1. proc[p].pc = "idle" /\ UNCHANGED sessionVars
    BY <1>6, <1>b DEF CascadeStore
  <2>2. \A q \in Procs \ {p} : job'[q] = job[q]
    BY <1>b DEF CascadeStore, AccountsTyped
  <2>3. QED
    BY <2>1, <2>2 DEF OnePart, sessionVars
<1>10. ASSUME NEW p \in Procs, CascadeLoad(p)
       PROVE  OnePart'
  <2>1. proc[p].pc = "idle" /\ UNCHANGED sessionVars
    BY <1>6, <1>10 DEF CascadeLoad, AccountsKnown, JobKnows
  <2>2. \E row : job' = [job EXCEPT ![p] = row]
    BY <1>10 DEF CascadeLoad
  <2>3. QED
    BY <1>2, <2>1, <2>2
<1>11. ASSUME NEW p \in Procs, BlockRevoke(p) \/ DeleteCommit(p)
       PROVE  OnePart'
  BY <1>1, <1>2, <1>6, <1>11 DEF BlockRevoke, DeleteCommit
<1>12. ASSUME NEW p \in Procs, NEW u \in Owners,
              \/ Request(p, u, "checkout") \/ Request(p, u, "address")
              \/ BlockUser(p, u) \/ DeleteRead(p, u)
       PROVE  OnePart'
  BY <1>1, <1>2, <1>12 DEF Request, BlockUser, DeleteRead, Free
<1>a. ASSUME NEW p \in Procs, NEW o \in Orders, MoveRead(p, o)
      PROVE  OnePart'
  BY <1>2, <1>a DEF MoveRead, Free
<1>13. CASE \/ SendCode
            \/ \E u \in Owners : DeleteAddress(u) \/ UnblockUser(u) \/ AdjustLoyalty(u)
  BY <1>3, <1>13 DEF SendCode, DeleteAddress, UnblockUser, AdjustLoyalty
<1>14. QED
  BY <1>4, <1>5, <1>7, <1>8, <1>9, <1>10, <1>11, <1>12, <1>a, <1>b, <1>13
  DEF AccountsNext

\* Who writes an order writes no more of its customer than the points.
LEMMA MoverStatus ==
  ASSUME AccountsKnown, NEW p \in Procs, MoveCommit(p) \/ CascadeStore(p), NEW v \in Owners
  PROVE  users'[v].status = users[v].status
<1> DEFINE o == job[p].order
           u == orders[o].owner
<1>1. \E seen, to : StoreOrder(o, seen, to, job[p].balance)
  BY DEF MoveCommit, CascadeStore
<1>2. o \in Orders /\ u \in Owners
  BY DEF MoveCommit, CascadeStore, AccountsKnown, AccountsTyped, JobRow, JobKnows
<1>3. job[p].balance \in Nat /\ users[u].balance \in Int
  BY <1>2, JobFields, UserFields DEF AccountsKnown
<1>4. UNCHANGED users \/ \E b \in Int : SetUser(u, "balance", b)
  <2>1. \A b \in {job[p].balance, users[u].balance} : b + 1 \in Int
    BY <1>3
  <2>2. QED
    BY <1>1, <2>1 DEF StoreOrder
<1>5. QED
  BY <1>2, <1>4, BalanceWritten DEF AccountsKnown

LEMMA WayStep ==
  ASSUME SessionsKnown, AccountsKnown, OnePart, SessionsExpire, AccountsNext
  PROVE  SessionsExpire'
<1> SessionsTyped /\ AccountsTyped
  BY DEF SessionsKnown, AccountsKnown
<1>1. \A p \in Procs : job[p].op \notin {"none", "move"} =>
                        proc[p].pc = "idle" /\ job[p].user \in Owners
  BY DEF OnePart, AccountsKnown, JobKnows
\* Steps that leave the sessions to whom they have in view.
<1>2. ASSUME UNCHANGED <<sessionVars, broken>>, late \subseteq late',
             \A u \in Owners : users'[u].status \in Ended => users[u].status \in Ended,
             UNCHANGED job \/ \E p \in Procs : /\ job[p].op # "block"
                                               /\ \E row : job' = [job EXCEPT ![p] = row]
      PROVE  SessionsExpire'
  <2>1. \A u \in Owners : Blocking(u) => Blocking(u)'
    BY <1>2 DEF Blocking, AccountsTyped
  <2>2. QED
    BY <1>2, <2>1, WayStays
<1>3. ASSUME NEW u \in Owners, CreateUser(u)
      PROVE  \A v \in Owners : users'[v].status \in Ended => users[v].status \in Ended
  BY <1>3, Created DEF Ended
<1>4. CASE SendCode
  BY <1>2, <1>3, <1>4 DEF SendCode
<1>5. ASSUME NEW p \in Procs, VerifyCode(p)
      PROVE  SessionsExpire'
  <2>1. job[p].op = "none" /\ proc[p].pc = "idle" /\ UNCHANGED <<late, broken>>
    BY <1>5 DEF VerifyCode, Free
  <2>2. ASSUME NEW u \in Owners, Continue(p, u, "issue"), UNCHANGED users
        PROVE  SessionsExpire'
    BY <2>1, <2>2, WayContinues
  <2>3. QED
    BY <1>2, <1>3, <1>5, <2>1, <2>2 DEF VerifyCode
<1>6. ASSUME NEW p \in Procs, ActivateUser(p)
      PROVE  SessionsExpire'
  <2>1. job[p].op = "activate" /\ UNCHANGED <<late, broken>>
    BY <1>6 DEF ActivateUser
  <2>2. PICK u \in Owners : u = job[p].user
    BY <1>1, <2>1
  <2>3. CASE users[u].balance = -1
    <3>1. users' = [users EXCEPT ![u].status = "ACTIVE", ![u].balance = 0]
      BY <1>6, <2>2, <2>3 DEF ActivateUser
    <3>2. \A v \in Owners : users'[v].status \in Ended => users[v].status \in Ended
      BY <3>1 DEF AccountsTyped, UserRow, Ended
    <3>3. Continue(p, u, "issue")
      BY <1>6, <2>2, <2>3 DEF ActivateUser
    <3>4. QED
      BY <1>1, <2>1, <3>2, <3>3, WayContinues
  <2>4. CASE users[u].balance # -1
    <3>1. job' = [job EXCEPT ![p] = NoJob] /\ UNCHANGED <<users, sessionVars>>
      BY <1>6, <2>2, <2>4 DEF ActivateUser
    <3>2. QED
      BY <1>2, <2>1, <3>1
  <2>5. QED
    BY <2>3, <2>4
<1>7. ASSUME NEW p \in Procs, NEW u \in Owners,
             Request(p, u, "checkout") \/ Request(p, u, "address") \/ DeleteRead(p, u)
      PROVE  SessionsExpire'
  BY <1>2, <1>7 DEF Request, DeleteRead, Free
<1>8. ASSUME NEW p \in Procs, PlaceOrder(p)
      PROVE  SessionsExpire'
  <2>1. PICK u \in Owners : u = job[p].user
    BY <1>1, <1>8 DEF PlaceOrder
  <2>2. UNCHANGED users \/ SetUser(u, "balance", job[p].balance - 1)
    BY <1>8, <2>1 DEF PlaceOrder
  <2>3. job[p].balance - 1 \in Int
    BY JobFields
  <2>4. \A v \in Owners : users'[v].status = users[v].status
    BY <2>2, <2>3, BalanceWritten
  <2>5. job[p].op # "block" /\ UNCHANGED <<broken, sessionVars>>
    BY <1>8 DEF PlaceOrder
  <2>6. late \subseteq late' /\ \E row : job' = [job EXCEPT ![p] = row]
    BY <1>8 DEF PlaceOrder, Late
  <2>7. QED
    BY <1>2, <2>4, <2>5, <2>6
<1>9. ASSUME NEW p \in Procs, CreateAddress(p)
      PROVE  SessionsExpire'
  <2>1. PICK u \in Owners : u = job[p].user /\ SetUser(u, "address", TRUE)
    BY <1>1, <1>9 DEF CreateAddress
  <2>2. \A v \in Owners : users'[v].status = users[v].status
    BY <2>1, AddressWritten
  <2>3. QED
    BY <1>2, <1>9, <2>2 DEF CreateAddress, Late
<1>10. ASSUME NEW u \in Owners, DeleteAddress(u)
       PROVE  SessionsExpire'
  <2>1. \A v \in Owners : users'[v].status = users[v].status
    BY <1>10, AddressWritten DEF DeleteAddress
  <2>2. QED
    BY <1>2, <1>10, <2>1 DEF DeleteAddress
<1>11. ASSUME NEW p \in Procs, NEW o \in Orders, MoveRead(p, o)
       PROVE  SessionsExpire'
  BY <1>2, <1>11 DEF MoveRead, Free
<1>a. ASSUME NEW p \in Procs, MoveCommit(p)
      PROVE  SessionsExpire'
  <2>1. \A v \in Owners : users'[v].status = users[v].status
    BY <1>a, MoverStatus
  <2>2. job[p].op # "block" /\ late \subseteq late' /\ UNCHANGED <<broken, sessionVars>>
    BY <1>a DEF MoveCommit, StoreOrder, Late
  <2>3. \E row : job' = [job EXCEPT ![p] = row]
    BY <1>a DEF MoveCommit
  <2>4. QED
    BY <1>2, <2>1, <2>2, <2>3
<1>12. ASSUME NEW u \in Owners, AdjustLoyalty(u)
       PROVE  SessionsExpire'
  <2>1. PICK b \in Nat : SetUser(u, "balance", b)
    BY <1>12, AccountsAssumption DEF AdjustLoyalty
  <2>2. \A v \in Owners : users'[v].status = users[v].status
    BY <2>1, BalanceWritten
  <2>3. QED
    BY <1>2, <1>12, <2>2 DEF AdjustLoyalty
<1>13. ASSUME NEW u \in Owners, UnblockUser(u)
       PROVE  SessionsExpire'
  <2>1. /\ users'[u].status = "ACTIVE" /\ \A v \in Owners \ {u} : users'[v] = users[v]
    BY <1>13, StatusWritten DEF UnblockUser
  <2>2. \A v \in Owners : users'[v].status \in Ended =>
          users[v].status \in Ended /\ (v \in broken => v \in broken')
    BY <1>13, <2>1 DEF UnblockUser, Ended
  <2>3. UNCHANGED <<sessionVars, late, job>>
    BY <1>13 DEF UnblockUser
  <2>4. \A v \in Owners : Blocking(v) => Blocking(v)'
    BY <2>3 DEF Blocking
  <2>5. QED
    BY <2>2, <2>3, <2>4, WayStays
<1>14. ASSUME NEW p \in Procs, NEW u \in Owners, BlockUser(p, u)
       PROVE  SessionsExpire'
  <2>1. UNCHANGED <<late, broken>> /\ job[p].op = "none" /\ proc[p].pc = "idle"
    BY <1>14 DEF BlockUser, Free
  <2>2. CASE /\ SetUser(u, "status", "BLOCKED") /\ UNCHANGED sessionVars
             /\ job' = [job EXCEPT ![p] = [NoJob EXCEPT !.op = "block", !.user = u,
                                                        !.seen = "select"]]
    <3>1. \A v \in Owners \ {u} : users'[v] = users[v]
      BY <2>2, StatusWritten DEF Ended
    <3>2. /\ job'[p].op = "block" /\ job'[p].user = u
          /\ \A q \in Procs \ {p} : job'[q] = job[q]
      BY <2>2 DEF AccountsTyped, NoJob
    <3>3. Blocking(u)' /\ \A v \in Owners : Blocking(v) => Blocking(v)'
      BY <2>1, <3>2 DEF Blocking
    <3>4. QED
      BY <2>1, <2>2, <3>1, <3>3, WayStays
  <2>3. CASE Continue(p, u, "revoke") /\ UNCHANGED users
    BY <2>1, <2>3, WayContinues
  <2>4. QED
    BY <1>14, <2>2, <2>3 DEF BlockUser
<1>15. ASSUME NEW p \in Procs, BlockSelect(p)
       PROVE  SessionsExpire'
  <2>1. UNCHANGED <<users, late, broken, sessionVars>>
    BY <1>15 DEF BlockSelect
  <2>2. /\ \A q \in Procs \ {p} : job'[q] = job[q]
        /\ job'[p].op = job[p].op /\ job'[p].user = job[p].user
    BY <1>15 DEF BlockSelect, AccountsTyped, JobRow
  <2>3. QED
    BY <2>1, <2>2, JobsGoOn
<1>b. ASSUME NEW p \in Procs, CascadeLoad(p)
      PROVE  SessionsExpire'
  <2>1. UNCHANGED <<users, late, sessionVars>> /\ broken \subseteq broken'
    BY <1>b DEF CascadeLoad
  <2>2. PICK o \in job[p].todo :
          \/ job' = [job EXCEPT ![p].order = o, ![p].balance = users[job[p].user].balance]
          \/ /\ job' = [job EXCEPT ![p] = NoJob]
             /\ broken' = IF job[p].op = "block" THEN broken \cup {job[p].user} ELSE broken
    BY <1>b DEF CascadeLoad
  <2>3. /\ \A q \in Procs \ {p} : job'[q] = job[q]
        /\ job[p].op = "block" => \/ job'[p].op = "block" /\ job'[p].user = job[p].user
                                 \/ job[p].user \in broken'
    BY <2>2 DEF AccountsTyped, JobRow
  <2>4. QED
    BY <2>1, <2>3, JobsGoOn
<1>c. ASSUME NEW p \in Procs, CascadeStore(p)
      PROVE  SessionsExpire'
  <2>1. \A v \in Owners : users'[v].status = users[v].status
    BY <1>c, MoverStatus
  <2>2. late \subseteq late' /\ UNCHANGED <<broken, sessionVars>>
    BY <1>c DEF CascadeStore, StoreOrder, Late
  <2>3. /\ \A q \in Procs \ {p} : job'[q] = job[q]
        /\ job'[p].op = job[p].op /\ job'[p].user = job[p].user
    BY <1>c DEF CascadeStore, AccountsTyped, JobRow
  <2>4. QED
    BY <2>1, <2>2, <2>3, JobsGoOn
<1>16. ASSUME NEW p \in Procs, BlockRevoke(p)
       PROVE  SessionsExpire'
  <2>1. PICK u \in Owners : u = job[p].user
    BY <1>1, <1>16 DEF BlockRevoke
  <2>2. QED
    BY <1>1, <1>16, <2>1, WayContinues DEF BlockRevoke
<1>17. ASSUME NEW p \in Procs, DeleteCommit(p)
       PROVE  SessionsExpire'
  <2>1. job[p].op = "delete" /\ UNCHANGED <<late, broken>>
    BY <1>17 DEF DeleteCommit
  <2>2. PICK u \in Owners : u = job[p].user
    BY <1>1, <2>1
  <2>3. CASE users' = [users EXCEPT ![u] = Tombstone(u)] /\ Continue(p, u, "revoke")
    <3>1. \A v \in Owners \ {u} : users'[v] = users[v]
      BY <2>3 DEF AccountsTyped
    <3>2. QED
      BY <1>1, <2>1, <2>3, <3>1, WayContinues
  <2>4. CASE job' = [job EXCEPT ![p] = NoJob] /\ UNCHANGED <<users, sessionVars>>
    BY <1>2, <2>1, <2>4
  <2>5. QED
    BY <1>17, <2>2, <2>3, <2>4 DEF DeleteCommit
<1>18. ASSUME NEW p \in Procs, SessionRequest(p)
       PROVE  SessionsExpire'
  <2>1. UNCHANGED <<users, job, broken>>
    BY <1>18 DEF SessionRequest
  <2>2. CASE proc[p].pc = "list"
    <3>1. RememberRefreshToken(p) /\ LateToken(p)
      BY <1>18, <2>2 DEF SessionRequest, SessionStep, StoreSession, RefreshGet, LogoutGet,
         ForgetSession, ForgetListed, RevokeRead, RevokeToken, RevokeIndex, RefreshCheck,
         Step, End
    <3>2. QED
      BY <2>1, <3>1, RememberExpires
  <2>3. CASE proc[p].pc # "list"
    <3>1. UNCHANGED late /\ ~RememberRefreshToken(p)
      BY <1>18, <2>3 DEF SessionRequest, LateToken, RememberRefreshToken, End
    <3>2. Authenticated(proc[p].owner) \in BOOLEAN
      BY DEF Authenticated
    <3>3. QED
      BY <1>18, <2>1, <3>1, <3>2, StoreExpires, GetExpires, ForgetExpires, RevokeReadExpires,
         RevokeTokenExpires, RevokeIndexExpires DEF SessionRequest, SessionStep
  <2>4. QED
    BY <2>2, <2>3
<1>19. ASSUME NEW p \in Procs, Dies(p)
       PROVE  SessionsExpire'
  <2>1. UNCHANGED <<users, late>>
    BY <1>19 DEF Dies
  <2>2. CASE /\ RequestDies(p) /\ UNCHANGED job
             /\ broken' = IF proc[p].pc \in {"revoke", "revoking"}
                          THEN broken \cup {proc[p].owner} ELSE broken
    BY <2>1, <2>2, DeathExpires
  <2>3. CASE /\ broken' = IF job[p].op = "block" THEN broken \cup {job[p].user} ELSE broken
             /\ job' = [job EXCEPT ![p] = NoJob] /\ UNCHANGED sessionVars
    <3>1. \A q \in Procs \ {p} : job'[q] = job[q]
      BY <2>3 DEF AccountsTyped
    <3>2. QED
      BY <2>1, <2>3, <3>1, JobsGoOn
  <2>4. QED
    BY <1>19, <2>2, <2>3 DEF Dies
<1>20. QED
  BY <1>4, <1>5, <1>6, <1>7, <1>8, <1>9, <1>10, <1>11, <1>a, <1>12, <1>13, <1>14, <1>15,
     <1>b, <1>c, <1>16, <1>17, <1>18, <1>19 DEF AccountsNext

LEMMA UserSteps ==
  ASSUME AccountsKnown, AccountsNext, NEW v \in Owners, users'[v].status # users[v].status
  PROVE  <<users[v].status, users'[v].status>> \in
           {<<"none", "PENDING_VERIFICATION">>,
            <<"PENDING_VERIFICATION", "ACTIVE">>, <<"ACTIVE", "BLOCKED">>,
            <<"BLOCKED", "ACTIVE">>, <<"ACTIVE", "DELETED">>,
            <<"BLOCKED", "DELETED">>}
<1> DEFINE Legal(a, b) == \/ a = "none" /\ b = "PENDING_VERIFICATION"
                          \/ a = "PENDING_VERIFICATION" /\ b = "ACTIVE"
                          \/ a = "ACTIVE" /\ b = "BLOCKED"
                          \/ a = "BLOCKED" /\ b = "ACTIVE"
                          \/ a \in {"ACTIVE", "BLOCKED"} /\ b = "DELETED"
<1> SUFFICES Legal(users[v].status, users'[v].status)
  OBVIOUS
<1> DEFINE Kept == \A u \in Owners : users'[u].status = users[u].status
<1> AccountsTyped
  BY DEF AccountsKnown
<1>1. ASSUME NEW u \in Owners, CreateUser(u)
      PROVE  Legal(users[v].status, users'[v].status)
  BY <1>1, Created
<1>2. CASE SendCode
  BY <1>1, <1>2 DEF SendCode
<1>3. ASSUME NEW p \in Procs, VerifyCode(p)
      PROVE  Legal(users[v].status, users'[v].status)
  BY <1>1, <1>3 DEF VerifyCode
<1>4. \A p \in Procs : job[p].op \notin {"none", "move"} => job[p].user \in Owners
  BY DEF AccountsKnown, JobKnows
<1>5. ASSUME NEW p \in Procs, ActivateUser(p)
      PROVE  Legal(users[v].status, users'[v].status)
  <2>1. PICK u \in Owners : u = job[p].user /\ users[u].status # "none"
    BY <1>5 DEF ActivateUser, AccountsKnown, JobKnows
  <2>2. users[u].balance = -1 /\ users' = [users EXCEPT ![u].status = "ACTIVE", ![u].balance = 0]
    BY <1>5, <2>1 DEF ActivateUser
  <2>3. users[u].status = "PENDING_VERIFICATION"
    BY <2>1, <2>2 DEF AccountsKnown, UserStands
  <2>4. users'[u].status = "ACTIVE" /\ \A x \in Owners \ {u} : users'[x] = users[x]
    BY <2>2 DEF AccountsTyped, UserRow
  <2>5. QED
    BY <2>3, <2>4
<1>6. ASSUME NEW p \in Procs, CreateAddress(p)
      PROVE  Kept
  <2>1. PICK u \in Owners : u = job[p].user /\ SetUser(u, "address", TRUE)
    BY <1>4, <1>6 DEF CreateAddress
  <2>2. QED
    BY <2>1, AddressWritten
<1>7. ASSUME NEW u \in Owners, DeleteAddress(u)
      PROVE  Kept
  BY <1>7, AddressWritten DEF DeleteAddress
<1>8. ASSUME NEW p \in Procs, MoveCommit(p) \/ CascadeStore(p)
      PROVE  Kept
  BY <1>8, MoverStatus
<1>a. ASSUME NEW p \in Procs, PlaceOrder(p)
      PROVE  Kept
  <2>1. PICK u \in Owners : u = job[p].user
    BY <1>4, <1>a DEF PlaceOrder
  <2>2. UNCHANGED users \/ SetUser(u, "balance", job[p].balance - 1)
    BY <1>a, <2>1 DEF PlaceOrder
  <2>3. job[p].balance - 1 \in Int
    BY JobFields
  <2>4. QED
    BY <2>2, <2>3, BalanceWritten
<1>9. ASSUME NEW u \in Owners, AdjustLoyalty(u)
      PROVE  Kept
  <2>1. PICK b \in Nat : SetUser(u, "balance", b)
    BY <1>9, AccountsAssumption DEF AdjustLoyalty
  <2>2. QED
    BY <2>1, BalanceWritten
<1>10. ASSUME NEW u \in Owners, UnblockUser(u)
       PROVE  Legal(users[v].status, users'[v].status)
  BY <1>10, StatusWritten DEF UnblockUser
<1>11. ASSUME NEW p \in Procs, NEW u \in Owners, BlockUser(p, u)
       PROVE  Legal(users[v].status, users'[v].status)
  BY <1>11, StatusWritten DEF BlockUser, Ended
<1>12. ASSUME NEW p \in Procs, DeleteCommit(p)
       PROVE  Legal(users[v].status, users'[v].status)
  <2>1. PICK u \in Owners : u = job[p].user /\ users[u].balance >= 0
    BY <1>12 DEF DeleteCommit, AccountsKnown, JobKnows
  <2>2. users' = [users EXCEPT ![u] = Tombstone(u)]
    BY <1>12, <2>1 DEF DeleteCommit
  <2>3. users[u].status \in {"ACTIVE", "BLOCKED", "DELETED"}
    BY <2>1, UserFields DEF AccountsKnown, UserStands, Ended
  <2>4. users'[u].status = "DELETED" /\ \A x \in Owners \ {u} : users'[x] = users[x]
    BY <2>2 DEF AccountsTyped, UserRow, Tombstone
  <2>5. QED
    BY <2>3, <2>4
<1>13. \/ Legal(users[v].status, users'[v].status) \/ Kept \/ UNCHANGED users
  BY <1>2, <1>3, <1>5, <1>6, <1>7, <1>8, <1>a, <1>9, <1>10, <1>11, <1>12 DEF AccountsNext,
     Request, MoveRead, BlockSelect, CascadeLoad, BlockRevoke, DeleteRead, SessionRequest, Dies
<1>14. QED
  BY <1>13

-----------------------------------------------------------------------------
(* The theorems                                                            *)

LEMMA AccountsStart == AccountsInit => AccountsInv
<1> SUFFICES ASSUME AccountsInit
             PROVE  AccountsInv
  OBVIOUS
<1>1. SessionsKnown
  BY SessionsInitKnown DEF AccountsInit
<1>2. AccountsTyped
  <2>1. NoUser \in UserRow
    BY DEF NoUser, UserRow
  <2>2. [owner |-> NoOne, status |-> "none"] \in OrderRow
    BY DEF OrderRow, Terminal
  <2>3. QED
    BY <2>1, <2>2, NoJobTyped DEF AccountsInit, AccountsTyped
<1>3. \A u \in Owners : UserStands(u) /\ users[u].status = "none"
  BY DEF AccountsInit, NoUser, UserStands
<1>4. \A o \in Orders : OrderStands(o)
  BY DEF AccountsInit, OrderStands
<1>5. \A p \in Procs : JobKnows(p) /\ job[p].op = "none"
  BY NoJobTyped DEF AccountsInit, JobKnows
<1>6. OrdersEnd /\ DeletedIsAnonymous /\ SessionsExpire /\ OnePart
  BY <1>3, <1>5 DEF OrdersEnd, DeletedIsAnonymous, SessionsExpire, Ended, OnePart
<1>7. QED
  BY <1>1, <1>2, <1>3, <1>4, <1>5, <1>6 DEF AccountsInv, AccountsKnown

LEMMA AccountsGoOn == AccountsInv /\ [AccountsNext]_accountVars => AccountsInv'
<1> SUFFICES ASSUME AccountsInv, [AccountsNext]_accountVars
             PROVE  AccountsInv'
  OBVIOUS
<1>1. CASE AccountsNext
  BY <1>1, AccountsStep, SessionsStep, OnePartStep, WayStep DEF AccountsInv, SessionsKnown
<1>2. CASE UNCHANGED accountVars
  <2>1. UNCHANGED <<users, orders, job, late, broken, sessionVars>>
    BY <1>2 DEF accountVars
  <2>2. SessionsKnown'
    BY <2>1, SessionsStay DEF AccountsInv
  <2>3. OnePart'
    BY <2>1 DEF AccountsInv, OnePart, sessionVars
  <2>4. SessionsExpire'
    BY <2>1, WayStays DEF AccountsInv, Blocking
  <2>5. AccountsKnown'
    BY <2>1 DEF AccountsInv, AccountsKnown, AccountsTyped, UserStands, OrderStands, JobKnows,
       OrdersOf, OrdersEnd, DeletedIsAnonymous
  <2>6. QED
    BY <2>2, <2>3, <2>4, <2>5 DEF AccountsInv
<1>3. QED
  BY <1>1, <1>2

\* What every request for a session or an account relies on, whoever else is
\* at work and whichever request dies.
THEOREM AccountsHold == AccountsSpec => []AccountsInv
BY AccountsStart, AccountsGoOn, PTL DEF AccountsSpec

\* auth.py, issue_tokens and revoke_user_sessions: every live session is in
\* the index that a revocation reads, but for one that is being issued, one
\* whose listing a revocation overlapped, and one whose request died between
\* SET and SADD.
THEOREM SessionsListed == AccountsSpec => []ListedOrStray
<1>1. AccountsInv => ListedOrStray
  BY DEF AccountsInv, SessionsKnown
<1>2. QED
  BY <1>1, AccountsHold, PTL

\* session_subjects.py: when nobody is at work on a blocked or deleted
\* account, and its ending did not stop half-way, it has no session but those
\* that a sign-in or a refresh added meanwhile and those no index lists.
THEOREM SessionsOver == AccountsSpec => []SessionsEnd
<1>1. ASSUME AccountsInv
      PROVE  SessionsEnd
  <2>1. SUFFICES ASSUME NEW u \in Owners, users[u].status \in Ended, u \notin broken,
                        \A p \in Procs : job[p].user # u /\ proc[p].owner # u,
                        NEW t \in LiveSessions(u)
                 PROVE  t \in late \cup stray
    BY DEF SessionsEnd
  <2>2. t \in late \cup stray \/ Expiring(u, t)
    BY <1>1, <2>1 DEF AccountsInv, SessionsExpire
  <2>3. ASSUME NEW p \in Procs, proc[p].pc = "list", proc[p].token = t
        PROVE  FALSE
    <3>1. sessions[t] \in {proc[p].owner, NoOne} /\ sessions[t] = u
      BY <1>1, <2>3 DEF AccountsInv, SessionsKnown, ProcKnows, LiveSessions
    <3>2. QED
      BY <2>1, <3>1, SessionsAssumption
  <2>4. QED
    BY <2>1, <2>2, <2>3 DEF Expiring, Blocking, Reaching
<1>2. QED
  BY <1>1, AccountsHold, PTL

\* account_deletion.py and admin_users.py: the orders of an ended account are
\* over (of a blocked one: over or with the courier), but for those that came
\* while it was being ended or were written over then by a request that had
\* read them before, and those of a block whose cascade stopped half-way.
THEOREM OrdersOverWithAccount == AccountsSpec => []OrdersEnd
<1>1. AccountsInv => OrdersEnd
  BY DEF AccountsInv, AccountsKnown
<1>2. QED
  BY <1>1, AccountsHold, PTL

\* account_deletion.py, INV-013: nothing personal survives a deletion, except
\* an address that a request under way adds, and the points that are written
\* with such an order.
THEOREM DeletionErases == AccountsSpec => []DeletedIsAnonymous
<1>1. AccountsInv => DeletedIsAnonymous
  BY DEF AccountsInv, AccountsKnown
<1>2. QED
  BY <1>1, AccountsHold, PTL

\* The unconditional UPDATEs of user.py, admin_users.py and
\* account_deletion.py move an account only along the edges of PDD 6.5: the
\* row may have changed since it was read, but never to a state from which the
\* write would be wrong.
THEOREM UserStepsLegal == AccountsSpec => LegalUserSteps
<1>1. AccountsInv /\ [AccountsNext]_accountVars =>
        [\A u \in Owners :
           users'[u].status # users[u].status =>
             <<users[u].status, users'[u].status>> \in
               {<<"none", "PENDING_VERIFICATION">>,
                <<"PENDING_VERIFICATION", "ACTIVE">>, <<"ACTIVE", "BLOCKED">>,
                <<"BLOCKED", "ACTIVE">>, <<"ACTIVE", "DELETED">>,
                <<"BLOCKED", "DELETED">>}]_accountVars
  <2>1. SUFFICES ASSUME AccountsInv, AccountsNext
                 PROVE  \A u \in Owners :
                          users'[u].status # users[u].status =>
                            <<users[u].status, users'[u].status>> \in
                              {<<"none", "PENDING_VERIFICATION">>,
                               <<"PENDING_VERIFICATION", "ACTIVE">>, <<"ACTIVE", "BLOCKED">>,
                               <<"BLOCKED", "ACTIVE">>, <<"ACTIVE", "DELETED">>,
                               <<"BLOCKED", "DELETED">>}
    OBVIOUS
  <2>2. QED
    BY <2>1, UserSteps DEF AccountsInv
<1>2. QED
  BY <1>1, AccountsHold, PTL DEF AccountsSpec, LegalUserSteps

-----------------------------------------------------------------------------
(* The staff: their sessions are those of Sessions under other keys        *)

StaffRow == [active : BOOLEAN, role : Roles]
VisitRow == [ip : Ips \cup {NoOne}, role : Roles \cup {NoOne}, moved : BOOLEAN]

StaffTyped ==
  /\ staff \in [Owners -> StaffRow]
  /\ failed \in [Keys -> Nat]
  /\ visit \in [Procs -> VisitRow]
  /\ roleOf \in [Tokens -> Roles \cup {NoOne}]

\* A request that is past its look at the account, row, has seen it as it is.
Standing(q, v, row) ==
  q.pc \in {"clear", "rotate", "rotated", "issue"} =>
    v.moved \/ row = [active |-> TRUE, role |-> v.role]

Guess == {"throttle", "compare", "record"}
GuessesAt(q, v, k) ==
  \/ q.pc \in Guess /\ q.owner = k
  \/ q.pc \in Guess \ {"throttle"} /\ v.ip = k

StaffInv ==
  /\ SessionsKnown /\ StaffTyped
  /\ \A p \in Procs : Standing(proc[p], visit[p], staff[proc[p].owner])
  /\ \A p \in Procs : proc[p].pc \in Guess => visit[p].ip \in Ips
  /\ GuessesBounded

LEMMA GuessingIs ==
  ASSUME NEW k
  PROVE  Guessing(k) = {p \in Procs : GuessesAt(proc[p], visit[p], k)}
BY DEF Guessing, GuessesAt, Guess

LEMMA GuessingFinite ==
  ASSUME NEW k, NEW G \in SUBSET Procs
  PROVE  IsFiniteSet(G) /\ Cardinality(G) \in Nat /\ Cardinality(G) <= Cardinality(Procs)
         /\ Cardinality(Procs) \in Nat
<1>1. IsFiniteSet(G) /\ Cardinality(G) <= Cardinality(Procs)
  BY StaffAuthAssumption, FS_Subset
<1>2. QED
  BY <1>1, StaffAuthAssumption, FS_CardinalityType

LEMMA LimitPositive == ASSUME NEW k PROVE LimitOf(k) \in Nat \ {0}
BY StaffAuthAssumption DEF LimitOf

\* One counter: nobody new has passed it, or it was below its limit and one
\* request passes it, or one of those that had passed it writes to it.
LEMMA CounterBounded ==
  ASSUME NEW k, NEW n \in Nat, NEW m \in Nat, NEW G \in SUBSET Procs, NEW H \in SUBSET Procs,
         n + Cardinality(G) <= LimitOf(k) + Cardinality(Procs) - 1,
         \/ m <= n /\ H \subseteq G
         \/ m = n /\ n < LimitOf(k)
         \/ m = n + 1 /\ \E p \in G : H \subseteq G \ {p}
  PROVE  m + Cardinality(H) <= LimitOf(k) + Cardinality(Procs) - 1
<1>1. /\ IsFiniteSet(G) /\ Cardinality(G) \in Nat /\ Cardinality(H) \in Nat
      /\ Cardinality(H) <= Cardinality(Procs) /\ Cardinality(Procs) \in Nat
      /\ LimitOf(k) \in Nat \ {0}
  BY GuessingFinite, LimitPositive
<1>2. CASE m <= n /\ H \subseteq G
  <2>1. Cardinality(H) <= Cardinality(G)
    BY <1>1, <1>2, FS_Subset
  <2>2. QED
    BY <1>1, <1>2, <2>1
<1>3. CASE m = n /\ n < LimitOf(k)
  BY <1>1, <1>3
<1>4. ASSUME m = n + 1, NEW p \in G, H \subseteq G \ {p}
      PROVE  m + Cardinality(H) <= LimitOf(k) + Cardinality(Procs) - 1
  <2>1. IsFiniteSet(G \ {p}) /\ Cardinality(G \ {p}) = Cardinality(G) - 1
    BY <1>1, FS_RemoveElement
  <2>2. Cardinality(H) <= Cardinality(G) - 1
    BY <1>4, <2>1, FS_Subset
  <2>3. QED
    BY <1>1, <1>4, <2>2
<1>5. QED
  BY <1>2, <1>3, <1>4

\* What is left to show of a step of request p.
LEMMA StaffMoves ==
  ASSUME StaffInv, NEW p \in Procs, SessionsKnown', StaffTyped', UNCHANGED staff,
         \A q \in Procs \ {p} : /\ proc'[q] = proc[q]
                                /\ proc[q].pc = "idle" \/ visit'[q] = visit[q],
         Standing(proc'[p], visit'[p], staff[proc'[p].owner]),
         proc'[p].pc \in Guess => visit'[p].ip \in Ips,
         \A k \in Keys :
           LET was == GuessesAt(proc[p], visit[p], k)
               is == GuessesAt(proc'[p], visit'[p], k)
           IN  \/ failed'[k] <= failed[k] /\ (is => was)
               \/ failed'[k] = failed[k] /\ failed[k] < LimitOf(k)
               \/ failed'[k] = failed[k] + 1 /\ was /\ ~is
  PROVE  StaffInv'
<1>1. \A q \in Procs \ {p} :
        /\ Standing(proc'[q], visit'[q], staff[proc'[q].owner])
        /\ proc'[q].pc \in Guess => visit'[q].ip \in Ips
  BY DEF StaffInv, Standing, Guess
<1>2. \A q \in Procs \ {p} : \A k :
        GuessesAt(proc'[q], visit'[q], k) => GuessesAt(proc[q], visit[q], k)
  BY DEF GuessesAt, Guess
<1>3. ASSUME NEW k \in Keys
      PROVE  failed'[k] + Cardinality(Guessing(k)') <= LimitOf(k) + Cardinality(Procs) - 1
  <2>1. PICK G \in SUBSET Procs, H \in SUBSET Procs :
          /\ G = Guessing(k) /\ H = Guessing(k)'
          /\ G = {q \in Procs : GuessesAt(proc[q], visit[q], k)}
          /\ H = {q \in Procs : GuessesAt(proc'[q], visit'[q], k)}
    <3>1. Guessing(k) = {q \in Procs : GuessesAt(proc[q], visit[q], k)}
      BY GuessingIs
    <3>2. Guessing(k)' = {q \in Procs : GuessesAt(proc'[q], visit'[q], k)}
      BY DEF Guessing, GuessesAt, Guess
    <3>3. QED
      BY <3>1, <3>2
  <2>2. /\ failed[k] \in Nat /\ failed'[k] \in Nat
        /\ failed[k] + Cardinality(G) <= LimitOf(k) + Cardinality(Procs) - 1
    BY <2>1 DEF StaffInv, StaffTyped, GuessesBounded
  <2>3. \/ failed'[k] <= failed[k] /\ H \subseteq G
        \/ failed'[k] = failed[k] /\ failed[k] < LimitOf(k)
        \/ failed'[k] = failed[k] + 1 /\ \E q \in G : H \subseteq G \ {q}
    <3>1. CASE failed'[k] <= failed[k]
               /\ (GuessesAt(proc'[p], visit'[p], k) => GuessesAt(proc[p], visit[p], k))
      BY <1>2, <2>1, <3>1
    <3>2. CASE /\ failed'[k] = failed[k] + 1 /\ GuessesAt(proc[p], visit[p], k)
               /\ ~GuessesAt(proc'[p], visit'[p], k)
      BY <1>2, <2>1, <3>2
    <3>3. QED
      BY <3>1, <3>2
  <2>4. QED
    BY <2>1, <2>2, <2>3, CounterBounded
<1>4. GuessesBounded'
  BY <1>3 DEF GuessesBounded, LimitOf
<1>5. QED
  BY <1>1, <1>4 DEF StaffInv

LEMMA VisitedIs ==
  ASSUME StaffTyped, visit' = Visited, NEW p \in Procs,
         \A q \in Procs \ {p} : proc'[q] = proc[q]
  PROVE  /\ visit' \in [Procs -> VisitRow]
         /\ \A q \in Procs \ {p} : proc[q].pc = "idle" \/ visit'[q] = visit[q]
         /\ proc'[p].pc # "idle" => visit'[p] = visit[p]
<1>1. NoVisit \in VisitRow
  BY DEF NoVisit, VisitRow
<1>2. QED
  BY <1>1 DEF Visited, StaffTyped

\* Request p moves within a login, which concerns no session.
LEMMA LoginPlaced ==
  ASSUME SessionsKnown, NEW p \in Procs, NEW row \in ProcRow, proc' = [proc EXCEPT ![p] = row],
         UNCHANGED <<sessions, index, issued, stray>>,
         proc[p].pc \in {"idle", "clear"} \cup Guess,
         row.pc \in {"idle", "issue", "clear"} \cup Guess,
         row.pc # "idle" => row.owner \in Owners
  PROVE  /\ SessionsKnown' /\ proc'[p] = row
         /\ \A q \in Procs \ {p} : proc'[q] = proc[q]
<1>1. /\ proc' \in [Procs -> ProcRow] /\ proc'[p] = row
      /\ \A q \in Procs \ {p} : proc'[q] = proc[q]
  BY ProcSet DEF SessionsKnown
<1>2. ProcKnows(p)'
  BY <1>1 DEF ProcKnows, HoldsToken, Guess
<1>3. QED
  BY <1>1, <1>2, PlaceKnown DEF Guess

LEMMA LoginStaff ==
  ASSUME StaffInv, NEW p \in Procs, NEW u \in Owners, NEW ip \in Ips, Login(p, u, ip)
  PROVE  StaffInv'
<1>1. /\ proc[p].pc = "idle" /\ NotThrottled(u)
      /\ UNCHANGED <<sessions, index, issued, stray, staff, failed, roleOf>>
  BY DEF Login
<1>2. PICK row \in ProcRow : /\ proc' = [proc EXCEPT ![p] = row]
                             /\ row.pc = "throttle" /\ row.owner = u
  <2> DEFINE row == [IdleProc EXCEPT !.pc = "throttle", !.owner = u]
  <2>1. row \in ProcRow /\ row.pc = "throttle" /\ row.owner = u
    BY DEF IdleProc, ProcRow, Pcs
  <2>2. proc' = [proc EXCEPT ![p] = row]
    BY DEF Login
  <2> HIDE DEF row
  <2>3. QED
    BY <2>1, <2>2
<1>3. PICK look \in VisitRow : visit' = [visit EXCEPT ![p] = look] /\ look.ip = ip
  <2> DEFINE look == [NoVisit EXCEPT !.ip = ip]
  <2>1. look \in VisitRow /\ look.ip = ip
    BY DEF NoVisit, VisitRow
  <2>2. visit' = [visit EXCEPT ![p] = look]
    BY DEF Login
  <2> HIDE DEF look
  <2>3. QED
    BY <2>1, <2>2
<1>4. /\ SessionsKnown' /\ proc'[p].pc = "throttle" /\ proc'[p].owner = u
      /\ \A q \in Procs \ {p} : proc'[q] = proc[q]
  BY <1>1, <1>2, LoginPlaced DEF StaffInv, Guess
<1>5. /\ visit' \in [Procs -> VisitRow] /\ visit'[p].ip = ip
      /\ \A q \in Procs \ {p} : visit'[q] = visit[q]
  BY <1>3 DEF StaffInv, StaffTyped
<1>6. StaffTyped'
  BY <1>1, <1>5 DEF StaffInv, StaffTyped
<1>7. ASSUME NEW k \in Keys
      PROVE  \/ failed'[k] = failed[k] /\ failed[k] < LimitOf(k)
             \/ failed'[k] <= failed[k] /\ ~GuessesAt(proc'[p], visit'[p], k)
  <2>1. failed'[k] = failed[k] /\ failed[k] <= failed[k]
    BY <1>1, <1>6 DEF StaffTyped
  <2>2. QED
    BY <1>1, <1>4, <2>1 DEF NotThrottled, GuessesAt, Guess
<1>8. QED
  BY <1>1, <1>4, <1>5, <1>6, <1>7, StaffMoves DEF Standing

LEMMA LoginIpStaff ==
  ASSUME StaffInv, NEW p \in Procs, LoginIp(p)
  PROVE  StaffInv'
<1>1. /\ proc[p].pc = "throttle" /\ visit' = Visited
      /\ UNCHANGED <<sessions, index, issued, stray, staff, failed, roleOf>>
  BY DEF LoginIp
<1>2. /\ proc[p] \in ProcRow /\ proc[p].owner \in Owners /\ visit[p].ip \in Ips
      /\ SessionsKnown /\ StaffTyped
  BY <1>1 DEF StaffInv, SessionsKnown, SessionsTyped, ProcKnows, Guess
<1>3. PICK row \in ProcRow :
        /\ proc' = [proc EXCEPT ![p] = row]
        /\ \/ row.pc = "compare" /\ row.owner = proc[p].owner /\ NotThrottled(visit[p].ip)
           \/ row.pc = "idle"
  <2>1. CASE NotThrottled(visit[p].ip)
    <3> DEFINE row == [proc[p] EXCEPT !.pc = "compare"]
    <3>1. row \in ProcRow /\ row.pc = "compare" /\ row.owner = proc[p].owner
      BY <1>2 DEF ProcRow, Pcs
    <3>2. proc' = [proc EXCEPT ![p] = row]
      BY <1>2, <2>1 DEF LoginIp, SessionsKnown, SessionsTyped
    <3> HIDE DEF row
    <3>3. QED
      BY <2>1, <3>1, <3>2
  <2>2. CASE ~NotThrottled(visit[p].ip)
    <3>1. proc' = [proc EXCEPT ![p] = IdleProc] /\ IdleProc.pc = "idle"
      BY <2>2 DEF LoginIp, IdleProc
    <3>2. QED
      BY <3>1, IdleTyped
  <2>3. QED
    BY <2>1, <2>2
<1>4. /\ SessionsKnown' /\ proc'[p] = row
      /\ \A q \in Procs \ {p} : proc'[q] = proc[q]
  BY <1>1, <1>2, <1>3, LoginPlaced DEF Guess
<1>5. /\ visit' \in [Procs -> VisitRow]
      /\ \A q \in Procs \ {p} : proc[q].pc = "idle" \/ visit'[q] = visit[q]
      /\ proc'[p].pc # "idle" => visit'[p] = visit[p]
  BY <1>1, <1>2, <1>4, VisitedIs
<1>6. StaffTyped'
  BY <1>1, <1>2, <1>5 DEF StaffTyped
<1>7. ASSUME NEW k \in Keys
      PROVE  \/ failed'[k] = failed[k] /\ failed[k] < LimitOf(k)
             \/ /\ failed'[k] <= failed[k]
                /\ GuessesAt(proc'[p], visit'[p], k) => GuessesAt(proc[p], visit[p], k)
  <2>1. failed'[k] = failed[k] /\ failed[k] <= failed[k]
    BY <1>1, <1>6 DEF StaffTyped
  <2>2. QED
    BY <1>1, <1>3, <1>4, <1>5, <2>1 DEF NotThrottled, GuessesAt, Guess
<1>8. QED
  BY <1>1, <1>2, <1>3, <1>4, <1>5, <1>6, <1>7, StaffMoves DEF Standing, Guess

\* The place of p changes to pc, within a login.
LEMMA LoginStep ==
  ASSUME SessionsKnown, NEW p \in Procs, NEW from \in {"clear"} \cup Guess,
         NEW to \in {"issue", "clear"} \cup Guess,
         Step(p, from, to), UNCHANGED <<sessions, index, issued, stray>>
  PROVE  /\ SessionsKnown' /\ proc[p].pc = from /\ proc'[p].pc = to
         /\ proc'[p].owner = proc[p].owner /\ proc[p].owner \in Owners
         /\ \A q \in Procs \ {p} : proc'[q] = proc[q]
<1>1. proc[p] \in ProcRow /\ proc[p].owner \in Owners /\ proc[p].pc = from
  BY DEF SessionsKnown, SessionsTyped, ProcKnows, Guess, Step
<1> DEFINE row == [proc[p] EXCEPT !.pc = to]
<1>2. row \in ProcRow /\ row.pc = to /\ row.owner = proc[p].owner
  BY <1>1 DEF ProcRow, Pcs, Guess
<1>3. proc' = [proc EXCEPT ![p] = row]
  BY DEF Step, SessionsKnown, SessionsTyped
<1> HIDE DEF row
<1>4. QED
  BY <1>1, <1>2, <1>3, LoginPlaced DEF Guess

LEMMA VisitLooks ==
  ASSUME StaffTyped, NEW p \in Procs, NEW role \in Roles \cup {NoOne},
         visit' = [visit EXCEPT ![p].role = role, ![p].moved = FALSE]
  PROVE  /\ visit' \in [Procs -> VisitRow] /\ visit'[p].role = role
         /\ visit'[p].ip = visit[p].ip
         /\ \A q \in Procs \ {p} : visit'[q] = visit[q]
<1> DEFINE look == [visit[p] EXCEPT !.role = role, !.moved = FALSE]
<1>1. look \in VisitRow /\ look.role = role /\ look.ip = visit[p].ip
  BY DEF StaffTyped, VisitRow
<1>2. visit' = [visit EXCEPT ![p] = look]
  BY DEF StaffTyped
<1> HIDE DEF look
<1>3. QED
  BY <1>1, <1>2 DEF StaffTyped

LEMMA LoginCompareStaff ==
  ASSUME StaffInv, NEW p \in Procs, LoginCompare(p)
  PROVE  StaffInv'
<1>1. /\ SessionsKnown /\ StaffTyped
      /\ UNCHANGED <<sessions, index, issued, stray, staff, failed, roleOf>>
  BY DEF LoginCompare, StaffInv
<1>2. /\ failed' = failed /\ \A k \in Keys : failed[k] <= failed[k]
  BY <1>1 DEF StaffTyped
<1>3. CASE Step(p, "compare", "record") /\ UNCHANGED visit
  <2>1. /\ SessionsKnown' /\ proc[p].pc = "compare" /\ proc'[p].pc = "record"
        /\ proc'[p].owner = proc[p].owner
        /\ \A q \in Procs \ {p} : proc'[q] = proc[q]
    BY <1>1, <1>3, LoginStep DEF Guess
  <2>2. StaffTyped'
    BY <1>1, <1>3 DEF StaffTyped
  <2>3. \A k \in Keys : GuessesAt(proc'[p], visit'[p], k) => GuessesAt(proc[p], visit[p], k)
    BY <1>3, <2>1 DEF GuessesAt, Guess
  <2>4. visit'[p].ip \in Ips /\ Standing(proc'[p], visit'[p], staff[proc'[p].owner])
    BY <1>3, <2>1 DEF Standing, StaffInv, Guess
  <2>5. QED
    BY <1>1, <1>2, <1>3, <2>1, <2>2, <2>3, <2>4, StaffMoves
<1>4. CASE /\ Step(p, "compare", "clear") /\ staff[proc[p].owner].active
           /\ visit' = [visit EXCEPT ![p].role = staff[proc[p].owner].role, ![p].moved = FALSE]
  <2>1. /\ SessionsKnown' /\ proc[p].pc = "compare" /\ proc'[p].pc = "clear"
        /\ proc'[p].owner = proc[p].owner /\ proc[p].owner \in Owners
        /\ \A q \in Procs \ {p} : proc'[q] = proc[q]
    BY <1>1, <1>4, LoginStep DEF Guess
  <2>2. PICK s \in StaffRow : s = staff[proc[p].owner]
    BY <1>1, <2>1 DEF StaffTyped
  <2>3. s = [active |-> TRUE, role |-> s.role] /\ s.role \in Roles
    BY <1>4, <2>2 DEF StaffRow
  <2>4. /\ visit' \in [Procs -> VisitRow] /\ visit'[p].role = s.role
        /\ \A q \in Procs \ {p} : visit'[q] = visit[q]
    BY <1>1, <1>4, <2>2, <2>3, VisitLooks
  <2>5. StaffTyped'
    BY <1>1, <2>4 DEF StaffTyped
  <2>6. Standing(proc'[p], visit'[p], staff[proc'[p].owner])
    BY <2>1, <2>2, <2>3, <2>4 DEF Standing
  <2>7. \A k \in Keys : ~GuessesAt(proc'[p], visit'[p], k)
    BY <2>1 DEF GuessesAt, Guess
  <2>8. QED
    BY <1>1, <1>2, <2>1, <2>4, <2>5, <2>6, <2>7, StaffMoves DEF Guess
<1>5. QED
  BY <1>3, <1>4 DEF LoginCompare

LEMMA RecordFailedLoginStaff ==
  ASSUME StaffInv, NEW p \in Procs, RecordFailedLogin(p)
  PROVE  StaffInv'
<1>1. /\ SessionsKnown /\ StaffTyped /\ proc[p].pc = "record"
      /\ proc' = [proc EXCEPT ![p] = IdleProc] /\ visit' = Visited
      /\ failed' = [k \in Keys |-> IF k \in {proc[p].owner, visit[p].ip}
                                   THEN failed[k] + 1 ELSE failed[k]]
      /\ UNCHANGED <<sessions, index, issued, stray, staff, roleOf>>
  BY DEF RecordFailedLogin, End, StaffInv
<1>2. IdleProc.pc = "idle"
  BY DEF IdleProc
<1>3. /\ SessionsKnown' /\ proc'[p].pc = "idle"
      /\ \A q \in Procs \ {p} : proc'[q] = proc[q]
  BY <1>1, <1>2, IdleTyped, LoginPlaced DEF Guess
<1>4. /\ visit' \in [Procs -> VisitRow]
      /\ \A q \in Procs \ {p} : proc[q].pc = "idle" \/ visit'[q] = visit[q]
  BY <1>1, <1>3, VisitedIs
<1>5. StaffTyped'
  BY <1>1, <1>4 DEF StaffTyped
<1>6. ASSUME NEW k \in Keys
      PROVE  /\ ~GuessesAt(proc'[p], visit'[p], k)
             /\ \/ failed'[k] <= failed[k]
                \/ failed'[k] = failed[k] + 1 /\ GuessesAt(proc[p], visit[p], k)
  <2>1. ~GuessesAt(proc'[p], visit'[p], k)
    BY <1>3 DEF GuessesAt, Guess
  <2>2. failed[k] \in Nat
    BY <1>1 DEF StaffTyped
  <2>3. CASE k \in {proc[p].owner, visit[p].ip}
    BY <1>1, <2>1, <2>3 DEF GuessesAt, Guess
  <2>4. CASE k \notin {proc[p].owner, visit[p].ip}
    BY <1>1, <2>1, <2>2, <2>4
  <2>5. QED
    BY <2>3, <2>4
<1>7. QED
  BY <1>1, <1>3, <1>4, <1>5, <1>6, StaffMoves DEF Standing, Guess

LEMMA ClearFailedLoginsStaff ==
  ASSUME StaffInv, NEW p \in Procs, ClearFailedLogins(p)
  PROVE  StaffInv'
<1>1. /\ SessionsKnown /\ StaffTyped /\ Step(p, "clear", "issue")
      /\ failed' = [k \in Keys |-> IF k \in Cleared(p) THEN 0 ELSE failed[k]]
      /\ UNCHANGED <<sessions, index, issued, stray, staff, visit, roleOf>>
  BY DEF ClearFailedLogins, StaffInv
<1>2. /\ SessionsKnown' /\ proc[p].pc = "clear" /\ proc'[p].pc = "issue"
      /\ proc'[p].owner = proc[p].owner
      /\ \A q \in Procs \ {p} : proc'[q] = proc[q]
  BY <1>1, LoginStep
<1>3. StaffTyped' /\ \A k \in Keys : failed'[k] <= failed[k]
  BY <1>1 DEF StaffTyped
<1>4. \A k \in Keys : ~GuessesAt(proc'[p], visit'[p], k)
  BY <1>2 DEF GuessesAt, Guess
<1>5. Standing(proc'[p], visit'[p], staff[proc'[p].owner])
  BY <1>1, <1>2 DEF Standing, StaffInv
<1>6. QED
  BY <1>1, <1>2, <1>3, <1>4, <1>5, StaffMoves DEF Guess

LEMMA WindowEndsStaff ==
  ASSUME StaffInv, NEW k \in Keys, WindowEnds(k)
  PROVE  StaffInv'
<1>1. /\ SessionsKnown /\ StaffTyped /\ failed' = [failed EXCEPT ![k] = 0]
      /\ UNCHANGED <<sessionVars, staff, visit, roleOf>>
  BY DEF WindowEnds, StaffInv
<1>2. SessionsKnown'
  BY <1>1, SessionsStay
<1>3. /\ StaffTyped'
      /\ \A j \in Keys : failed[j] \in Nat /\ failed'[j] \in Nat /\ failed'[j] <= failed[j]
  BY <1>1 DEF StaffTyped
<1>4. ASSUME NEW j \in Keys
      PROVE  failed'[j] + Cardinality(Guessing(j)') <= LimitOf(j) + Cardinality(Procs) - 1
  <2>1. Guessing(j)' = Guessing(j) /\ Guessing(j) \in SUBSET Procs
    BY <1>1 DEF Guessing, sessionVars
  <2>2. failed[j] + Cardinality(Guessing(j)) <= LimitOf(j) + Cardinality(Procs) - 1
    BY DEF StaffInv, GuessesBounded
  <2>3. QED
    BY <1>3, <2>1, <2>2, CounterBounded
<1>5. GuessesBounded'
  BY <1>4 DEF GuessesBounded, LimitOf
<1>6. QED
  BY <1>1, <1>2, <1>3, <1>5 DEF StaffInv, sessionVars

\* Where a session step takes p: it comes nearer to issuing a pair only for
\* the account that it has looked at.
LEMMA SessionPlaced ==
  ASSUME SessionsKnown, NEW p \in Procs, SessionStep(p) \/ RequestDies(p)
  PROVE  /\ \A q \in Procs \ {p} : proc'[q] = proc[q]
         /\ proc'[p].pc \notin Guess \cup {"clear", "rotate"}
         /\ proc'[p].pc \in {"rotated", "issue"} =>
              proc[p].pc \in {"rotate", "rotated"} /\ proc'[p].owner = proc[p].owner
<1>1. proc[p] \in ProcRow /\ SessionsTyped
  BY DEF SessionsKnown, SessionsTyped
<1>2. \/ \E to \in {"rotated", "expelled", "loggedout"} :
           /\ proc' = [proc EXCEPT ![p].pc = to]
           /\ to = "rotated" => proc[p].pc = "rotate"
      \/ \E to \in {"issue", "revoke"} :
           /\ proc' = [proc EXCEPT ![p].pc = to]
           /\ to = "issue" => proc[p].pc = "rotated"
      \/ proc' = [proc EXCEPT ![p] = IdleProc]
      \/ \E t \in Tokens : proc' = [proc EXCEPT ![p].pc = "list", ![p].token = t]
      \/ \E t \in Tokens, pc \in {"check", "logout"} :
           proc' = [proc EXCEPT ![p] = [IdleProc EXCEPT !.pc = pc, !.token = t,
                                                        !.owner = sessions[t]]]
      \/ \E s : proc' = [proc EXCEPT ![p].pc = "revoking", ![p].todo = s]
      \/ \E s : proc[p].pc = "revoking" /\ proc' = [proc EXCEPT ![p].todo = s]
  <2>1. CASE StoreSession(p) \/ RememberRefreshToken(p) \/ RequestDies(p)
    BY <2>1 DEF StoreSession, RememberRefreshToken, RequestDies, End
  <2>2. CASE \E t \in Tokens : RefreshGet(p, t) \/ LogoutGet(p, t)
    BY <2>2 DEF RefreshGet, LogoutGet
  <2>3. CASE ForgetSession(p) \/ ForgetListed(p)
    BY <2>3 DEF ForgetSession, ForgetListed, Step, End, Forgotten
  <2>4. CASE RevokeRead(p) \/ RevokeIndex(p)
    BY <2>4 DEF RevokeRead, RevokeIndex, End
  <2>5. CASE RevokeToken(p)
    <3>1. PICK s : proc[p].pc = "revoking" /\ proc' = [proc EXCEPT ![p].todo = s]
      BY <1>1, <2>5 DEF RevokeToken, SessionsTyped
    <3>2. QED
      BY <3>1
  <2>6. QED
    BY <2>1, <2>2, <2>3, <2>4, <2>5 DEF SessionStep
<1>3. \A q \in Procs \ {p} : proc'[q] = proc[q]
  BY <1>1, <1>2 DEF SessionsTyped
<1>4. ASSUME NEW to \in Pcs, proc' = [proc EXCEPT ![p].pc = to]
      PROVE  proc'[p].pc = to /\ proc'[p].owner = proc[p].owner
  BY <1>1, <1>4, ProcStep
<1>5. CASE proc' = [proc EXCEPT ![p] = IdleProc]
  BY <1>1, <1>3, <1>5 DEF IdleProc, SessionsTyped, Guess
<1>6. ASSUME NEW t \in Tokens, proc' = [proc EXCEPT ![p].pc = "list", ![p].token = t]
      PROVE  proc'[p].pc = "list"
  BY <1>1, <1>6 DEF SessionsTyped, ProcRow
<1>7. ASSUME NEW t \in Tokens, NEW pc \in {"check", "logout"},
             proc' = [proc EXCEPT ![p] = [IdleProc EXCEPT !.pc = pc, !.token = t,
                                                          !.owner = sessions[t]]]
      PROVE  proc'[p].pc = pc
  BY <1>1, <1>7 DEF SessionsTyped, IdleProc
<1>8. ASSUME NEW s, proc' = [proc EXCEPT ![p].pc = "revoking", ![p].todo = s]
      PROVE  proc'[p].pc = "revoking"
  BY <1>1, <1>8 DEF SessionsTyped, ProcRow
<1>9. ASSUME NEW s, proc[p].pc = "revoking", proc' = [proc EXCEPT ![p].todo = s]
      PROVE  proc'[p].pc = "revoking"
  BY <1>1, <1>9 DEF SessionsTyped, ProcRow
<1>10. QED
  BY <1>2, <1>3, <1>4, <1>5, <1>6, <1>7, <1>8, <1>9 DEF Pcs, Guess

LEMMA SessionStaff ==
  ASSUME StaffInv, NEW p \in Procs, StaffSessionStep(p) \/ StaffStoreSession(p)
  PROVE  StaffInv'
<1>1. /\ SessionsKnown /\ StaffTyped /\ (SessionStep(p) \/ RequestDies(p))
      /\ UNCHANGED <<staff, failed>>
  BY DEF StaffSessionStep, StaffStoreSession, SessionStep, StaffInv
<1>2. SessionsKnown'
  BY <1>1, RequestKnown
<1>3. /\ \A q \in Procs \ {p} : proc'[q] = proc[q]
      /\ proc'[p].pc \notin Guess \cup {"clear", "rotate"}
      /\ proc'[p].pc \in {"rotated", "issue"} =>
           proc[p].pc \in {"rotate", "rotated"} /\ proc'[p].owner = proc[p].owner
  BY <1>1, SessionPlaced
<1>4. /\ visit' \in [Procs -> VisitRow]
      /\ \A q \in Procs \ {p} : proc[q].pc = "idle" \/ visit'[q] = visit[q]
      /\ proc'[p].pc # "idle" => visit'[p] = visit[p]
  <2>1. CASE visit' = Visited
    BY <1>1, <1>3, <2>1, VisitedIs
  <2>2. CASE visit' = visit
    BY <1>1, <2>2 DEF StaffTyped
  <2>3. QED
    BY <2>1, <2>2 DEF StaffSessionStep, StaffStoreSession
<1>5. roleOf' \in [Tokens -> Roles \cup {NoOne}]
  <2>1. CASE roleOf' = roleOf
    BY <1>1, <2>1 DEF StaffTyped
  <2>2. CASE roleOf' = [t \in Tokens |-> IF t \in issued' \ issued THEN visit[p].role
                                         ELSE roleOf[t]]
    <3>1. visit[p].role \in Roles \cup {NoOne}
      BY <1>1 DEF StaffTyped, VisitRow
    <3>2. QED
      BY <1>1, <2>2, <3>1 DEF StaffTyped
  <2>3. QED
    BY <2>1, <2>2 DEF StaffSessionStep, StaffStoreSession
<1>6. StaffTyped' /\ \A k \in Keys : failed'[k] <= failed[k]
  BY <1>1, <1>4, <1>5 DEF StaffTyped
<1>7. Standing(proc'[p], visit'[p], staff[proc'[p].owner])
  BY <1>3, <1>4 DEF Standing, StaffInv
<1>8. \A k \in Keys : ~GuessesAt(proc'[p], visit'[p], k)
  BY <1>3 DEF GuessesAt
<1>9. QED
  BY <1>1, <1>2, <1>3, <1>4, <1>6, <1>7, <1>8, StaffMoves

LEMMA StaffRefreshCheckStaff ==
  ASSUME StaffInv, NEW p \in Procs, StaffRefreshCheck(p)
  PROVE  StaffInv'
<1>1. PICK role : /\ role = roleOf[proc[p].token]
                  /\ RefreshCheck(p, AllowsRefresh(proc[p].owner, role))
                  /\ visit' = [visit EXCEPT ![p].role = role, ![p].moved = FALSE]
                  /\ UNCHANGED <<staff, failed, roleOf>>
  BY DEF StaffRefreshCheck
<1>2. proc[p].pc = "check"
  BY <1>1 DEF RefreshCheck, Step
<1>3. /\ SessionsKnown /\ SessionsTyped /\ StaffTyped /\ proc[p].token \in Tokens
      /\ proc[p].owner \in Owners
  BY <1>2 DEF StaffInv, SessionsKnown, ProcKnows, HoldsToken
<1>4. PICK s \in StaffRow : s = staff[proc[p].owner]
  BY <1>3 DEF StaffTyped
<1>5. /\ \E active \in BOOLEAN : RefreshCheck(p, active)
      /\ \E to \in {"rotate", "expel"} :
           /\ proc' = [proc EXCEPT ![p].pc = to]
           /\ to = "rotate" => s = [active |-> TRUE, role |-> role]
  <2>1. CASE AllowsRefresh(proc[p].owner, role)
    <3>1. RefreshCheck(p, TRUE) /\ proc' = [proc EXCEPT ![p].pc = "rotate"]
      BY <1>1, <2>1 DEF RefreshCheck, Step
    <3>2. s.active /\ s.role = role
      BY <1>4, <2>1 DEF AllowsRefresh
    <3>3. s = [active |-> TRUE, role |-> role]
      BY <3>2 DEF StaffRow
    <3>4. QED
      BY <3>1, <3>3
  <2>2. CASE ~AllowsRefresh(proc[p].owner, role)
    <3>1. RefreshCheck(p, FALSE) /\ proc' = [proc EXCEPT ![p].pc = "expel"]
      BY <1>1, <2>2 DEF RefreshCheck, Step
    <3>2. QED
      BY <3>1
  <2>3. QED
    BY <2>1, <2>2
<1>6. PICK to \in {"rotate", "expel"} :
        /\ proc' = [proc EXCEPT ![p].pc = to]
        /\ to = "rotate" => s = [active |-> TRUE, role |-> role]
  BY <1>5
<1>7. SessionsKnown'
  BY <1>3, <1>5, RequestKnown
<1>8. to \in Pcs
  BY DEF Pcs
<1>9. /\ proc'[p].pc = to /\ proc'[p].owner = proc[p].owner
      /\ \A q \in Procs \ {p} : proc'[q] = proc[q]
  BY <1>3, <1>6, <1>8, ProcStep
<1>10. role \in Roles \cup {NoOne}
  BY <1>1, <1>3 DEF StaffTyped
<1>11. /\ visit' \in [Procs -> VisitRow] /\ visit'[p].role = role
       /\ \A q \in Procs \ {p} : visit'[q] = visit[q]
  BY <1>1, <1>3, <1>10, VisitLooks
<1>12. StaffTyped' /\ \A k \in Keys : failed'[k] <= failed[k]
  BY <1>1, <1>3, <1>11 DEF StaffTyped
<1>13. Standing(proc'[p], visit'[p], staff[proc'[p].owner])
  BY <1>4, <1>6, <1>9, <1>11 DEF Standing
<1>14. proc'[p].pc \notin Guess /\ \A k \in Keys : ~GuessesAt(proc'[p], visit'[p], k)
  BY <1>9 DEF GuessesAt, Guess
<1>15. QED
  BY <1>1, <1>3, <1>7, <1>9, <1>11, <1>12, <1>13, <1>14, StaffMoves

LEMMA StaffChangesStaff ==
  ASSUME StaffInv, NEW u \in Owners, StaffChanges(u)
  PROVE  StaffInv'
<1>1. PICK row \in StaffRow :
        /\ staff' = [staff EXCEPT ![u] = row]
        /\ visit' = [p \in Procs |-> IF proc[p].owner = u
                                     THEN [visit[p] EXCEPT !.moved = TRUE] ELSE visit[p]]
        /\ UNCHANGED <<sessionVars, failed, roleOf>>
  BY DEF StaffChanges, StaffRow
<1>2. SessionsKnown' /\ StaffTyped
  BY <1>1, SessionsStay DEF StaffInv
<1>3. ASSUME NEW p \in Procs
      PROVE  /\ visit'[p] \in VisitRow /\ visit'[p].ip = visit[p].ip
             /\ visit'[p].role = visit[p].role
             /\ visit'[p].moved \/ (proc[p].owner # u /\ visit'[p] = visit[p])
  <2>1. PICK v \in VisitRow : v = visit[p]
    BY <1>2 DEF StaffTyped
  <2>2. PICK w : w = [v EXCEPT !.moved = TRUE]
    OBVIOUS
  <2>3. w \in VisitRow /\ w.ip = v.ip /\ w.role = v.role /\ w.moved
    BY <2>1, <2>2 DEF VisitRow
  <2>4. visit'[p] = IF proc[p].owner = u THEN w ELSE v
    BY <1>1, <2>1, <2>2
  <2>5. QED
    BY <2>1, <2>3, <2>4
<1>4. StaffTyped'
  BY <1>1, <1>2, <1>3 DEF StaffTyped
<1>5. ASSUME NEW p \in Procs
      PROVE  Standing(proc'[p], visit'[p], staff'[proc'[p].owner])
  <2>1. SUFFICES ASSUME proc[p].pc \in {"clear", "rotate", "rotated", "issue"},
                        proc[p].owner # u
                 PROVE  staff'[proc[p].owner] = staff[proc[p].owner] /\ visit'[p] = visit[p]
    BY <1>1, <1>3 DEF Standing, StaffInv, sessionVars
  <2>2. proc[p].owner \in Owners
    BY <2>1 DEF StaffInv, SessionsKnown, ProcKnows
  <2>3. QED
    BY <1>1, <1>2, <1>3, <2>1, <2>2 DEF StaffTyped
<1>6. \A k : Guessing(k)' = Guessing(k)
  BY <1>1, <1>3 DEF Guessing, sessionVars
<1>7. GuessesBounded'
  BY <1>1, <1>6 DEF GuessesBounded, StaffInv, LimitOf
<1>8. QED
  BY <1>1, <1>2, <1>3, <1>4, <1>5, <1>7 DEF StaffInv, sessionVars

LEMMA StaffInitKnown == StaffInit => StaffInv
<1> SUFFICES ASSUME StaffInit PROVE StaffInv
  OBVIOUS
<1>1. /\ SessionsInit /\ visit = [p \in Procs |-> NoVisit] /\ failed = [k \in Keys |-> 0]
      /\ roleOf = [t \in Tokens |-> NoOne]
      /\ staff = [u \in Owners |-> [active |-> TRUE, role |-> CHOOSE r \in Roles : TRUE]]
  BY DEF StaffInit
<1>2. SessionsKnown
  BY <1>1, SessionsInitKnown
<1>3. StaffTyped
  <2>1. (CHOOSE r \in Roles : TRUE) \in Roles /\ NoVisit \in VisitRow
    BY StaffAuthAssumption DEF NoVisit, VisitRow
  <2>2. QED
    BY <1>1, <2>1 DEF StaffTyped, StaffRow
<1>4. \A p \in Procs : proc[p].pc = "idle"
  BY <1>1 DEF SessionsInit, IdleProc
<1>5. ASSUME NEW k \in Keys
      PROVE  failed[k] + Cardinality(Guessing(k)) <= LimitOf(k) + Cardinality(Procs) - 1
  <2>1. Guessing(k) = {} /\ failed[k] = 0
    BY <1>1, <1>4, <1>5 DEF Guessing
  <2>2. Cardinality({}) = 0 /\ Cardinality(Procs) \in Nat
    BY FS_EmptySet, FS_CardinalityType, StaffAuthAssumption
  <2>3. QED
    BY <2>1, <2>2, LimitPositive
<1>6. QED
  BY <1>2, <1>3, <1>4, <1>5 DEF StaffInv, Standing, Guess, GuessesBounded

LEMMA StaffStep == StaffInv /\ [StaffNext]_staffVars => StaffInv'
<1> SUFFICES ASSUME StaffInv, [StaffNext]_staffVars PROVE StaffInv'
  OBVIOUS
<1>1. ASSUME NEW p \in Procs,
             \/ \E u \in Owners, ip \in Ips : Login(p, u, ip)
             \/ LoginIp(p) \/ LoginCompare(p) \/ RecordFailedLogin(p) \/ ClearFailedLogins(p)
             \/ StaffRefreshCheck(p) \/ StaffStoreSession(p) \/ StaffSessionStep(p)
      PROVE  StaffInv'
  BY <1>1, LoginStaff, LoginIpStaff, LoginCompareStaff, RecordFailedLoginStaff,
     ClearFailedLoginsStaff, StaffRefreshCheckStaff, SessionStaff
<1>2. CASE \/ \E k \in Keys : WindowEnds(k)
           \/ \E u \in Owners : StaffChanges(u)
  BY <1>2, WindowEndsStaff, StaffChangesStaff
<1>3. CASE UNCHANGED staffVars
  <2>1. SessionsKnown'
    BY <1>3, SessionsStay DEF staffVars, StaffInv
  <2>2. \A k : Guessing(k)' = Guessing(k)
    BY <1>3 DEF Guessing, staffVars, sessionVars
  <2>3. QED
    BY <1>3, <2>1, <2>2
       DEF staffVars, sessionVars, StaffInv, StaffTyped, GuessesBounded, LimitOf
<1>4. QED
  BY <1>1, <1>2, <1>3 DEF StaffNext

\* The requests under way at the staff's doors know what they have to know.
THEOREM StaffHolds == StaffSpec => []StaffInv
BY StaffInitKnown, StaffStep, PTL DEF StaffSpec

\* staff_auth.py, _current_login_retry_after and _record_failed_login: however
\* many logins run at once, a window sees no more failed guesses than its limit
\* and those that had passed the counter together.
THEOREM GuessesHeld == StaffSpec => []GuessesBounded
<1>1. StaffInv => GuessesBounded
  BY DEF StaffInv
<1>2. QED
  BY <1>1, StaffHolds, PTL

\* staff_auth.py, authenticate and _current_staff_allows_refresh: a pair goes
\* to an active account and for the role that it has, unless the account
\* changed under the request.
THEOREM PairsInStanding == StaffSpec => IssuedInStanding
<1>1. StaffInv /\ [StaffNext]_staffVars =>
        [\A t \in issued' \ issued :
           \E p \in Procs :
             /\ proc[p].pc = "issue" /\ proc'[p].token = t
             /\ \/ visit[p].moved
                \/ staff[proc[p].owner] = [active |-> TRUE, role |-> roleOf'[t]]]_staffVars
  <2>1. SUFFICES ASSUME StaffInv, StaffNext, NEW t \in issued' \ issued
                 PROVE  \E p \in Procs :
                          /\ proc[p].pc = "issue" /\ proc'[p].token = t
                          /\ \/ visit[p].moved
                             \/ staff[proc[p].owner] = [active |-> TRUE, role |-> roleOf'[t]]
    OBVIOUS
  <2>2. PICK p \in Procs : StaffStoreSession(p)
    <3>1. \A p \in Procs :
            /\ \A u \in Owners, ip \in Ips : Login(p, u, ip) => issued' = issued
            /\ LoginIp(p) => issued' = issued
            /\ LoginCompare(p) => issued' = issued
            /\ RecordFailedLogin(p) => issued' = issued
            /\ ClearFailedLogins(p) => issued' = issued
            /\ StaffRefreshCheck(p) => issued' = issued
      BY DEF Login, LoginIp, LoginCompare, RecordFailedLogin, ClearFailedLogins,
             StaffRefreshCheck, RefreshCheck
    <3>2. \A p \in Procs : StaffSessionStep(p) => issued' = issued
      BY DEF StaffSessionStep, RememberRefreshToken, RefreshGet, LogoutGet, ForgetSession,
             ForgetListed, RevokeRead, RevokeToken, RevokeIndex, RequestDies
    <3>3. /\ \A k \in Keys : WindowEnds(k) => issued' = issued
          /\ \A u \in Owners : StaffChanges(u) => issued' = issued
      BY DEF WindowEnds, StaffChanges, sessionVars
    <3>4. QED
      BY <2>1, <3>1, <3>2, <3>3 DEF StaffNext
  <2>3. /\ proc[p].pc = "issue" /\ t \in Tokens
        /\ proc' = [proc EXCEPT ![p].pc = "list", ![p].token = t]
        /\ roleOf'[t] = visit[p].role
    BY <2>1, <2>2 DEF StaffStoreSession, StoreSession
  <2>a. proc'[p].token = t
    BY <2>1, <2>3 DEF StaffInv, SessionsKnown, SessionsTyped, ProcRow
  <2>4. Standing(proc[p], visit[p], staff[proc[p].owner])
    BY <2>1 DEF StaffInv
  <2>5. QED
    BY <2>3, <2>a, <2>4 DEF Standing
<1>2. QED
  BY <1>1, StaffHolds, PTL DEF StaffSpec, IssuedInStanding

\* staff_auth.py repeats the session code of auth.py: every live session of a
\* staff account is listed, so that a revocation finds it, with the same
\* exceptions.
THEOREM StaffSessionsListed == StaffSpec => []ListedOrStray
<1>1. StaffInv => ListedOrStray
  BY DEF StaffInv, SessionsKnown
<1>2. QED
  BY <1>1, StaffHolds, PTL

=============================================================================
