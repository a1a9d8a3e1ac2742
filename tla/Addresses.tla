------------------------------ MODULE Addresses ------------------------------
(***************************************************************************)
(* The saved addresses of one customer (core-api services/                 *)
(* delivery_addresses.py, routers/delivery_addresses.py).  Making one the  *)
(* default takes four statements: its row is read (unless it is new), then *)
(* the default it replaces; the flush that clears that one locks its row;  *)
(* the last statement writes the new one, and the partial unique index     *)
(* ix_delivery_addresses_user_default decides between two that overlap.    *)
(***************************************************************************)
EXTENDS Integers, FiniteSets

CONSTANTS Callers,  \* requests that may run at the same time
          Places,   \* bound: addresses
          NoPlace

ASSUME AddressesAssumption == NoPlace \notin Places /\ IsFiniteSet(Places)

VARIABLES address,  \* per address: "none" (no row), "plain" or "default"
          caller,   \* the requests that make an address the default
          chosen,   \* history: the default that the last successful request
                    \* left or asked for
          raced     \* history: a request relied on a row that had changed

addressVars == <<address, caller, chosen, raced>>

IdleCaller == [pc |-> "idle", place |-> NoPlace, was |-> "none", old |-> {}]

AddressesInit ==
  /\ address = [a \in Places |-> "none"]
  /\ caller = [c \in Callers |-> IdleCaller]
  /\ chosen = NoPlace /\ raced = FALSE

Defaults == {a \in Places : address[a] = "default"}
Unlocked(a) == \A c \in Callers : caller[c].pc = "promote" => a \notin caller[c].old

-----------------------------------------------------------------------------
\* create_for_user without a default, or update_for_user with is_default false.
PutPlain(a) ==
  /\ Unlocked(a)
  /\ address' = [address EXCEPT ![a] = "plain"]
  /\ chosen' = IF chosen = a THEN NoPlace ELSE chosen
  /\ UNCHANGED <<caller, raced>>

DeleteAddress(a) ==
  /\ address[a] # "none" /\ Unlocked(a)
  /\ address' = [address EXCEPT ![a] = "none"]
  /\ chosen' = IF chosen = a THEN NoPlace ELSE chosen
  /\ UNCHANGED <<caller, raced>>

GetOwned(c, a) ==
  /\ caller[c].pc = "idle"
  /\ caller' = [caller EXCEPT ![c] =
       [IdleCaller EXCEPT !.pc = "select", !.place = a, !.was = address[a]]]
  /\ UNCHANGED <<address, chosen, raced>>

\* The SELECT of _demote_current_default, which leaves out the row itself.
SelectDefault(c) ==
  /\ caller[c].pc = "select"
  /\ caller' = [caller EXCEPT ![c].pc = "flush", ![c].old = Defaults \ {caller[c].place}]
  /\ UNCHANGED <<address, chosen, raced>>

Fail(c) == /\ caller' = [caller EXCEPT ![c] = IdleCaller]
           /\ UNCHANGED <<address, chosen, raced>>

\* An UPDATE of a row that is gone matches nothing, which fails the flush.
FlushDemotion(c) ==
  /\ caller[c].pc = "flush"
  /\ \A a \in caller[c].old : Unlocked(a)
  /\ IF \E a \in caller[c].old : address[a] = "none" THEN Fail(c)
     ELSE /\ caller' = [caller EXCEPT ![c].pc = "promote"]
          /\ UNCHANGED <<address, chosen, raced>>

\* The rows as the transaction leaves them.  A row that was read as the
\* default is not written.
Promoted(q) ==
  [a \in Places |->
     CASE a \in q.old -> "plain"
       [] a = q.place /\ q.was # "default" -> "default"
       [] OTHER -> address[a]]

\* Mutant: no unique index.
NoSecondDefaultUnchecked(rows) == TRUE
NoSecondDefault(rows) == Cardinality({a \in Places : rows[a] = "default"}) <= 1

\* The row that c is to write is locked by the demotion of d.
WaitsFor(c, d) == /\ caller[c].pc = "promote" /\ caller[d].pc = "promote"
                  /\ caller[c].place \in caller[d].old

PromoteAndCommit(c) ==
  LET q == caller[c] IN
  /\ q.pc = "promote"
  /\ \A d \in Callers \ {c} : ~WaitsFor(c, d)
  /\ IF \/ address[q.place] = "none" /\ q.was # "none"
        \/ ~NoSecondDefault(Promoted(q))
     THEN Fail(c)
     ELSE /\ address' = Promoted(q)
          /\ chosen' = q.place
          /\ raced' = (raced \/ q.was # address[q.place])
          /\ caller' = [caller EXCEPT ![c] = IdleCaller]

\* Of two requests that wait for each other PostgreSQL aborts one.
DeadlockDetected(c) ==
  /\ \E d \in Callers \ {c} : WaitsFor(c, d) /\ WaitsFor(d, c)
  /\ Fail(c)

AddressesNext ==
  \/ \E a \in Places : PutPlain(a) \/ DeleteAddress(a)
  \/ \E c \in Callers :
       \/ \E a \in Places : GetOwned(c, a)
       \/ SelectDefault(c) \/ FlushDemotion(c) \/ PromoteAndCommit(c)
       \/ DeadlockDetected(c)

AddressesSpec == AddressesInit /\ [][AddressesNext]_addressVars

-----------------------------------------------------------------------------
\* A customer never has two defaults, and the default is the address that his
\* last successful request made one: no failed or overtaken request takes it
\* away, but for one that had read its own row before another changed it.
DefaultAsAsked ==
  /\ Cardinality(Defaults) <= 1
  /\ raced \/ Defaults = {chosen} \ {NoPlace}
=============================================================================
