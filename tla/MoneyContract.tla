---------------------------- MODULE MoneyContract ----------------------------
(***************************************************************************)
(* What the shop owes its customers about their money, order by order: an  *)
(* order that is to be paid for is not served, and its payment is not      *)
(* booked as received, before the provider has taken the money; money is   *)
(* booked as returned, or its return as refused, only when the provider    *)
(* has said so; and money that was booked is never forgotten.  Nothing is  *)
(* said of how the programs that keep the books find out, or when.         *)
(***************************************************************************)
CONSTANTS Orders, Refunds

VARIABLES
  stage,   \* of the order: none, waiting for its payment, served, cancelled
  due,     \* there is something to pay
  money,   \* the payment at the provider
  back,    \* the refunds at the provider
  book     \* the payment in the shop's books

contractVars == <<stage, due, money, back, book>>

ContractInit ==
  /\ stage = [o \in Orders |-> "none"] /\ due = [o \in Orders |-> FALSE]
  /\ money = [o \in Orders |-> "none"]
  /\ back = [o \in Orders |-> [r \in Refunds |-> "none"]]
  /\ book = [o \in Orders |-> "open"]

Paid(o) == due[o] => money[o] = "succeeded"
Outcome(o, result) == \E r \in Refunds : back[o][r] = result

\* A payment or a refund at the provider: asked for, then settled for good.
ProviderSteps == {<<"none", "pending">>, <<"pending", "succeeded">>, <<"pending", "canceled">>}

Charge(o) ==
  /\ \E result \in {"pending", "succeeded", "canceled"} :
       /\ <<money[o], result>> \in ProviderSteps
       /\ money' = [money EXCEPT ![o] = result]
  /\ UNCHANGED <<stage, due, back, book>>

Return(o, r) ==
  /\ \E result \in {"pending", "succeeded", "canceled"} :
       /\ <<back[o][r], result>> \in ProviderSteps
       /\ back' = [back EXCEPT ![o][r] = result]
  /\ UNCHANGED <<stage, due, money, book>>

Place(o) ==
  /\ stage[o] = "none"
  /\ \/ /\ stage' = [stage EXCEPT ![o] = "waiting"]
        /\ due' = [due EXCEPT ![o] = TRUE]
        /\ UNCHANGED book
     \/ /\ stage' = [stage EXCEPT ![o] = "served"]
        /\ UNCHANGED due
        /\ book' = [book EXCEPT ![o] = "received"]
  /\ UNCHANGED <<money, back>>

MayStand(o, s) ==
  \/ s = stage[o]
  \/ s = "served" /\ Paid(o)
  \/ s = "cancelled"

MayBook(o, b) ==
  \/ b = book[o]
  \/ b = "received" /\ Paid(o)
  \/ b = "returned" /\ book[o] = "received" /\ Outcome(o, "succeeded")
  \/ b = "refused" /\ book[o] = "received" /\ Outcome(o, "canceled")

Keep(o) ==
  /\ stage[o] # "none"
  /\ \E s \in {"waiting", "served", "cancelled"}, b \in {"open", "received", "returned", "refused"} :
       /\ MayStand(o, s) /\ stage' = [stage EXCEPT ![o] = s]
       /\ MayBook(o, b) /\ book' = [book EXCEPT ![o] = b]
  /\ UNCHANGED <<due, money, back>>

ContractNext ==
  \E o \in Orders : Charge(o) \/ Place(o) \/ Keep(o) \/ \E r \in Refunds : Return(o, r)

ContractSpec == ContractInit /\ [][ContractNext]_contractVars
=============================================================================
