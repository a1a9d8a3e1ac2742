-------------------------------- MODULE Slots --------------------------------
(***************************************************************************)
(* When an order will be ready (core-api services/validators/              *)
(* working_hours.py), while an admin edits the shop's hours.  Time is in   *)
(* ticks, Day of them to a day and Week days to a week; a day's hours are  *)
(* the ticks from open to before close, and a closed day has none.         *)
(***************************************************************************)
EXTENDS Integers

CONSTANTS
  Day, Week,       \* ticks in a day, days in a week
  Prep, Delivery,  \* default_prep_time_minutes, estimated_delivery_time_minutes
  Schedules,       \* the working hours that an admin may save
  LastTick         \* bound: the clock

ASSUME SlotsAssumption ==
  /\ Day \in Nat \ {0} /\ Week \in Nat \ {0} /\ LastTick \in Nat
  /\ Prep \in Nat \ {0} /\ Delivery \in Nat \ {0} /\ Schedules # {}
  /\ \A s \in Schedules : s \in [0..(Week - 1) -> [open : 0..(Day - 1), close : 0..(Day - 1)]]

VARIABLES clock, hours, answer

slotVars == <<clock, hours, answer>>

NoSlot == -1
ASAP == -1     \* no requested_time

HoursOf(t) == hours[(t \div Day) % Week]
Works(h) == h.open < h.close
WithinHours(t) == LET h == HoursOf(t) IN h.open <= t % Day /\ t % Day < h.close
Midnight(t) == (t \div Day) * Day

Lead(type) == IF type = "DELIVERY" THEN Prep + Delivery ELSE Prep

-----------------------------------------------------------------------------
OpeningOn(t) == Midnight(t) + HoursOf(t).open

OpeningToday == Works(HoursOf(clock)) /\ clock <= OpeningOn(clock)
OpeningTomorrow == /\ Works(HoursOf(clock + Day))
                   /\ OpeningOn(clock + Day) <= clock + Day

\* _next_opening_within_24h
NextOpening ==
  IF OpeningToday THEN OpeningOn(clock)
  ELSE IF OpeningTomorrow THEN OpeningOn(clock + Day)
  ELSE NoSlot

\* Mutant: the lead is added without a look at the hours.
AsapSlotUnchecked(type) == clock + Lead(type)
AsapSlot(type) ==
  IF WithinHours(clock + Lead(type)) THEN clock + Lead(type)
  ELSE IF NextOpening = NoSlot THEN NoSlot
  ELSE NextOpening + Lead(type)

\* The lead of a delivery does not count for a time that the customer names.
RequestedSlot(at) ==
  IF at <= clock \/ at - clock < Prep \/ ~WithinHours(at) THEN NoSlot ELSE at

\* validate_time_slot
TimeSlot(type, at) == IF at = ASAP THEN AsapSlot(type) ELSE RequestedSlot(at)

-----------------------------------------------------------------------------
NoAnswer == [at |-> ASAP, slot |-> NoSlot, lead |-> 0, asked |-> FALSE]

SlotsInit == /\ clock = 0 /\ hours = CHOOSE s \in Schedules : TRUE
             /\ answer = NoAnswer

Ask(type, at) ==
  /\ answer' = [at |-> at, slot |-> TimeSlot(type, at), lead |-> Lead(type), asked |-> TRUE]
  /\ UNCHANGED <<clock, hours>>

\* Time passes, or the hours change: an answer holds for its moment.
TimePasses == /\ clock < LastTick /\ clock' = clock + 1
              /\ answer' = NoAnswer /\ UNCHANGED hours

PutHours == /\ hours' \in Schedules \ {hours}
            /\ answer' = NoAnswer /\ UNCHANGED clock

SlotsNext ==
  \/ TimePasses \/ PutHours
  \/ \E type \in {"PICKUP", "DELIVERY"}, at \in {ASAP} \cup 0..(LastTick + Day) : Ask(type, at)

SlotsSpec == SlotsInit /\ [][SlotsNext]_slotVars

-----------------------------------------------------------------------------
\* The moments of the coming 24 hours at which the shop opens.
Openings == {t \in clock..(clock + Day) : Works(HoursOf(t)) /\ t = OpeningOn(t)}

\* "As soon as possible" is refused only to a customer whom the shop could
\* serve neither now nor after an opening in 24 hours, and the time it names
\* is now plus the lead, or the lead after the very next opening, whichever
\* comes first of those the hours allow.  A time the customer named is kept,
\* and it is within working hours and leaves time to prepare (INV-007); the one
\* way out of the hours is a lead that outlasts the day the shop opens for.
AsapIsNearest ==
  answer.asked =>
    CASE answer.at # ASAP ->
           answer.slot # NoSlot =>
             /\ answer.slot = answer.at /\ answer.at >= clock + Prep
             /\ WithinHours(answer.at)
      [] answer.at = ASAP /\ answer.slot = NoSlot ->
           Openings = {} /\ ~WithinHours(clock + answer.lead)
      [] OTHER ->
           \/ answer.slot = clock + answer.lead /\ WithinHours(clock + answer.lead)
           \/ /\ ~WithinHours(clock + answer.lead)
              /\ answer.slot - answer.lead \in Openings
              /\ \A t \in Openings : answer.slot - answer.lead <= t

=============================================================================
