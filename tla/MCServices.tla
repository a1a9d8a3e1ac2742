----------------------------- MODULE MCServices -----------------------------
(***************************************************************************)
(* The services that share no state with an order, side by side in one     *)
(* instance: a behaviour picks one of them and leaves the others at their  *)
(* initial states.                                                         *)
(***************************************************************************)
EXTENDS Otp, Basket, Notices, StaffAuth, Catalogue, CatalogImport, Slots, Addresses,
        Feeds, Maps, QaFixtures, TLC

CONSTANTS latteS, latteL, cake   \* the lines of a cart

VARIABLE part

\* One code in a minute of one tick, two in an hour of four.
LimitDef == [w \in Windows |-> IF w = "min" THEN 1 ELSE 2]
LengthDef == [w \in Windows |-> IF w = "min" THEN 1 ELSE 4]
WindowsDef == {"min", "hour"}

ItemDef == [l \in Lines |-> IF l = cake THEN "cake" ELSE "latte"]
OrderLinesDef == <<[line |-> latteS, quantity |-> 1], [line |-> cake, quantity |-> 1]>>
FirstStockDef == [i \in Items |-> IF i = "cake" THEN 1 ELSE 2]

TransitionsDef == {[status |-> "CANCELLED", type |-> "PICKUP", by |-> "customer"],
                   [status |-> "IN_DELIVERY", type |-> "DELIVERY", by |-> "none"],
                   [status |-> "CREATED", type |-> "PICKUP", by |-> "none"]}

HoursDef == {[open |-> 0, close |-> 0], [open |-> 0, close |-> 2],
             [open |-> 1, close |-> 3], [open |-> 2, close |-> 3]}
SchedulesDef == [0..1 -> HoursDef]

\* Packets of at most two rows to a file, with codes a and b and names x and y:
\* unknown and repeated codes, shared names, a label beyond the enum.
CodedRow(c, n) == [code |-> c, name |-> n, shown |-> TRUE, sound |-> TRUE]
ItemRow(c, cat, n, ok) ==
  [code |-> c, category |-> cat, name |-> n, shown |-> TRUE, sound |-> ok]
SizeRow(i, l) == [item |-> i, label |-> l, sound |-> TRUE]
LinkRow(i, m) == [item |-> i, modifier |-> m, sound |-> TRUE]
CategoryFiles == {<<CodedRow("a", "x")>>} \cup
  {<<CodedRow("a", "x"), CodedRow(c, n)>> : c \in {"a", "b"}, n \in {"x", "y"}}
ItemFiles == {<<ItemRow("a", c, "x", ok)>> : c \in {"a", "b"}, ok \in BOOLEAN} \cup
  {<<ItemRow("a", "a", "x", TRUE), ItemRow(i, "a", n, TRUE)>> : i \in {"a", "b"}, n \in {"x", "y"}}
SizeFiles == {<<>>, <<SizeRow("a", "S"), SizeRow("a", "S")>>} \cup
  {<<SizeRow(i, l)>> : i \in {"a", "b"}, l \in {"S", "XL"}}
LinkFiles == {<<>>} \cup {<<LinkRow(i, "a")>> : i \in {"a", "b"}} \cup
  {<<LinkRow("a", m), LinkRow(i, n)>> : i, m, n \in {"a", "b"}}
PacketsDef == [categories : CategoryFiles, items : ItemFiles, sizes : SizeFiles,
               modifiers : {<<>>} \cup CategoryFiles, links : LinkFiles]

\* The menu that the import finds: none, or one with the name x in it.
FirstMenusDef ==
  {[categories |-> <<>>, items |-> <<>>, modifiers |-> {}],
   [categories |-> [c \in {"x", "z"} |-> TRUE], modifiers |-> {"x", "z"},
    items |-> [i \in {"x", "z"} |->
                [category |-> "z", shown |-> TRUE, sizes |-> {"L"}, links |-> {"z"}]]]}

\* Two codes are followed through their lives for two ticks (MaxCodes, MaxTicks);
\* the grants of the rate limit alone as far as MaxMints and MaxTime.
MaxCodes == 2
MaxTicks == 2
Followed == Len(reserved') <= MaxCodes /\ now' <= MaxTicks

\* The same two processes, and the same two names, serve every part.
Symmetry == Permutations(Procs) \cup Permutations(Tokens)

ServicesInit ==
  /\ part \in {"otp", "quota", "basket", "notices", "staff", "catalogue", "import", "slots",
               "addresses", "feeds", "maps", "fixtures"}
  /\ OtpInit /\ BasketInit /\ NoticesInit /\ StaffInit /\ CatalogueInit /\ ImportInit
  /\ SlotsInit /\ AddressesInit /\ FeedsInit /\ MapsInit
  /\ \/ part = "fixtures" /\ QaInit
     \/ /\ part # "fixtures"   \* the tables stay empty: smaller states
        /\ stored = {} /\ reset = NoReset /\ late = FALSE /\ hung = {} /\ uses = 0
  /\ part # "feeds" => feed = "orders"
  /\ part # "import" => stock = CHOOSE m \in FirstMenus : TRUE

Frozen(vars) == UNCHANGED <<vars, part>>
ServicesA == <<otpVars, basketVars, noticeVars, staffVars>>
ServicesB == <<menuVars, slotVars, addressVars>>
ServicesC == <<importVars, feedVars, mapsVars, fixtureVars>>

ServicesNext ==
  \/ /\ \/ part = "otp" /\ OtpNext /\ Followed
        \/ part = "quota" /\ (Tick \/ SendCode)
     /\ Frozen(<<basketVars, noticeVars, staffVars, ServicesB, ServicesC>>)
  \/ /\ part = "basket" /\ BasketNext
     /\ Frozen(<<otpVars, noticeVars, staffVars, ServicesB, ServicesC>>)
  \/ /\ part = "notices" /\ NoticesNext
     /\ Frozen(<<otpVars, basketVars, staffVars, ServicesB, ServicesC>>)
  \/ /\ part = "staff" /\ StaffNext
     /\ Frozen(<<otpVars, basketVars, noticeVars, ServicesB, ServicesC>>)
  \/ /\ part = "catalogue" /\ CatalogueNext
     /\ Frozen(<<ServicesA, slotVars, addressVars, ServicesC>>)
  \/ /\ part = "slots" /\ SlotsNext
     /\ Frozen(<<ServicesA, menuVars, addressVars, ServicesC>>)
  \/ /\ part = "addresses" /\ AddressesNext
     /\ Frozen(<<ServicesA, menuVars, slotVars, ServicesC>>)
  \/ /\ part = "import" /\ ImportNext
     /\ Frozen(<<ServicesA, ServicesB, feedVars, mapsVars, fixtureVars>>)
  \/ /\ part = "feeds" /\ FeedsNext
     /\ Frozen(<<ServicesA, ServicesB, importVars, mapsVars, fixtureVars>>)
  \/ /\ part = "maps" /\ MapsNext
     /\ Frozen(<<ServicesA, ServicesB, importVars, feedVars, fixtureVars>>)
  \/ /\ part = "fixtures" /\ QaNext
     /\ Frozen(<<ServicesA, ServicesB, importVars, feedVars, mapsVars>>)

ServicesVars == <<part, ServicesA, ServicesB, ServicesC>>
ServicesSpec == ServicesInit /\ [][ServicesNext]_ServicesVars
=============================================================================
