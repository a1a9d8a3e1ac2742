------------------------------ MODULE Catalogue ------------------------------
(***************************************************************************)
(* The menu (core-api services/menu_admin.py) as three readers see it: the *)
(* public menu (services/menu_public.py), the cart (services/cart.py) and  *)
(* the checkout (services/validators/stop_list.py).  An edit reads its row *)
(* in one step and writes the columns that differ in a later one.  An item *)
(* has one size; a deletion of an item takes the size with it (ON DELETE   *)
(* CASCADE), a category with items cannot be deleted (RESTRICT).           *)
(***************************************************************************)
EXTENDS Integers, FiniteSets

CONSTANTS
  Editors,        \* admin requests that may run at the same time
  Categories, Products, Modifiers,
  Gone,           \* a row that does not exist
  MaxEdits        \* bound: admin requests

ASSUME CatalogueAssumption == Gone \notin BOOLEAN

VARIABLES
  category,   \* per category: shown or hidden, or Gone
  item,       \* per item: its row, or Gone
  modifier,   \* per modifier: its available flag, or Gone
  linked,     \* menu_item_modifiers
  editor,     \* the requests under way
  put,        \* history: per item the modifiers that the last PUT asked for,
              \* less those deleted since
  skewed,     \* history: the items that two overlapping PUTs of their own row,
              \* or of their modifiers, wrote
  customer,   \* a customer on the way from the menu to an order
  edits

menuVars == <<category, item, modifier, linked, editor, put, skewed, customer, edits>>

\* Media: kind of the row, of the file behind the URL and of the poster's.
Kinds == {"none", "image", "video"}
Media == [type : Kinds, url : Kinds, poster : {"none", "image"}]

\* _validate_media_combination
MediaValid(m) ==
  \/ m.type = "none" /\ m.url = "none" /\ m.poster = "none"
  \/ m.type = "video" /\ m.url = "video" /\ m.poster = "image"
  \/ m.type = "image" /\ m.url = "image" /\ m.poster = "none"

NoMedia == [type |-> "none", url |-> "none", poster |-> "none"]
NewItem(c) == [category |-> c, archived |-> FALSE, available |-> TRUE,
               size |-> TRUE, media |-> NoMedia]
IdleEditor == [pc |-> "idle"]

CatalogueInit ==
  /\ category = [c \in Categories |-> "shown"]
  /\ item = [i \in Products |-> NewItem(CHOOSE c \in Categories : TRUE)]
  /\ modifier = [m \in Modifiers |-> TRUE]
  /\ linked = {} /\ put = [i \in Products |-> {}]
  /\ editor = [e \in Editors |-> IdleEditor]
  /\ skewed = {} /\ edits = 0 /\ customer = [pc |-> "browsing"]

\* A request that reads and writes in one step, from an idle editor.
Edit(e) == editor[e].pc = "idle" /\ edits < MaxEdits /\ edits' = edits + 1
Begun(e, q) == Edit(e) /\ editor' = [editor EXCEPT ![e] = q]
EditEnd(e, pc) == /\ editor[e].pc = pc /\ UNCHANGED edits
                  /\ editor' = [editor EXCEPT ![e] = IdleEditor]

ItemsOf(c) == {i \in Products : item[i] # Gone /\ item[i].category = c}

-----------------------------------------------------------------------------
(* Categories and modifiers                                                *)

\* update_category, and create_category for one that is not there.
PutCategory(e, c) ==
  /\ Edit(e)
  /\ \E look \in {"shown", "hidden"} : category' = [category EXCEPT ![c] = look]
  /\ UNCHANGED <<item, modifier, linked, editor, put, skewed>>

DeleteCategory(e, c) ==
  /\ Edit(e)
  /\ category[c] # Gone /\ ItemsOf(c) = {}
  /\ category' = [category EXCEPT ![c] = Gone]
  /\ UNCHANGED <<item, modifier, linked, editor, put, skewed>>

\* update_modifier, set_modifier_availability and create_modifier.
PutModifier(e, m) ==
  /\ Edit(e)
  /\ \E available \in BOOLEAN : modifier' = [modifier EXCEPT ![m] = available]
  /\ UNCHANGED <<category, item, linked, editor, put, skewed>>

DeleteModifier(e, m) ==
  /\ Edit(e)
  /\ modifier[m] # Gone
  /\ modifier' = [modifier EXCEPT ![m] = Gone]
  /\ linked' = {l \in linked : l[2] # m}
  /\ put' = [i \in Products |-> put[i] \ {m}]
  /\ UNCHANGED <<category, item, editor, skewed>>

-----------------------------------------------------------------------------
(* Products and sizes                                                         *)

\* The category was there when it was looked up, and at the INSERT.
CreateItem(e, i, c) ==
  /\ Edit(e)
  /\ item[i] = Gone /\ category[c] # Gone
  /\ item' = [item EXCEPT ![i] = NewItem(c)]
  /\ UNCHANGED <<category, modifier, linked, editor, put, skewed>>

DeleteItem(e, i) ==
  /\ Edit(e)
  /\ item[i] # Gone
  /\ item' = [item EXCEPT ![i] = Gone]
  /\ linked' = {l \in linked : l[1] # i}
  /\ put' = [put EXCEPT ![i] = {}] /\ skewed' = skewed \ {i}
  /\ UNCHANGED <<category, modifier, editor>>

\* The bodies of PUT /items/{id}: the media, or parts of it; the category;
\* the flags, which set_item_availability writes as well.
MediaBodies == {[type |-> k, url |-> k] : k \in {"none", "image"}}
                 \cup {[type |-> "video", url |-> "video", poster |-> "image"],
                       [poster |-> "none"], [poster |-> "image"], [type |-> "image"]}
Merged(body, row) == [f \in DOMAIN row |-> IF f \in DOMAIN body THEN body[f] ELSE row[f]]
Changes(body, row) == {f \in DOMAIN body : body[f] # row[f]}

\* _validate_item_media_state of the row with the body merged into it.
RowAccepted(body, row) == MediaValid(Merged(body, row))

PutMediaRead(e, i) ==
  /\ item[i] # Gone
  /\ \E body \in MediaBodies :
       /\ RowAccepted(body, item[i].media)
       /\ Begun(e, [pc |-> "media", of |-> i, body |-> body, row |-> item[i].media])
  /\ UNCHANGED <<category, item, modifier, linked, put, skewed>>

\* The UPDATE of the columns that changed; an item gone meanwhile fails it.
PutMediaWrite(e) ==
  LET q == editor[e]
      row == item[q.of].media
      columns == Changes(q.body, q.row)
  IN
  /\ EditEnd(e, "media")
  /\ IF item[q.of] = Gone THEN UNCHANGED <<item, skewed>> ELSE
       /\ item' = [item EXCEPT ![q.of].media =
            [f \in DOMAIN row |-> IF f \in columns THEN q.body[f] ELSE row[f]]]
       /\ skewed' = IF row # q.row THEN skewed \cup {q.of} ELSE skewed
  /\ UNCHANGED <<category, modifier, linked, put>>

PutItem(e, i) ==
  /\ Edit(e)
  /\ item[i] # Gone
  /\ \/ \E c \in Categories :
          category[c] # Gone /\ item' = [item EXCEPT ![i].category = c]
     \/ \E b \in BOOLEAN : item' = [item EXCEPT ![i].archived = b]
     \/ \E b \in BOOLEAN : item' = [item EXCEPT ![i].available = b]
  /\ UNCHANGED <<category, modifier, linked, editor, put, skewed>>

\* The one size of an item; delete_size leaves no size to choose.
PutSize(e, i) ==
  /\ Edit(e)
  /\ item[i] # Gone
  /\ \E b \in BOOLEAN \cup {Gone} : item' = [item EXCEPT ![i].size = b]
  /\ UNCHANGED <<category, modifier, linked, editor, put, skewed>>

-----------------------------------------------------------------------------
(* PUT /items/{id}/modifiers: all of the ids exist, or nothing is done.    *)

Links(i) == {m \in Modifiers : <<i, m>> \in linked}

PutModifiersRead(e, i) ==
  \E ids \in SUBSET {m \in Modifiers : modifier[m] # Gone} :
    /\ item[i] # Gone
    /\ Begun(e, [pc |-> "links", of |-> i, ids |-> ids, row |-> Links(i)])
    /\ UNCHANGED <<category, item, modifier, linked, put, skewed>>

\* Mutant: the new ids are added, those that were dropped stay.
RelinkedAdding(q) == linked \cup {<<q.of, m>> : m \in q.ids}
\* The unit of work: INSERTs and DELETEs of the difference from what was read.
Relinked(q) == (linked \ {<<q.of, m>> : m \in q.row \ q.ids})
                 \cup {<<q.of, m>> : m \in q.ids \ q.row}

\* An INSERT of a pair that is there or of a row that is gone, and a DELETE
\* of a pair that is not there fail the request.
Relinkable(q) == /\ item[q.of] # Gone
                 /\ \A m \in q.ids \ q.row : modifier[m] # Gone /\ <<q.of, m>> \notin linked
                 /\ \A m \in q.row \ q.ids : <<q.of, m>> \in linked

PutModifiersWrite(e) ==
  LET q == editor[e] IN
  /\ EditEnd(e, "links")
  /\ IF ~Relinkable(q) THEN UNCHANGED <<linked, put, skewed>> ELSE
       /\ linked' = Relinked(q)
       /\ put' = [put EXCEPT ![q.of] = {m \in q.ids : modifier[m] # Gone}]
       /\ skewed' = IF Links(q.of) # q.row THEN skewed \cup {q.of} ELSE skewed
  /\ UNCHANGED <<category, item, modifier>>

AdminNext ==
  \E e \in Editors :
    \/ \E c \in Categories : PutCategory(e, c) \/ DeleteCategory(e, c)
    \/ \E m \in Modifiers : PutModifier(e, m) \/ DeleteModifier(e, m)
    \/ \E i \in Products : \/ \E c \in Categories : CreateItem(e, i, c)
                        \/ DeleteItem(e, i) \/ PutItem(e, i) \/ PutSize(e, i)
                        \/ PutMediaRead(e, i) \/ PutModifiersRead(e, i)
    \/ PutMediaWrite(e) \/ PutModifiersWrite(e)

-----------------------------------------------------------------------------
(* A customer who chooses an item, with or without its size, and modifiers *)

MenuChoices == [item : Products, sized : BOOLEAN, mods : SUBSET Modifiers]

\* Mutant: archived items stay on the menu.
OfferedArchived(x) ==
  LET row == item[x.item] IN
  /\ row # Gone
  /\ category[row.category] = "shown" /\ row.available
  /\ x.sized => row.size = TRUE
  /\ \A m \in x.mods : m \in Links(x.item) /\ modifier[m] = TRUE
\* get_public_menu shows it, with nothing of it marked unavailable.
Offered(x) ==
  LET row == item[x.item] IN
  /\ row # Gone
  /\ category[row.category] = "shown"
  /\ ~row.archived /\ row.available
  /\ x.sized => row.size = TRUE
  /\ \A m \in x.mods : m \in Links(x.item) /\ modifier[m] = TRUE

\* CartService._validate_and_resolve, but for the inventory.
Addable(x) ==
  LET row == item[x.item] IN
  /\ row # Gone /\ ~row.archived /\ row.available
  /\ x.sized => row.size = TRUE
  /\ \A m \in x.mods : m \in Links(x.item) /\ modifier[m] = TRUE

\* validate_stop_list
Sellable(x) ==
  LET row == item[x.item] IN
  /\ row # Gone /\ row.available
  /\ x.sized => row.size = TRUE
  /\ \A m \in x.mods : modifier[m] = TRUE

Choose(x) ==
  /\ customer.pc = "browsing" /\ Offered(x)
  /\ customer' = [pc |-> "chose", x |-> x, moved |-> FALSE]

AddToCart ==
  /\ customer.pc = "chose"
  /\ customer' = [customer EXCEPT !.pc = IF Addable(customer.x) THEN "added" ELSE "refused"]

Order ==
  /\ customer.pc = "added"
  /\ customer' = [customer EXCEPT !.pc = IF Sellable(customer.x) THEN "sold" ELSE "refused"]

CustomerNext ==
  /\ (\E x \in MenuChoices : Choose(x)) \/ AddToCart \/ Order
  /\ UNCHANGED <<category, item, modifier, linked, editor, put, skewed, edits>>

\* Any change of the menu under the customer's hands counts.
CatalogueNext ==
  \/ /\ AdminNext
     /\ customer' = IF /\ customer.pc \in {"chose", "added"}
                       /\ <<category, item, modifier, linked>>'
                            # <<category, item, modifier, linked>>
                    THEN [customer EXCEPT !.moved = TRUE] ELSE customer
  \/ CustomerNext

CatalogueSpec == CatalogueInit /\ [][CatalogueNext]_menuVars

-----------------------------------------------------------------------------
\* What the menu offers the cart takes, and what the cart takes the checkout
\* sells, if the menu stays as it was: three services check it, each in its
\* own way.
OfferedIsSold == customer.pc = "refused" => customer.moved

\* The media of an item is one of the three valid combinations, and its
\* modifiers are those that the last successful PUT asked for, unless an edit
\* had read a row or a set that changed before it wrote.
ItemAsEdited ==
  \A i \in Products : item[i] # Gone /\ i \notin skewed =>
    MediaValid(item[i].media) /\ Links(i) = put[i]

=============================================================================
