--------------------------- MODULE CatalogImport ----------------------------
(***************************************************************************)
(* A packet of CSV files with the owner's menu: what the validator says of *)
(* it (scripts/production/validate-menu-catalog.py) and what the import    *)
(* makes of it (database/seeds/menu_catalog.py).  The files refer to each  *)
(* other by codes; the import finds the rows of the database by name_en.   *)
(* "sound" is what a row says of itself alone: its numbers, flags and      *)
(* slugs can be parsed.                                                    *)
(***************************************************************************)
EXTENDS Naturals, SequencesExt

CONSTANTS
  Packets,        \* records of the five files, sequences of rows
  FirstMenus      \* what the database may hold before

VARIABLES packet, verdict, stock, imported

importVars == <<packet, verdict, stock, imported>>

SizeLabels == {"S", "M", "L"}

NoPacket == [categories |-> <<>>, items |-> <<>>, sizes |-> <<>>,
             modifiers |-> <<>>, links |-> <<>>]

ImportInit == /\ packet = NoPacket /\ stock \in FirstMenus
              /\ verdict = "none" /\ imported = "none"

\* load_catalog, of what the owner has put down.
LoadCatalog ==
  /\ packet = NoPacket /\ verdict = "none" /\ imported = "none"
  /\ packet' \in Packets
  /\ UNCHANGED <<verdict, stock, imported>>

-----------------------------------------------------------------------------
(* The validator                                                           *)

CodesOf(file) == {file[n].code : n \in DOMAIN file}
\* No two rows with one key, and each of them sound.
RowsOk(file, key(_)) ==
  \A n \in DOMAIN file :
    file[n].sound /\ \A k \in DOMAIN file : key(file[k]) = key(file[n]) => k = n

CategoriesOk(p) == RowsOk(p.categories, LAMBDA r : r.code)

\* Mutant: an item may name any category.
ItemsOkAnyCategory(p) == RowsOk(p.items, LAMBDA r : r.code)
\* A video has a file and a poster, an image a file.
ItemsOk(p) ==
  /\ RowsOk(p.items, LAMBDA r : r.code)
  /\ \A n \in DOMAIN p.items : p.items[n].category \in CodesOf(p.categories)

SizesOk(p) ==
  /\ RowsOk(p.sizes, LAMBDA r : <<r.item, r.label>>)
  /\ \A n \in DOMAIN p.sizes :
       p.sizes[n].item \in CodesOf(p.items) /\ p.sizes[n].label \in SizeLabels

ModifiersOk(p) == RowsOk(p.modifiers, LAMBDA r : r.code)

LinksOk(p) ==
  /\ RowsOk(p.links, LAMBDA r : <<r.item, r.modifier>>)
  /\ \A n \in DOMAIN p.links : /\ p.links[n].item \in CodesOf(p.items)
                               /\ p.links[n].modifier \in CodesOf(p.modifiers)

Validate ==
  /\ verdict = "none" /\ imported = "none"
  /\ verdict' = IF /\ CategoriesOk(packet) /\ ItemsOk(packet) /\ SizesOk(packet)
                   /\ ModifiersOk(packet) /\ LinksOk(packet)
                THEN "passed" ELSE "refused"
  /\ UNCHANGED <<packet, stock, imported>>

-----------------------------------------------------------------------------
(* The import: one transaction, all of it or nothing                       *)

\* --replace-existing: what is there is hidden first.
HideExistingMenu(m) ==
  [m EXCEPT !.categories = [c \in DOMAIN @ |-> FALSE],
            !.items = [i \in DOMAIN @ |-> [@[i] EXCEPT !.shown = FALSE]]]

\* UPDATE of the row with the name, or INSERT.
PutCategoryRow(m, r) == [m EXCEPT !.categories = (r.name :> r.shown) @@ @]
PutModifierRow(m, r) == [m EXCEPT !.modifiers = @ \cup {r.name}]

\* The name that the last row with a code has, or "unknown": a KeyError.
NameOf(file, code) ==
  LET of == {n \in DOMAIN file : file[n].code = code}
  IN IF of = {} THEN "unknown" ELSE file[CHOOSE n \in of : \A k \in of : k <= n].name

SizesFor(p, code) == {r.label : r \in {r \in ToSet(p.sizes) : r.item = code}}
LinksFor(p, code) ==
  LET of == SelectSeq(p.links, LAMBDA r : r.item = code)
  IN [n \in DOMAIN of |-> NameOf(p.modifiers, of[n].modifier)]

\* Labels outside the enum, and a link inserted twice, fail the transaction.
ItemImportable(p, r) ==
  /\ NameOf(p.categories, r.category) # "unknown"
  /\ SizesFor(p, r.code) \subseteq SizeLabels
  /\ "unknown" \notin ToSet(LinksFor(p, r.code)) /\ IsInjective(LinksFor(p, r.code))

PutItemRow(p, m, r) ==
  [m EXCEPT !.items = (r.name :>
     [category |-> NameOf(p.categories, r.category), shown |-> r.shown,
      sizes |-> SizesFor(p, r.code), links |-> ToSet(LinksFor(p, r.code))]) @@ @]

\* A row that cannot be parsed counts where it is read: sizes and links of no
\* item of the packet are not.
Importable(p) ==
  /\ \A f \in {p.categories, p.modifiers, p.items} : \A n \in DOMAIN f : f[n].sound
  /\ \A n \in DOMAIN p.items : ItemImportable(p, p.items[n])
  /\ \A n \in DOMAIN p.sizes : p.sizes[n].item \in CodesOf(p.items) => p.sizes[n].sound

MenuAfter(p, m) ==
  LET cats == FoldLeft(PutCategoryRow, m, p.categories)
      mods == FoldLeft(PutModifierRow, cats, p.modifiers)
  IN FoldLeft(LAMBDA x, r : PutItemRow(p, x, r), mods, p.items)

Import(replace) ==
  /\ imported = "none"
  /\ IF Importable(packet)
     THEN /\ stock' = MenuAfter(packet, IF replace THEN HideExistingMenu(stock) ELSE stock)
          /\ imported' = "done"
     ELSE imported' = "failed" /\ UNCHANGED stock
  /\ UNCHANGED <<packet, verdict>>

ImportNext == LoadCatalog \/ Validate \/ \E replace \in BOOLEAN : Import(replace)
ImportSpec == ImportInit /\ [][ImportNext]_importVars

-----------------------------------------------------------------------------
Namesakes(file) == \E n, k \in DOMAIN file : n # k /\ file[n].name = file[k].name

\* What the validator lets pass the import takes, unless two modifiers of one
\* item bear one name (the validator compares codes only); and then, if no names
\* repeat, the menu has every item of the packet with its own category, its sizes
\* and its modifiers and no others, and every other item as it was, but hidden
\* if it was to be replaced.
PassedIsImported ==
  [][verdict = "passed" /\ imported' # imported =>
     /\ imported' = "failed" => Namesakes(packet.modifiers)
     /\ \/ imported' = "failed"
        \/ \E f \in {packet.categories, packet.items, packet.modifiers} : Namesakes(f)
        \/ /\ \A r \in ToSet(packet.items) :
                LET row == stock'.items[r.name]
                    own == {x \in ToSet(packet.links) : x.item = r.code}
                IN /\ \E c \in ToSet(packet.categories) :
                        /\ c.code = r.category /\ c.name = row.category
                        /\ stock'.categories[c.name] = c.shown
                   /\ row.shown = r.shown
                   /\ \A l \in SizeLabels : l \in row.sizes <=>
                        \E x \in ToSet(packet.sizes) : x.item = r.code /\ x.label = l
                   /\ row.links = {x.name : x \in {x \in ToSet(packet.modifiers) :
                                     \E y \in own : y.modifier = x.code}}
           /\ \A i \in DOMAIN stock.items \ {r.name : r \in ToSet(packet.items)} :
                stock'.items[i] \in {stock.items[i], [stock.items[i] EXCEPT !.shown = FALSE]}
    ]_importVars

=============================================================================
