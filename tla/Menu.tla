-------------------------------- MODULE Menu --------------------------------
(***************************************************************************)
(* The menu as PosManager keeps it (menu_, a sequence of dishes) and as    *)
(* the three menu tables keep it.  A dish is its id, its looks (name,      *)
(* price, category, kitchen flag: one value) and its modifier groups; the  *)
(* groups of one dish, and the modifiers of one dish, have ids of their    *)
(* own.  Between two dishes nothing keeps them apart.                      *)
(***************************************************************************)
EXTENDS Integers, Sequences, SequencesExt

Group(id, mods)       == [id |-> id, mods |-> mods]
Dish(id, look, groups) == [id |-> id, look |-> look, groups |-> groups]

DishIds(dishes) == {d.id : d \in dishes}

MenuDish ==
  [id : STRING, look : STRING, groups : SUBSET [id : STRING, mods : SUBSET STRING]]

\* The groups of one dish have ids of their own, and so have their modifiers.
OwnIds(d) ==
  \A g, h \in d.groups : (g.id = h.id \/ g.mods \cap h.mods # {}) => g = h

\* The dishes before the i-th have no group, no modifier with this id.
NewGroup(menu, i, gid) ==
  \A j \in 1..(i - 1) : \A g \in menu[j].groups : g.id # gid
NewModifier(menu, i, mid) ==
  \A j \in 1..(i - 1) : \A g \in menu[j].groups : mid \notin g.mods

\* save_menu empties the tables and inserts row after row.  The ids of groups
\* and modifiers are primary keys of the whole table and the result of an
\* insert is not looked at: of two rows with one id the first stays.
SavedDishes(menu) == {[id |-> d.id, look |-> d.look] : d \in ToSet(menu)}
SavedGroups(menu) ==
  UNION {{[id |-> g.id, dish |-> menu[i].id] :
            g \in {h \in menu[i].groups : NewGroup(menu, i, h.id)}} :
         i \in DOMAIN menu}
SavedModifiers(menu) ==
  UNION {UNION {{[id |-> m, group |-> g.id] :
                   m \in {n \in g.mods : NewModifier(menu, i, n)}} :
                g \in menu[i].groups} :
         i \in DOMAIN menu}

\* load_menu puts them together again: the groups that name the dish, the
\* modifiers that name the group.
LoadedMenu(f) ==
  {Dish(d.id, d.look,
        {Group(g.id, {m.id : m \in {n \in f.modifiers : n.group = g.id}}) :
           g \in {h \in f.groups : h.dish = d.id}}) :
     d \in f.dishes}

\* No two dishes share the id of a group or of a modifier.
IdsAreUnique(menu) ==
  \A i \in DOMAIN menu : \A g \in menu[i].groups :
    NewGroup(menu, i, g.id) /\ \A m \in g.mods : NewModifier(menu, i, m)

\* The in-memory edits of add_menu_item, update_menu_item, delete_menu_item.
WithDish(menu, d)     == Append(menu, d)
ReplacedDish(menu, d) == [i \in DOMAIN menu |-> IF menu[i].id = d.id THEN d ELSE menu[i]]

\* The loop of delete_menu_item copies every dish but the one with this id: a
\* menu has no two (add_menu_item refuses the second, the table has none).
WithoutDish(menu, id) == RemoveAt(menu, SelectInSeq(menu, LAMBDA d : d.id = id))
=============================================================================
