-------------------------- MODULE DaemonStartProofs --------------------------
(***************************************************************************)
(* The schema on disk is always that of its version, the menu that is      *)
(* served is always the one in the tables, and a start keeps it, for every *)
(* set of files earlier releases may have left, every menu, and any number *)
(* of kills and failures.                                                  *)
(***************************************************************************)
EXTENDS DaemonStart, FiniteSetTheorems, SequenceTheorems, TLAPS

FileFields ==
  {"version", "schema", "dishes", "groups", "modifiers", "sold", "seeded"}

\* EXCEPT has a meaning at a field of the file only when the field is there:
\* the schema alone is not inductive.
FileInv ==
  /\ DOMAIN file = FileFields
  /\ file.version \in Versions
  /\ SchemaIsThatOfVersion(file)

\* One migration adds one step to the schema.
LEMMA SchemaGrows ==
  ASSUME NEW v \in 1..LatestVersion
  PROVE  SchemaOf(v) = SchemaOf(v - 1) \cup {Added[v]}
BY DEF SchemaOf

\* The first migration leads to the schema of version 1 also where release
\* 2.6.0 has made the tables already.
LEMMA SchemaOfNone == SchemaOf(0) = {}
BY DEF SchemaOf

\* A migration that runs leaves the schema of the version it sets (migrate).
LEMMA MigrationKeepsSchema ==
  ASSUME FileInv, file.version < LatestVersion, file' = Migrated(file)
  PROVE  FileInv'
<1> DEFINE v == file.version + 1
<1>1. v \in 1..LatestVersion /\ v - 1 = file.version
  BY DEF FileInv, Versions, LatestVersion
<1>2. /\ DOMAIN file' = FileFields
      /\ file'.version = v
      /\ file'.schema = file.schema \cup {Added[v]}
  BY DEF FileInv, FileFields, Migrated
<1>3. file'.schema = SchemaOf(v)
  <2>1. SchemaOf(v) = SchemaOf(file.version) \cup {Added[v]}
    BY <1>1, SchemaGrows
  <2>2. CASE file.schema = SchemaOf(file.version)
    BY <1>2, <2>1, <2>2
  <2>3. CASE file.version = 0 /\ file.schema = SchemaOf(1)
    <3>1. v = 1 BY <2>3
    <3>2. SchemaOf(1) = {Added[1]}
      BY <2>1, <2>3, <3>1, SchemaOfNone
    <3> QED BY <1>2, <2>3, <3>1, <3>2
  <2> QED BY <2>2, <2>3 DEF FileInv, SchemaIsThatOfVersion
<1> QED BY <1>1, <1>2, <1>3 DEF FileInv, Versions, LatestVersion, SchemaIsThatOfVersion

\* Saving a menu or the flag leaves version and schema alone.
LEMMA OtherWritesKeepSchema ==
  ASSUME FileInv,
         DOMAIN file' = DOMAIN file,
         file'.version = file.version, file'.schema = file.schema
  PROVE  FileInv'
BY DEF FileInv, SchemaIsThatOfVersion

LEMMA SavedKeepsSchema ==
  ASSUME FileInv, NEW items, file' = Saved(items) \/ UNCHANGED file
  PROVE  FileInv'
<1>1. CASE file' = Saved(items)
  BY <1>1, OtherWritesKeepSchema DEF FileInv, FileFields, Saved
<1>2. CASE UNCHANGED file
  BY <1>2, OtherWritesKeepSchema
<1> QED BY <1>1, <1>2

LEMMA FileInvInit == Init => FileInv
BY OldFilesAssumption DEF Init, FileInv, Files, FileFields

LEMMA FileInvNext == FileInv /\ [Next]_vars => FileInv'
<1> SUFFICES ASSUME FileInv, [Next]_vars PROVE FileInv'
  OBVIOUS
<1>1. CASE Migrate
  BY <1>1, MigrationKeepsSchema DEF Migrate
<1>2. CASE SeedMenu
  BY <1>2, SavedKeepsSchema DEF SeedMenu
<1>3. CASE RecordSeed
  BY <1>3, OtherWritesKeepSchema DEF RecordSeed, FileInv, FileFields
<1>4. CASE EnsurePlate
  BY <1>4, SavedKeepsSchema DEF EnsurePlate
<1>5. ASSUME NEW d \in Dishes, AddDish(d) \/ UpdateDish(d) \/ DeleteDish(d.id)
      PROVE  FileInv'
  BY <1>5, SavedKeepsSchema DEF AddDish, UpdateDish, DeleteDish, SaveThenAdopt
<1>6. CASE \/ Boot \/ MigrationRaises \/ LoadFile \/ SkipSeed \/ Serve
           \/ SeedNotRecorded \/ StartFails \/ Killed
  BY <1>6, OtherWritesKeepSchema
     DEF Boot, MigrationRaises, LoadFile, SkipSeed, Serve, SeedNotRecorded,
         StartFails, Killed, Ends
<1>7. CASE UNCHANGED vars
  BY <1>7, OtherWritesKeepSchema DEF vars
<1> QED BY <1>1, <1>2, <1>3, <1>4, <1>5, <1>6, <1>7 DEF Next, MainStep

\* Whatever release left the file, its schema is that of its version at every
\* moment the process may be killed (Database::migrate, one transaction each).
THEOREM SchemaSafe == Spec => []SchemaMatchesVersion
<1>1. FileInv => SchemaMatchesVersion
  BY DEF FileInv, SchemaMatchesVersion
<1> QED BY FileInvInit, FileInvNext, <1>1, PTL DEF Spec

\* A migration never meets its own column: when one raises, it is migrate_to_4
\* over a modifier that left the menu (the only way the daemon cannot start).
THEOREM OnlyOrphansRaise ==
  Spec => []((file.version < LatestVersion /\ Raises(file)) => Orphans(file) # {})
<1>1. ASSUME FileInv, file.version < LatestVersion, Raises(file)
      PROVE  Orphans(file) # {}
  <2> DEFINE v == file.version + 1
  <2>1. v \in 1..LatestVersion
    BY <1>1 DEF FileInv, Versions, LatestVersion
  <2>2. v > 1 => Added[v] \notin file.schema
    BY <1>1, <2>1 DEF FileInv, Versions, LatestVersion, SchemaIsThatOfVersion,
                      SchemaOf, Added
  <2> QED BY <1>1, <2>2 DEF Raises
<1> QED BY FileInvInit, FileInvNext, <1>1, PTL DEF Spec


-----------------------------------------------------------------------------
(* The inductive invariant of the menu *)

\* The menu tables as save_menu leaves them, whichever release ran it.
TablesOK(f) ==
  /\ f.dishes \in SUBSET [id : STRING, look : STRING]
  /\ f.groups \in SUBSET [id : STRING, dish : STRING]
  /\ f.modifiers \in SUBSET [id : STRING, group : STRING]
  /\ TablesAreKeyed(f)
  /\ \A g \in f.groups : PlatesOwn(g.dish, g.id)

\* A dish with ids of its own that leaves the plate its groups.
DishOK(d) ==
  d \in MenuDish /\ OwnIds(d) /\ \A g \in d.groups : PlatesOwn(d.id, g.id)

\* No two dishes of the menu in memory share an id.
MenuOK(items) ==
  /\ items \in Seq(MenuDish)
  /\ \A i \in 1..Len(items) : DishOK(items[i])
  /\ \A i, j \in 1..Len(items) : items[i].id = items[j].id => i = j

\* Until main has made sure of the plate the menu is one whose groups and
\* modifiers have ids of their own, and the tables have it; afterwards the
\* tables have it as long as the admin keeps the ids apart.
MenuInv ==
  /\ TablesOK(file)
  /\ MenuOK(menu) /\ index = ToSet(menu)
  /\ phase \in {"loaded", "seeded", "ensuring"} =>
       IdsAreUnique(menu) /\ LoadedMenu(file) = ToSet(menu)
  /\ (phase \in {"building", "serving"} /\ IdsAreUnique(menu)) =>
       LoadedMenu(file) = ToSet(menu)

-----------------------------------------------------------------------------
(* What a save puts into the tables *)

\* The tables of f are those of this menu.
HasSaved(f, items) ==
  /\ f.dishes = SavedDishes(items)
  /\ f.groups = SavedGroups(items)
  /\ f.modifiers = SavedModifiers(items)

LEMMA DishShape ==
  ASSUME NEW d \in MenuDish
  PROVE  /\ d = Dish(d.id, d.look, d.groups) /\ d.id \in STRING /\ d.look \in STRING
         /\ \A g \in d.groups :
              g = Group(g.id, g.mods) /\ g.id \in STRING /\ g.mods \in SUBSET STRING
BY DEF MenuDish, Dish, Group

LEMMA MenuShape ==
  ASSUME NEW items, MenuOK(items)
  PROVE  /\ Len(items) \in Nat /\ DOMAIN items = 1..Len(items)
         /\ \A i \in 1..Len(items) : items[i] \in MenuDish /\ DishOK(items[i])
BY DEF MenuOK, DishOK

LEMMA DishRows ==
  ASSUME NEW items, NEW r
  PROVE  r \in SavedDishes(items) <=>
           \E i \in DOMAIN items : r = [id |-> items[i].id, look |-> items[i].look]
BY DEF SavedDishes, ToSet

LEMMA GroupRows ==
  ASSUME NEW items, NEW r
  PROVE  r \in SavedGroups(items) <=>
           \E i \in DOMAIN items : \E g \in items[i].groups :
             NewGroup(items, i, g.id) /\ r = [id |-> g.id, dish |-> items[i].id]
BY DEF SavedGroups

LEMMA ModifierRows ==
  ASSUME NEW items, NEW r
  PROVE  r \in SavedModifiers(items) <=>
           \E i \in DOMAIN items : \E g \in items[i].groups : \E m \in g.mods :
             NewModifier(items, i, m) /\ r = [id |-> m, group |-> g.id]
BY DEF SavedModifiers

\* Of the groups with one id only those of one dish are new, and of the
\* modifiers likewise.
LEMMA NewInOneDish ==
  ASSUME NEW items, MenuOK(items), NEW i \in 1..Len(items), NEW j \in 1..Len(items),
         NEW g \in items[i].groups, NEW h \in items[j].groups
  PROVE  /\ (g.id = h.id /\ NewGroup(items, i, g.id) /\ NewGroup(items, j, h.id)) => i = j
         /\ \A m \in g.mods \cap h.mods :
              (NewModifier(items, i, m) /\ NewModifier(items, j, m)) => i = j
<1>1. i \in Nat /\ j \in Nat /\ (i # j => i \in 1..(j - 1) \/ j \in 1..(i - 1))
  BY MenuShape
<1>2. QED
  BY <1>1 DEF NewGroup, NewModifier

\* What save_menu writes keeps the tables well formed.
LEMMA SavedTables ==
  ASSUME NEW items, MenuOK(items), NEW f, HasSaved(f, items)
  PROVE  TablesOK(f)
<1> DEFINE n == Len(items)
<1>1. /\ n \in Nat /\ DOMAIN items = 1..n
      /\ \A i \in 1..n : items[i] \in MenuDish /\ OwnIds(items[i])
      /\ \A i \in 1..n : \A g \in items[i].groups : PlatesOwn(items[i].id, g.id)
  BY MenuShape DEF DishOK
<1>2. /\ f.dishes \in SUBSET [id : STRING, look : STRING]
      /\ Keyed(f.dishes)
  <2>1. \A r \in f.dishes : \E i \in 1..n :
          r = [id |-> items[i].id, look |-> items[i].look]
    BY <1>1, DishRows DEF HasSaved
  <2>2. \A i \in 1..n : items[i].id \in STRING /\ items[i].look \in STRING
    BY <1>1, DishShape
  <2>3. ASSUME NEW r \in f.dishes, NEW s \in f.dishes, r.id = s.id PROVE r = s
    <3>1. PICK i \in 1..n : r = [id |-> items[i].id, look |-> items[i].look]
      BY <2>1
    <3>2. PICK j \in 1..n : s = [id |-> items[j].id, look |-> items[j].look]
      BY <2>1
    <3>3. i = j
      BY <2>3, <3>1, <3>2 DEF MenuOK
    <3>4. QED
      BY <3>1, <3>2, <3>3
  <2>4. QED
    BY <2>1, <2>2, <2>3 DEF Keyed
<1>3. IsFiniteSet(f.dishes)
  <2> DEFINE row == [i \in 1..n |-> [id |-> items[i].id, look |-> items[i].look]]
  <2>1. IsFiniteSet(1..n)
    BY <1>1, FS_Interval
  <2>2. f.dishes = {row[i] : i \in 1..n}
    BY <1>1, DishRows DEF HasSaved
  <2>3. row \in Surjection(1..n, f.dishes)
    <3>1. DOMAIN row = 1..n /\ row = [i \in 1..n |-> row[i]]
      OBVIOUS
    <3> HIDE DEF row
    <3>2. QED
      BY <2>2, <3>1 DEF Surjection
  <2>4. QED
    BY <2>1, <2>3, FS_Surjection
<1>4. /\ f.groups \in SUBSET [id : STRING, dish : STRING]
      /\ Keyed(f.groups) /\ \A g \in f.groups : PlatesOwn(g.dish, g.id)
  <2>1. \A r \in f.groups : \E i \in 1..n : \E g \in items[i].groups :
          NewGroup(items, i, g.id) /\ r = [id |-> g.id, dish |-> items[i].id]
    BY <1>1, GroupRows DEF HasSaved
  <2>2. \A i \in 1..n : items[i].id \in STRING /\ \A g \in items[i].groups : g.id \in STRING
    BY <1>1, DishShape
  <2>3. ASSUME NEW r \in f.groups, NEW s \in f.groups, r.id = s.id PROVE r = s
    <3>1. PICK i, g :
            /\ i \in 1..n /\ g \in items[i].groups
            /\ NewGroup(items, i, g.id) /\ r = [id |-> g.id, dish |-> items[i].id]
      BY <2>1
    <3>2. PICK j, h :
            /\ j \in 1..n /\ h \in items[j].groups
            /\ NewGroup(items, j, h.id) /\ s = [id |-> h.id, dish |-> items[j].id]
      BY <2>1
    <3>3. g.id = h.id
      BY <2>3, <3>1, <3>2
    <3>4. i = j
      BY <3>1, <3>2, <3>3, NewInOneDish
    <3>5. QED
      BY <3>1, <3>2, <3>3, <3>4
  <2>4. \A r \in f.groups : PlatesOwn(r.dish, r.id)
    BY <1>1, <2>1
  <2>5. QED
    BY <2>1, <2>2, <2>3, <2>4 DEF Keyed
<1>5. f.modifiers \in SUBSET [id : STRING, group : STRING] /\ Keyed(f.modifiers)
  <2>1. \A r \in f.modifiers : \E i \in 1..n : \E g \in items[i].groups : \E m \in g.mods :
          NewModifier(items, i, m) /\ r = [id |-> m, group |-> g.id]
    BY <1>1, ModifierRows DEF HasSaved
  <2>2. \A i \in 1..n : \A g \in items[i].groups : g.id \in STRING /\ g.mods \in SUBSET STRING
    BY <1>1, DishShape
  <2>3. ASSUME NEW r \in f.modifiers, NEW s \in f.modifiers, r.id = s.id PROVE r = s
    <3>1. PICK i, g, m :
            /\ i \in 1..n /\ g \in items[i].groups /\ m \in g.mods
            /\ NewModifier(items, i, m) /\ r = [id |-> m, group |-> g.id]
      BY <2>1
    <3>2. PICK j, h, k :
            /\ j \in 1..n /\ h \in items[j].groups /\ k \in h.mods
            /\ NewModifier(items, j, k) /\ s = [id |-> k, group |-> h.id]
      BY <2>1
    <3>3. m = k /\ m \in g.mods \cap h.mods
      BY <2>3, <3>1, <3>2
    <3>4. i = j
      <4>1. \A x \in g.mods \cap h.mods :
              (NewModifier(items, i, x) /\ NewModifier(items, j, x)) => i = j
        BY <3>1, <3>2, NewInOneDish
      <4>2. QED
        BY <3>1, <3>2, <3>3, <4>1
    <3>5. g = h
      BY <1>1, <3>1, <3>2, <3>3, <3>4 DEF OwnIds
    <3>6. QED
      BY <3>1, <3>2, <3>3, <3>5
  <2>4. QED
    BY <2>1, <2>2, <2>3 DEF Keyed
<1>6. QED
  BY <1>2, <1>3, <1>4, <1>5 DEF TablesOK, TablesAreKeyed


-----------------------------------------------------------------------------
(* What a load makes of the tables *)

GroupsOf(f, id) ==
  {Group(g.id, {m.id : m \in {n \in f.modifiers : n.group = g.id}}) :
     g \in {h \in f.groups : h.dish = id}}

LEMMA LoadedRow ==
  ASSUME NEW f
  PROVE  LoadedMenu(f) = {Dish(d.id, d.look, GroupsOf(f, d.id)) : d \in f.dishes}
BY DEF LoadedMenu, GroupsOf

\* The groups of a dish come back when their rows were the first with their
\* ids and no other dish has a group with one of them.
LEMMA GroupsComeBack ==
  ASSUME NEW items, MenuOK(items), NEW f, HasSaved(f, items), NEW i \in 1..Len(items),
         \A g \in items[i].groups :
           NewGroup(items, i, g.id) /\ \A m \in g.mods : NewModifier(items, i, m),
         \A g \in items[i].groups : \A j \in 1..Len(items) : \A h \in items[j].groups :
           h.id = g.id => j = i
  PROVE  GroupsOf(f, items[i].id) = items[i].groups
<1> DEFINE n == Len(items)
           id == items[i].id
           groups == items[i].groups
<1>1. /\ n \in Nat /\ DOMAIN items = 1..n
      /\ OwnIds(items[i])
      /\ \A g \in groups : g = Group(g.id, g.mods)
      /\ \A j \in 1..n : items[j].id = id => j = i
  BY MenuShape, DishShape DEF DishOK, MenuOK
<1>2. {h.id : h \in {r \in f.groups : r.dish = id}} = {g.id : g \in groups}
  <2>1. ASSUME NEW r \in f.groups, r.dish = id PROVE r.id \in {g.id : g \in groups}
    <3>1. PICK j, g :
            /\ j \in 1..n /\ g \in items[j].groups
            /\ r = [id |-> g.id, dish |-> items[j].id]
      BY <1>1, GroupRows DEF HasSaved
    <3>2. j = i
      BY <1>1, <2>1, <3>1
    <3>3. QED
      BY <3>1, <3>2
  <2>2. ASSUME NEW g \in groups
        PROVE  [id |-> g.id, dish |-> id] \in f.groups
    BY <1>1, GroupRows DEF HasSaved
  <2>3. ASSUME NEW g \in groups
        PROVE  g.id \in {h.id : h \in {r \in f.groups : r.dish = id}}
    <3>1. PICK r \in f.groups : r = [id |-> g.id, dish |-> id]
      BY <2>2
    <3>2. r.id = g.id /\ r.dish = id
      BY <3>1
    <3>3. QED
      BY <3>2
  <2>4. QED
    BY <2>1, <2>3
<1>3. ASSUME NEW g \in groups
      PROVE  {m.id : m \in {r \in f.modifiers : r.group = g.id}} = g.mods
  <2>1. ASSUME NEW r \in f.modifiers, r.group = g.id PROVE r.id \in g.mods
    <3>1. PICK j, h, m :
            /\ j \in 1..n /\ h \in items[j].groups /\ m \in h.mods
            /\ r = [id |-> m, group |-> h.id]
      BY <1>1, ModifierRows DEF HasSaved
    <3>2. h.id = g.id /\ r.id = m
      BY <2>1, <3>1
    <3>3. j = i
      BY <1>3, <3>1, <3>2
    <3>4. h = g
      BY <1>1, <1>3, <3>1, <3>2, <3>3 DEF OwnIds
    <3>5. QED
      BY <3>1, <3>2, <3>4
  <2>2. ASSUME NEW m \in g.mods PROVE [id |-> m, group |-> g.id] \in f.modifiers
    BY <1>1, <1>3, ModifierRows DEF HasSaved
  <2>3. ASSUME NEW m \in g.mods
        PROVE  m \in {r.id : r \in {q \in f.modifiers : q.group = g.id}}
    <3>1. PICK r \in f.modifiers : r = [id |-> m, group |-> g.id]
      BY <2>2
    <3>2. r.id = m /\ r.group = g.id
      BY <3>1
    <3>3. QED
      BY <3>2
  <2>4. QED
    BY <2>1, <2>3
<1> DEFINE Rebuilt(gid) == Group(gid, {m.id : m \in {r \in f.modifiers : r.group = gid}})
<1>4. \A g \in groups : Rebuilt(g.id) = g
  BY <1>1, <1>3
<1> HIDE DEF Rebuilt
<1>5. GroupsOf(f, id) = {Rebuilt(gid) : gid \in {h.id : h \in {r \in f.groups : r.dish = id}}}
  BY DEF GroupsOf, Rebuilt
<1>6. GroupsOf(f, id) = {Rebuilt(gid) : gid \in {g.id : g \in groups}}
  BY <1>2, <1>5
<1>7. QED
  BY <1>4, <1>6

\* A menu whose ids are unique comes back whole.
LEMMA SaveLoads ==
  ASSUME NEW items, MenuOK(items), IdsAreUnique(items), NEW f, HasSaved(f, items)
  PROVE  LoadedMenu(f) = ToSet(items)
<1> DEFINE n == Len(items)
<1>1. n \in Nat /\ DOMAIN items = 1..n /\ \A i \in 1..n : items[i] \in MenuDish
  BY MenuShape
<1>2. \A i \in 1..n : \A g \in items[i].groups :
        NewGroup(items, i, g.id) /\ \A m \in g.mods : NewModifier(items, i, m)
  BY <1>1 DEF IdsAreUnique
<1>3. \A i \in 1..n : GroupsOf(f, items[i].id) = items[i].groups
  BY <1>2, NewInOneDish, GroupsComeBack
<1> DEFINE Row(i) == [id |-> items[i].id, look |-> items[i].look]
           Made(r) == Dish(r.id, r.look, GroupsOf(f, r.id))
<1>4. \A i \in 1..n : Made(Row(i)) = items[i]
  BY <1>1, <1>3, DishShape
<1>5. f.dishes = {Row(i) : i \in 1..n}
  BY <1>1, DishRows DEF HasSaved
<1>6. LoadedMenu(f) = {Made(r) : r \in f.dishes}
  BY LoadedRow
<1> HIDE DEF Row, Made
<1>7. LoadedMenu(f) = {items[i] : i \in 1..n}
  BY <1>4, <1>5, <1>6
<1>8. QED
  BY <1>1, <1>7 DEF ToSet

\* A sequence of all elements of a finite set without repetitions meets each.
LEMMA SeqOfSet ==
  ASSUME NEW T, IsFiniteSet(T)
  PROVE  /\ SetToSeq(T) \in Seq(T)
         /\ \A i, j \in 1..Len(SetToSeq(T)) :
              SetToSeq(T)[i] = SetToSeq(T)[j] => i = j
         /\ ToSet(SetToSeq(T)) = T
<1> DEFINE n == Cardinality(T)
           s == SetToSeq(T)
<1>1. n \in Nat /\ IsFiniteSet(1..n) /\ Cardinality(1..n) = n
  <2>1. n \in Nat
    BY FS_CardinalityType
  <2>2. /\ IsFiniteSet(1..n)
        /\ Cardinality(1..n) = IF 1 > n THEN 0 ELSE n - 1 + 1
    BY <2>1, FS_Interval
  <2>3. QED
    BY <2>1, <2>2
<1>2. s \in [1..n -> T] /\ IsInjective(s)
  <2>1. ExistsBijection(1..n, T)
    BY FS_CardinalityType
  <2>2. PICK g \in [1..n -> T] : IsInjective(g)
    BY <2>1 DEF ExistsBijection, Bijection, Injection, IsInjective
  <2>3. QED
    BY <2>2 DEF SetToSeq
<1> HIDE DEF s
<1>3. s \in Injection(1..n, T)
  BY <1>2 DEF Injection, IsInjective
<1>4. s \in Surjection(1..n, T)
  <2>1. Cardinality(1..n) = Cardinality(T)
    BY <1>1
  <2> HIDE DEF n
  <2>2. QED
    BY <1>1, <1>3, <2>1, FS_Injection
<1>5. s \in Seq(T) /\ Len(s) = n
  BY <1>1, <1>2
<1>6. ToSet(s) = T
  <2>1. \A t \in T : \E i \in 1..n : s[i] = t
    BY <1>4 DEF Surjection
  <2>2. QED
    BY <1>2, <2>1 DEF ToSet
<1>7. \A i, j \in 1..n : s[i] = s[j] => i = j
  BY <1>2 DEF IsInjective
<1> HIDE DEF n
<1>8. QED
  BY <1>5, <1>6, <1>7 DEF s


\* What a load makes of well-formed tables is a menu whose ids are unique: a
\* group has one dish and a modifier one group.
LEMMA LoadedShape ==
  ASSUME NEW f, TablesOK(f)
  PROVE  /\ MenuOK(SetToSeq(LoadedMenu(f))) /\ IdsAreUnique(SetToSeq(LoadedMenu(f)))
         /\ ToSet(SetToSeq(LoadedMenu(f))) = LoadedMenu(f)
<1> DEFINE T == LoadedMenu(f)
           s == SetToSeq(T)
           ModsOf(gid) == {m.id : m \in {r \in f.modifiers : r.group = gid}}
<1>1. /\ \A d, e \in f.dishes : d.id = e.id => d = e
      /\ \A g, h \in f.groups : g.id = h.id => g = h
      /\ \A m, k \in f.modifiers : m.id = k.id => m = k
      /\ \A g \in f.groups : PlatesOwn(g.dish, g.id)
      /\ IsFiniteSet(f.dishes)
  BY DEF TablesOK, TablesAreKeyed, Keyed
<1>2. /\ \A d \in f.dishes : d.id \in STRING /\ d.look \in STRING
      /\ \A g \in f.groups : g.id \in STRING /\ g.dish \in STRING
      /\ \A m \in f.modifiers : m.id \in STRING /\ m.group \in STRING
  BY DEF TablesOK
<1>3. \A e \in T : \E d \in f.dishes : e = Dish(d.id, d.look, GroupsOf(f, d.id))
  BY LoadedRow
<1>4. \A id : \A g \in GroupsOf(f, id) :
        /\ g = Group(g.id, ModsOf(g.id))
        /\ \E r \in f.groups : r.id = g.id /\ r.dish = id
  <2>1. ASSUME NEW id, NEW g \in GroupsOf(f, id)
        PROVE  /\ g = Group(g.id, ModsOf(g.id))
               /\ \E r \in f.groups : r.id = g.id /\ r.dish = id
    <3>1. PICK r \in f.groups : r.dish = id /\ g = Group(r.id, ModsOf(r.id))
      BY <2>1 DEF GroupsOf
    <3>2. g.id = r.id
      BY <3>1 DEF Group
    <3>3. QED
      BY <3>1, <3>2
  <2>2. QED
    BY <2>1
<1>5. \A gid, hid : \A m \in ModsOf(gid) \cap ModsOf(hid) : gid = hid
  <2>1. ASSUME NEW gid, NEW hid, NEW m \in ModsOf(gid), m \in ModsOf(hid)
        PROVE  gid = hid
    <3>1. PICK q \in f.modifiers : q.group = gid /\ q.id = m
      OBVIOUS
    <3>2. PICK r \in f.modifiers : r.group = hid /\ r.id = m
      BY <2>1
    <3>3. QED
      BY <1>1, <3>1, <3>2
  <2>2. QED
    BY <2>1
<1>6. \A gid : ModsOf(gid) \subseteq STRING
  BY <1>2
<1> HIDE DEF ModsOf
<1>7. \A e \in T :
        /\ \A g \in e.groups : /\ g = Group(g.id, ModsOf(g.id)) /\ g.mods = ModsOf(g.id)
                               /\ \E r \in f.groups : r.id = g.id /\ r.dish = e.id
        /\ e = Dish(e.id, e.look, e.groups) /\ e.id \in STRING /\ e.look \in STRING
  <2>1. ASSUME NEW e \in T, NEW g \in e.groups
        PROVE  /\ g = Group(g.id, ModsOf(g.id)) /\ g.mods = ModsOf(g.id)
               /\ \E r \in f.groups : r.id = g.id /\ r.dish = e.id
    <3>1. PICK d \in f.dishes : e = Dish(d.id, d.look, GroupsOf(f, d.id))
      BY <1>3
    <3>2. e.id = d.id /\ e.groups = GroupsOf(f, d.id)
      BY <3>1 DEF Dish
    <3>3. g = Group(g.id, ModsOf(g.id)) /\ \E r \in f.groups : r.id = g.id /\ r.dish = e.id
      BY <1>4, <2>1, <3>2
    <3>4. g.mods = ModsOf(g.id)
      BY <3>3 DEF Group
    <3>5. QED
      BY <3>3, <3>4
  <2>2. ASSUME NEW e \in T
        PROVE  e = Dish(e.id, e.look, e.groups) /\ e.id \in STRING /\ e.look \in STRING
    <3>1. PICK d \in f.dishes : e = Dish(d.id, d.look, GroupsOf(f, d.id))
      BY <1>3
    <3>2. QED
      BY <1>2, <3>1 DEF Dish
  <2>3. QED
    BY <2>1, <2>2
<1>8. \A d, e \in T : d.id = e.id => d = e
  <2>1. ASSUME NEW d \in T, NEW e \in T, d.id = e.id PROVE d = e
    <3>1. PICK q \in f.dishes : d = Dish(q.id, q.look, GroupsOf(f, q.id))
      BY <1>3
    <3>2. PICK r \in f.dishes : e = Dish(r.id, r.look, GroupsOf(f, r.id))
      BY <1>3
    <3>3. q.id = r.id
      BY <2>1, <3>1, <3>2 DEF Dish
    <3>4. QED
      BY <1>1, <3>1, <3>2, <3>3
  <2>2. QED
    BY <2>1
<1>9. \A e \in T : DishOK(e)
  <2>1. ASSUME NEW e \in T PROVE DishOK(e)
    <3>1. \A g \in e.groups : g.id \in STRING /\ g.mods \subseteq STRING
      BY <1>2, <1>6, <1>7
    <3>2. \A g \in e.groups : g \in [id : STRING, mods : SUBSET STRING]
      BY <1>7, <3>1 DEF Group
    <3>3. e \in MenuDish
      BY <1>7, <3>2 DEF Dish, MenuDish
    <3>4. OwnIds(e)
      BY <1>5, <1>7 DEF OwnIds
    <3>5. \A g \in e.groups : PlatesOwn(e.id, g.id)
      BY <1>1, <1>7
    <3>6. QED
      BY <3>3, <3>4, <3>5 DEF DishOK
  <2>2. QED
    BY <2>1
<1>10. IsFiniteSet(T)
  <2> DEFINE made == [d \in f.dishes |-> Dish(d.id, d.look, GroupsOf(f, d.id))]
  <2>1. T = {made[d] : d \in f.dishes}
    BY LoadedRow
  <2>2. DOMAIN made = f.dishes /\ made = [d \in f.dishes |-> made[d]]
    OBVIOUS
  <2> HIDE DEF made, T
  <2>3. made \in Surjection(f.dishes, T)
    BY <2>1, <2>2 DEF Surjection
  <2>4. QED
    BY <1>1, <2>3, FS_Surjection
<1> HIDE DEF T
<1>11. /\ s \in Seq(T) /\ ToSet(s) = T
       /\ \A i, j \in 1..Len(s) : s[i] = s[j] => i = j
  BY <1>10, SeqOfSet
<1> HIDE DEF s
<1>12. /\ Len(s) \in Nat /\ DOMAIN s = 1..Len(s) /\ \A i \in 1..Len(s) : s[i] \in T
  BY <1>11
<1>13. MenuOK(s)
  <2>1. \A i \in 1..Len(s) : DishOK(s[i]) /\ s[i] \in MenuDish
    BY <1>9, <1>12 DEF DishOK
  <2>2. s \in Seq(MenuDish)
    BY <1>11, <1>12, <2>1
  <2>3. \A i, j \in 1..Len(s) : s[i].id = s[j].id => i = j
    BY <1>8, <1>11, <1>12
  <2>4. QED
    BY <2>1, <2>2, <2>3 DEF MenuOK
<1>14. \A i, j \in 1..Len(s) : \A g \in s[i].groups : \A h \in s[j].groups :
         g.id = h.id => i = j
  <2>1. ASSUME NEW i \in 1..Len(s), NEW j \in 1..Len(s), NEW g \in s[i].groups,
               NEW h \in s[j].groups, g.id = h.id
        PROVE  i = j
    <3>1. PICK q \in f.groups : q.id = g.id /\ q.dish = s[i].id
      BY <1>7, <1>12
    <3>2. PICK r \in f.groups : r.id = h.id /\ r.dish = s[j].id
      BY <1>7, <1>12
    <3>3. q = r
      BY <1>1, <2>1, <3>1, <3>2
    <3>4. QED
      BY <1>13, <3>1, <3>2, <3>3 DEF MenuOK
  <2>2. QED
    BY <2>1
<1>15. IdsAreUnique(s)
  <2>1. ASSUME NEW i \in 1..Len(s), NEW g \in s[i].groups
        PROVE  NewGroup(s, i, g.id) /\ \A m \in g.mods : NewModifier(s, i, m)
    <3>1. \A j \in 1..(i - 1) : j \in 1..Len(s) /\ j # i
      BY <1>12
    <3>2. NewGroup(s, i, g.id)
      BY <1>14, <3>1 DEF NewGroup
    <3>3. ASSUME NEW j \in 1..(i - 1), NEW h \in s[j].groups, NEW m \in g.mods, m \in h.mods
          PROVE  FALSE
      <4>1. g.mods = ModsOf(g.id) /\ h.mods = ModsOf(h.id)
        BY <1>7, <1>12, <3>1, <3>3
      <4>2. g.id = h.id
        BY <1>5, <3>3, <4>1
      <4>3. QED
        BY <1>14, <3>1, <3>3, <4>2
    <3>4. QED
      BY <3>2, <3>3 DEF NewModifier
  <2>2. QED
    BY <1>12, <2>1 DEF IdsAreUnique
<1>16. QED
  BY <1>11, <1>13, <1>15 DEF s, T


-----------------------------------------------------------------------------
(* The edits of the menu *)

LEMMA AddedDish ==
  ASSUME NEW items, MenuOK(items), NEW d, DishOK(d), d.id \notin DishIds(ToSet(items))
  PROVE  /\ MenuOK(WithDish(items, d))
         /\ Len(WithDish(items, d)) = Len(items) + 1
         /\ \A i \in 1..Len(items) : WithDish(items, d)[i] = items[i]
         /\ WithDish(items, d)[Len(items) + 1] = d
<1> DEFINE n == Len(items)
           s == WithDish(items, d)
<1>1. /\ items \in Seq(MenuDish) /\ d \in MenuDish /\ n \in Nat /\ DOMAIN items = 1..n
      /\ \A i \in 1..n : DishOK(items[i])
      /\ \A i, j \in 1..n : items[i].id = items[j].id => i = j
  BY MenuShape DEF MenuOK, DishOK
<1>2. /\ s \in Seq(MenuDish) /\ Len(s) = n + 1
      /\ \A i \in 1..n : s[i] = items[i]
      /\ s[n + 1] = d
  BY <1>1, AppendProperties DEF WithDish
<1>3. \A i \in 1..n : items[i].id # d.id
  BY <1>1 DEF DishIds, ToSet
<1> HIDE DEF s, n
<1>4. \A i \in 1..(n + 1) : i \in 1..n \/ i = n + 1
  BY <1>1
<1>5. MenuOK(s)
  BY <1>1, <1>2, <1>3, <1>4 DEF MenuOK
<1>6. QED
  BY <1>2, <1>5 DEF s, n

LEMMA ChangedDish ==
  ASSUME NEW items, MenuOK(items), NEW d, DishOK(d)
  PROVE  MenuOK(ReplacedDish(items, d))
<1> DEFINE n == Len(items)
           s == ReplacedDish(items, d)
<1>1. /\ n \in Nat /\ DOMAIN items = 1..n /\ d \in MenuDish
      /\ \A i \in 1..n : DishOK(items[i]) /\ items[i] \in MenuDish
      /\ \A i, j \in 1..n : items[i].id = items[j].id => i = j
  BY MenuShape DEF MenuOK, DishOK
<1>2. s = [i \in 1..n |-> IF items[i].id = d.id THEN d ELSE items[i]]
  BY <1>1 DEF ReplacedDish
<1> HIDE DEF s, n
<1>3. s \in Seq(MenuDish) /\ Len(s) = n
  BY <1>1, <1>2
<1>4. \A i \in 1..n : s[i].id = items[i].id /\ DishOK(s[i])
  BY <1>1, <1>2
<1>5. MenuOK(s)
  BY <1>1, <1>3, <1>4 DEF MenuOK
<1>6. QED
  BY <1>5 DEF s

LEMMA RemovedDish ==
  ASSUME NEW items, MenuOK(items), NEW id, id \in DishIds(ToSet(items))
  PROVE  MenuOK(WithoutDish(items, id))
<1> DEFINE n == Len(items)
           s == WithoutDish(items, id)
           I == {j \in 1..n : items[j].id = id}
<1>1. /\ n \in Nat /\ DOMAIN items = 1..n /\ items \in Seq(MenuDish)
      /\ \A i \in 1..n : DishOK(items[i]) /\ items[i] \in MenuDish
      /\ \A i, j \in 1..n : items[i].id = items[j].id => i = j
  BY MenuShape DEF MenuOK
<1>2. PICK k \in 1..n : items[k].id = id
  BY <1>1 DEF DishIds, ToSet
<1>3. I = {k}
  BY <1>1, <1>2
<1>4. Min(I) = k
  <2> HIDE DEF I
  <2>1. k \in Nat
    BY <1>1
  <2>2. QED
    BY <1>3, <2>1 DEF Min
<1>5. s = RemoveAt(items, k)
  <2>1. s = RemoveAt(items, IF I # {} THEN Min(I) ELSE 0)
    BY DEF WithoutDish, SelectInSeq
  <2>2. QED
    BY <1>3, <1>4, <2>1
<1> DEFINE before == SubSeq(items, 1, k - 1)
           after  == SubSeq(items, k + 1, n)
<1>6. s = before \o after
  BY <1>5 DEF RemoveAt
<1>7. before \in Seq(MenuDish) /\ Len(before) = k - 1 /\ \A i \in 1..(k - 1) : before[i] = items[i]
  BY <1>1, SubSeqProperties
<1>8. after \in Seq(MenuDish) /\ Len(after) = n - k /\ \A i \in 1..(n - k) : after[i] = items[i + k]
  <2>1. k + 1 \in Int /\ n \in Int /\ \A i \in (k + 1)..n : items[i] \in MenuDish
    BY <1>1
  <2>2. /\ after \in Seq(MenuDish)
        /\ Len(after) = IF k + 1 <= n THEN n - (k + 1) + 1 ELSE 0
        /\ \A i \in 1..(n - (k + 1) + 1) : after[i] = items[(k + 1) + i - 1]
    BY <2>1, SubSeqProperties
  <2> HIDE DEF after, n
  <2>3. n - (k + 1) + 1 = n - k /\ (k + 1 > n => n - k = 0)
    BY <1>1
  <2>4. \A i \in 1..(n - k) : (k + 1) + i - 1 = i + k
    BY <1>1
  <2>5. Len(after) = n - k
    BY <2>1, <2>2, <2>3
  <2>6. QED
    BY <2>2, <2>3, <2>4, <2>5
<1> HIDE DEF s, n, before, after
<1>9. s \in Seq(MenuDish) /\ Len(s) = (k - 1) + (n - k)
      /\ \A i \in 1..Len(s) : s[i] = IF i <= k - 1 THEN before[i] ELSE after[i - (k - 1)]
  BY <1>6, <1>7, <1>8, ConcatProperties
<1> DEFINE At(i) == IF i <= k - 1 THEN i ELSE i + 1
<1>10. /\ Len(s) = n - 1
       /\ \A i \in 1..(n - 1) : At(i) \in 1..n /\ s[i] = items[At(i)]
       /\ \A i, j \in 1..(n - 1) : At(i) = At(j) => i = j
  <2>1. n \in Nat /\ k \in Nat /\ 1 <= k /\ k <= n
    BY <1>1
  <2>2. Len(s) = n - 1
    BY <1>9, <2>1
  <2>3. \A i \in 1..(n - 1) : At(i) \in 1..n
    BY <2>1
  <2>4. ASSUME NEW i \in 1..(n - 1) PROVE s[i] = items[At(i)]
    <3>1. CASE i <= k - 1
      <4>1. i \in 1..(k - 1) /\ s[i] = before[i]
        BY <1>9, <2>2, <3>1
      <4>2. QED
        BY <1>7, <3>1, <4>1
    <3>2. CASE ~(i <= k - 1)
      <4>1. i - (k - 1) \in 1..(n - k) /\ i - (k - 1) + k = i + 1
        BY <2>1, <3>2
      <4>2. s[i] = after[i - (k - 1)]
        BY <1>9, <2>2, <3>2
      <4>3. QED
        BY <1>8, <3>2, <4>1, <4>2
    <3>3. QED
      BY <3>1, <3>2
  <2>5. \A i, j \in 1..(n - 1) : At(i) = At(j) => i = j
    BY <2>1
  <2>6. QED
    BY <2>2, <2>3, <2>4, <2>5
<1> HIDE DEF At
<1>11. MenuOK(s)
  BY <1>1, <1>9, <1>10 DEF MenuOK
<1>12. QED
  BY <1>11 DEF s


-----------------------------------------------------------------------------
(* The steps of main and of the admin screen *)

LEMMA DishesAreGood ==
  /\ MenuOK(DemoMenu) /\ IdsAreUnique(DemoMenu)
  /\ DishOK(Plate) /\ \A d \in Dishes : DishOK(d)
<1>1. /\ \A i \in 1..Len(DemoMenu) : DemoMenu[i] \in MenuDish /\ DemoMenu[i] \in ToSet(DemoMenu)
      /\ DOMAIN DemoMenu = 1..Len(DemoMenu)
  BY DishesAssumption DEF ToSet
<1>2. MenuOK(DemoMenu)
  BY <1>1, DishesAssumption, PlateAssumption DEF MenuOK, DishOK
<1>3. DishOK(Plate)
  BY DishesAssumption DEF DishOK, PlatesOwn
<1>4. \A d \in Dishes : DishOK(d)
  BY DishesAssumption, PlateAssumption DEF DishOK
<1>5. QED
  BY <1>2, <1>3, <1>4, DishesAssumption

\* A menu that is saved and then taken over: tables, memory and index have it.
LEMMA MenuSaved ==
  ASSUME FileInv, NEW items, MenuOK(items), file' = Saved(items)
  PROVE  /\ HasSaved(file', items) /\ TablesOK(file') /\ file'.seeded = file.seeded
         /\ IdsAreUnique(items) => LoadedMenu(file') = ToSet(items)
<1>1. HasSaved(file', items) /\ file'.seeded = file.seeded
  BY DEF FileInv, FileFields, Saved, HasSaved
<1>2. QED
  BY <1>1, SavedTables, SaveLoads

\* A step that changes no menu table.
LEMMA SameTables ==
  ASSUME NEW f, NEW g,
         g.dishes = f.dishes, g.groups = f.groups, g.modifiers = f.modifiers
  PROVE  (TablesOK(f) => TablesOK(g)) /\ LoadedMenu(g) = LoadedMenu(f)
BY DEF TablesOK, TablesAreKeyed, LoadedMenu

LEMMA EmptyMenu == MenuOK(<<>>) /\ ToSet(<<>>) = {}
BY DEF MenuOK, ToSet

LEMMA MenuInvInit == Init => MenuInv
<1> SUFFICES ASSUME Init PROVE MenuInv
  OBVIOUS
<1>1. TablesOK(file)
  BY OldFilesAssumption, PlateAssumption DEF Init, Files, TablesOK
<1>2. QED
  BY <1>1, EmptyMenu DEF Init, MenuInv

LEMMA EndsKeepsMenu ==
  ASSUME MenuInv, Ends
  PROVE  MenuInv'
BY EmptyMenu DEF Ends, MenuInv

\* A step that leaves tables, memory and index alone.
LEMMA MenuRests ==
  ASSUME MenuInv,
         file'.dishes = file.dishes, file'.groups = file.groups,
         file'.modifiers = file.modifiers, UNCHANGED <<menu, index>>,
         \/ phase' = phase \/ phase' \in {"down", "migrating"}
         \/ phase \in {"loaded", "seeded"} /\ phase' = "ensuring"
         \/ phase = "ensuring" /\ phase' = "building"
         \/ phase = "building" /\ phase' = "serving"
  PROVE  MenuInv'
<1>1. TablesOK(file') /\ LoadedMenu(file') = LoadedMenu(file)
  BY SameTables DEF MenuInv
<1>2. MenuOK(menu') /\ index' = ToSet(menu')
  BY DEF MenuInv
<1>3. QED
  BY <1>1, <1>2 DEF MenuInv

\* save_menu throws or the menu is taken over.
LEMMA EditKeepsMenu ==
  ASSUME FileInv, MenuInv, phase = "serving", UNCHANGED phase,
         NEW items, MenuOK(items), SaveThenAdopt(items)
  PROVE  MenuInv'
<1>1. CASE file' = Saved(items) /\ menu' = items /\ index' = ToSet(items)
  BY <1>1, MenuSaved DEF MenuInv
<1>2. CASE UNCHANGED <<file, menu, index>>
  BY <1>2, MenuRests
<1>3. QED
  BY <1>1, <1>2 DEF SaveThenAdopt

LEMMA EnsurePlateKeepsMenu == FileInv /\ MenuInv /\ EnsurePlate => MenuInv'
<1> SUFFICES ASSUME FileInv, MenuInv, EnsurePlate PROVE MenuInv'
  OBVIOUS
<1> DEFINE items == WithDish(menu, Plate)
<1>1. phase = "ensuring" /\ phase' = "building"
  BY DEF EnsurePlate, GoTo
<1>2. CASE UNCHANGED <<file, menu, index>>
  BY <1>1, <1>2, MenuRests
<1>3. CASE /\ Plate.id \notin DishIds(index)
           /\ file' = Saved(items) /\ menu' = items /\ index' = ToSet(items)
  <2>1. MenuOK(items)
    BY <1>3, AddedDish, DishesAreGood DEF MenuInv
  <2>2. QED
    BY <1>1, <1>3, <2>1, MenuSaved DEF MenuInv
<1>4. QED
  BY <1>2, <1>3 DEF EnsurePlate

LEMMA MenuInvNext == FileInv /\ MenuInv /\ [Next]_vars => MenuInv'
<1> SUFFICES ASSUME FileInv, MenuInv, [Next]_vars PROVE MenuInv'
  OBVIOUS
<1>1. CASE Migrate
  <2>1. /\ file'.dishes = file.dishes /\ file'.groups = file.groups
        /\ file'.modifiers = file.modifiers
    BY <1>1 DEF Migrate, Migrated, FileInv, FileFields
  <2>2. QED
    BY <1>1, <2>1, MenuRests DEF Migrate
<1>2. CASE LoadFile
  BY <1>2, LoadedShape DEF LoadFile, GoTo, MenuInv
<1>3. CASE SeedMenu
  BY <1>3, MenuSaved, DishesAreGood DEF SeedMenu, GoTo, MenuInv
<1>4. CASE RecordSeed
  <2>1. /\ file'.dishes = file.dishes /\ file'.groups = file.groups
        /\ file'.modifiers = file.modifiers
    BY <1>4 DEF RecordSeed, FileInv, FileFields
  <2>2. QED
    BY <1>4, <2>1, MenuRests DEF RecordSeed, GoTo
<1>5. CASE EnsurePlate
  BY <1>5, EnsurePlateKeepsMenu
<1>6. ASSUME NEW d \in Dishes, AddDish(d) PROVE MenuInv'
  <2>1. MenuOK(WithDish(menu, d))
    BY <1>6, AddedDish, DishesAreGood DEF AddDish, MenuInv
  <2>2. QED
    BY <1>6, <2>1, EditKeepsMenu DEF AddDish
<1>7. ASSUME NEW d \in Dishes, UpdateDish(d) PROVE MenuInv'
  <2>1. MenuOK(ReplacedDish(menu, d))
    BY <1>7, ChangedDish, DishesAreGood DEF MenuInv
  <2>2. QED
    BY <1>7, <2>1, EditKeepsMenu DEF UpdateDish
<1>8. ASSUME NEW d \in Dishes, DeleteDish(d.id) PROVE MenuInv'
  <2>1. MenuOK(WithoutDish(menu, d.id))
    BY <1>8, RemovedDish DEF DeleteDish, MenuInv
  <2>2. QED
    BY <1>8, <2>1, EditKeepsMenu DEF DeleteDish
<1>9. CASE MigrationRaises \/ StartFails \/ Killed
  BY <1>9, EndsKeepsMenu DEF MigrationRaises, StartFails, Killed
<1>10. CASE Boot \/ SkipSeed \/ Serve \/ SeedNotRecorded
  BY <1>10, MenuRests DEF Boot, SkipSeed, Serve, SeedNotRecorded, GoTo
<1>11. CASE UNCHANGED vars
  BY <1>11, MenuRests DEF vars
<1>12. QED
  BY <1>1, <1>2, <1>3, <1>4, <1>5, <1>6, <1>7, <1>8, <1>9, <1>10, <1>11
     DEF Next, MainStep

LEMMA AlwaysMenuInv == Spec => [](FileInv /\ MenuInv)
<1>1. Init => FileInv /\ MenuInv
  BY FileInvInit, MenuInvInit
<1>2. FileInv /\ MenuInv /\ [Next]_vars => (FileInv /\ MenuInv)'
  BY FileInvNext, MenuInvNext
<1>3. QED
  BY <1>1, <1>2, PTL DEF Spec

\* While the daemon serves, the tables give back the menu the registers are
\* shown, through any number of starts, edits, failed writes and kills
\* (save_menu, load_menu, add_menu_item, update_menu_item, delete_menu_item).
THEOREM MenuIsSafe == Spec => []MenuIsDurable
<1>1. MenuInv => MenuIsDurable
  BY DEF MenuInv, MenuIsDurable
<1>2. QED
  BY AlwaysMenuInv, <1>1, PTL


\* The plate comes at the end and has its own groups, so what the tables have
\* of the other dishes stays.
LEMMA PlateLeavesTheMenu ==
  ASSUME FileInv, MenuInv, phase = "ensuring", Plate.id \notin DishIds(index),
         file' = Saved(WithDish(menu, Plate))
  PROVE  /\ LoadedMenu(file) \subseteq LoadedMenu(file')
         /\ DishIds(LoadedMenu(file')) \subseteq DishIds(LoadedMenu(file)) \cup {Plate.id}
<1> DEFINE n == Len(menu)
           items == WithDish(menu, Plate)
<1>1. /\ MenuOK(menu) /\ IdsAreUnique(menu) /\ LoadedMenu(file) = ToSet(menu)
      /\ Plate.id \notin DishIds(ToSet(menu))
  BY DEF MenuInv
<1>2. /\ n \in Nat /\ DOMAIN menu = 1..n
      /\ \A i \in 1..n : DishOK(menu[i]) /\ menu[i] \in MenuDish /\ menu[i].id # Plate.id
  BY <1>1, MenuShape DEF DishIds, ToSet
<1>3. /\ MenuOK(items) /\ Len(items) = n + 1 /\ DOMAIN items = 1..(n + 1)
      /\ \A i \in 1..n : items[i] = menu[i]
      /\ items[n + 1] = Plate
  BY <1>1, AddedDish, DishesAreGood, MenuShape
<1>4. HasSaved(file', items)
  BY <1>3, MenuSaved
<1> HIDE DEF items, n
<1>5. \A j \in 1..(n + 1) : j \in 1..n \/ j = n + 1
  BY <1>2
<1>6. ASSUME NEW i \in 1..n
      PROVE  /\ Dish(menu[i].id, menu[i].look, GroupsOf(file', menu[i].id)) = menu[i]
             /\ [id |-> menu[i].id, look |-> menu[i].look] \in file'.dishes
  <2>1. i \in 1..(n + 1) /\ items[i] = menu[i] /\ \A j \in 1..(i - 1) : items[j] = menu[j]
    BY <1>2, <1>3
  <2>2. ASSUME NEW g \in menu[i].groups
        PROVE  NewGroup(menu, i, g.id) /\ \A m \in g.mods : NewModifier(menu, i, m)
    BY <1>1, <1>2 DEF IdsAreUnique
  <2>3. ASSUME NEW g \in items[i].groups
        PROVE  NewGroup(items, i, g.id) /\ \A m \in g.mods : NewModifier(items, i, m)
    BY <2>1, <2>2 DEF NewGroup, NewModifier
  <2>4. ASSUME NEW g \in items[i].groups, NEW j \in 1..(n + 1), NEW h \in items[j].groups,
               h.id = g.id
        PROVE  j = i
    <3>1. CASE j \in 1..n
      <4>1. h \in menu[j].groups /\ g \in menu[i].groups
        BY <1>3, <2>1, <3>1
      <4>2. NewGroup(menu, j, h.id) /\ NewGroup(menu, i, g.id)
        BY <1>1, <1>2, <3>1, <4>1 DEF IdsAreUnique
      <4>3. QED
        BY <1>1, <2>4, <3>1, <4>1, <4>2, NewInOneDish DEF n
    <3>2. CASE j = n + 1
      <4>1. h \in Plate.groups /\ PlatesOwn(menu[i].id, g.id)
        BY <1>2, <1>3, <2>1, <3>2 DEF DishOK
      <4>2. menu[i].id = Plate.id
        BY <2>4, <4>1 DEF PlatesOwn
      <4>3. QED
        BY <1>2, <4>2
    <3>3. QED
      BY <1>5, <3>1, <3>2
  <2>5. GroupsOf(file', items[i].id) = items[i].groups
    BY <1>3, <1>4, <2>1, <2>3, <2>4, GroupsComeBack
  <2>6. [id |-> items[i].id, look |-> items[i].look] \in file'.dishes
    BY <1>3, <1>4, <2>1, DishRows DEF HasSaved
  <2>7. QED
    BY <1>2, <2>1, <2>5, <2>6, DishShape
<1>7. \A i \in 1..n : menu[i] \in LoadedMenu(file')
  <2>1. ASSUME NEW i \in 1..n PROVE menu[i] \in LoadedMenu(file')
    <3>1. PICK d \in file'.dishes : d = [id |-> menu[i].id, look |-> menu[i].look]
      BY <1>6
    <3>2. d.id = menu[i].id /\ d.look = menu[i].look
      BY <3>1
    <3>3. Dish(d.id, d.look, GroupsOf(file', d.id)) = menu[i]
      BY <1>6, <3>2
    <3>4. QED
      BY <3>3, LoadedRow
  <2>2. QED
    BY <2>1
<1>8. \A e \in LoadedMenu(file') : e.id \in DishIds(ToSet(menu)) \cup {Plate.id}
  <2>1. ASSUME NEW e \in LoadedMenu(file')
        PROVE  e.id \in DishIds(ToSet(menu)) \cup {Plate.id}
    <3>1. PICK d \in file'.dishes : e = Dish(d.id, d.look, GroupsOf(file', d.id))
      BY LoadedRow
    <3>2. PICK j \in 1..(n + 1) : d = [id |-> items[j].id, look |-> items[j].look]
      BY <1>3, <1>4, DishRows DEF HasSaved
    <3>3. e.id = items[j].id
      BY <3>1, <3>2 DEF Dish
    <3>4. QED
      BY <1>2, <1>3, <1>5, <3>3 DEF DishIds, ToSet
  <2>2. QED
    BY <2>1
<1>9. ToSet(menu) \subseteq LoadedMenu(file')
  BY <1>2, <1>7 DEF ToSet
<1>10. QED
  BY <1>1, <1>8, <1>9 DEF DishIds

\* A start keeps the menu of the restaurant, whatever release wrote it, wherever
\* the process is killed and whichever write fails (main.cpp after the flag).
THEOREM StartsKeepMenus == Spec => MenuSurvivesStart
<1> DEFINE Step ==
      (phase # "serving" /\ file.seeded) =>
        /\ LoadedMenu(file) \subseteq LoadedMenu(file)'
        /\ DishIds(LoadedMenu(file)') \ DishIds(LoadedMenu(file)) \subseteq {Plate.id}
<1>1. FileInv /\ MenuInv /\ [Next]_vars => Step
  <2> SUFFICES ASSUME FileInv, MenuInv, [Next]_vars, phase # "serving", file.seeded
               PROVE  /\ LoadedMenu(file) \subseteq LoadedMenu(file')
                      /\ DishIds(LoadedMenu(file')) \ DishIds(LoadedMenu(file)) \subseteq {Plate.id}
    OBVIOUS
  <2>1. (/\ file'.dishes = file.dishes /\ file'.groups = file.groups
         /\ file'.modifiers = file.modifiers) => LoadedMenu(file') = LoadedMenu(file)
    BY SameTables
  <2>2. CASE Migrate
    BY <2>1, <2>2 DEF Migrate, Migrated, FileInv, FileFields
  <2>3. CASE RecordSeed
    BY <2>1, <2>3 DEF RecordSeed, FileInv, FileFields
  <2>4. CASE EnsurePlate
    BY <2>1, <2>4, PlateLeavesTheMenu DEF EnsurePlate
  <2>5. CASE UNCHANGED file
    BY <2>1, <2>5
  <2>6. QED
    BY <2>2, <2>3, <2>4, <2>5
       DEF Next, MainStep, Boot, MigrationRaises, LoadFile, SeedMenu, SkipSeed, Serve,
           SeedNotRecorded, StartFails, Killed, Ends, AddDish, UpdateDish, DeleteDish, vars
<1>2. Step => [Step]_vars
  OBVIOUS
<1>3. QED
  BY AlwaysMenuInv, <1>1, <1>2, PTL DEF Spec, MenuSurvivesStart
=============================================================================
