----------------------------- MODULE DaemonStart -----------------------------
(***************************************************************************)
(* vt_daemon from its start to its service: the Database constructor opens *)
(* the file and migrates it, main loads it, seeds the demo menu once and   *)
(* makes sure of one dish, and then the admin screen edits the menu.       *)
(*                                                                         *)
(* The file may have been left by any earlier release.  A migration is one *)
(* transaction; whatever main throws ends the process, and systemd starts  *)
(* it again (deploy/vt-daemon.service, Restart=always).                    *)
(***************************************************************************)
EXTENDS Menu

CONSTANTS
  OldFiles,    \* the files the first start may find
  DemoMenu,    \* the dishes main.cpp seeds
  Plate,       \* the Grande Combination Plate, id GCP01
  Dishes,      \* dishes the admin screen may save
  MaxDishes,   \* bound: dishes on the menu
  MaxCrashes,  \* bound: times the process is killed
  MaxFailures  \* bound: failures of SQLite or of the listening port

LatestVersion == 5
Versions == 0..LatestVersion

\* What migrate_to_1 ... migrate_to_5 add: the twelve tables, then columns.
Added == <<"tables", "cc_fee_cents", "report_totals", "group_id", "receipt_printed">>
SchemaOf(v) == {Added[i] : i \in 1..v}

\* The file: user_version, the schema, the menu tables, the modifiers of the
\* tickets sold so far (group "" before migration 4) and menu_seeded.
Files ==
  [version : Versions, schema : SUBSET {Added[i] : i \in 1..LatestVersion},
   dishes : SUBSET [id : STRING, look : STRING],
   groups : SUBSET [id : STRING, dish : STRING],
   modifiers : SUBSET [id : STRING, group : STRING],
   sold : SUBSET [id : STRING, group : STRING], seeded : BOOLEAN]

\* A file whose schema is that of its version.  Release 2.6.0 made the tables
\* and left the version at 0.
SchemaIsThatOfVersion(f) ==
  f.schema = SchemaOf(f.version) \/ (f.version = 0 /\ f.schema = SchemaOf(1))

\* The tables tell their rows apart by the id, their primary key.
Keyed(rows) == \A r, s \in rows : r.id = s.id => r = s
TablesAreKeyed(f) ==
  IsFiniteSet(f.dishes) /\ Keyed(f.dishes) /\ Keyed(f.groups) /\ Keyed(f.modifiers)

ASSUME OldFilesAssumption ==
  OldFiles \subseteq {f \in Files : SchemaIsThatOfVersion(f) /\ TablesAreKeyed(f)}

\* The demo is a menu with ids of its own; so is each dish by itself.
ASSUME DishesAssumption ==
  /\ DemoMenu \in Seq(MenuDish) /\ Plate \in MenuDish /\ Dishes \subseteq MenuDish
  /\ \A i, j \in DOMAIN DemoMenu : DemoMenu[i].id = DemoMenu[j].id => i = j
  /\ IdsAreUnique(DemoMenu)
  /\ \A d \in ToSet(DemoMenu) \cup Dishes \cup {Plate} : OwnIds(d)

\* Nobody gives another dish a group with an id of the plate's groups.
PlatesOwn(dish, gid) == gid \in {g.id : g \in Plate.groups} => dish = Plate.id

ASSUME PlateAssumption ==
  /\ \A d \in ToSet(DemoMenu) \cup Dishes : \A g \in d.groups : PlatesOwn(d.id, g.id)
  /\ \A f \in OldFiles : \A g \in f.groups : PlatesOwn(g.dish, g.id)

ASSUME StartBoundsAssumption ==
  MaxDishes \in Nat /\ MaxCrashes \in Nat /\ MaxFailures \in Nat

VARIABLES
  phase,     \* where main is
  file,      \* the database file
  menu,      \* menu_
  index,     \* menu_index_, as the set of its dishes
  crashes, failures

vars == <<phase, file, menu, index, crashes, failures>>

Starting == {"migrating", "loaded", "seeded", "ensuring", "building"}
Phases   == {"down", "serving"} \cup Starting

-----------------------------------------------------------------------------
GoTo(p) == phase' = p /\ UNCHANGED <<crashes, failures>>

\* The process ends and its memory with it.
Ends == phase' = "down" /\ menu' = <<>> /\ index' = {} /\ UNCHANGED file

\* systemd starts the daemon; sqlite3_open succeeds.
Boot ==
  /\ phase = "down"
  /\ GoTo("migrating")
  /\ UNCHANGED <<file, menu, index>>

\* migrate_to_4: every modifier sold gets the group the menu has it in now.
Orphans(f) == {s \in f.sold : s.group = "" /\ \A m \in f.modifiers : m.id # s.id}
Backfilled(f) ==
  {s \in f.sold : s.group # ""} \cup
  {m \in f.modifiers : [id |-> m.id, group |-> ""] \in f.sold}

\* A migration raises when its column is there already (ALTER TABLE), and
\* migrate_to_4 when its subquery finds no group for a modifier: the column is
\* NOT NULL.
Raises(f) ==
  LET v == f.version + 1 IN
  \/ v > 1 /\ Added[v] \in f.schema
  \/ v = 4 /\ Orphans(f) # {}

\* Mutant of Migrated: the version is that of the last migration at once.
MigratedToLatest(f) ==
  [f EXCEPT !.version = LatestVersion, !.schema = @ \cup {Added[f.version + 1]},
            !.sold = IF f.version + 1 = 4 THEN Backfilled(f) ELSE @]

\* The file after the next migration, its version set in the same transaction.
Migrated(f) ==
  LET v == f.version + 1 IN
  [f EXCEPT !.version = v, !.schema = @ \cup {Added[v]},
            !.sold = IF v = 4 THEN Backfilled(f) ELSE @]

\* Mutant of Migrate: set_user_version is forgotten.
MigrateWithoutVersion ==
  /\ phase = "migrating" /\ file.version < LatestVersion
  /\ ~Raises(file)
  /\ file' = [Migrated(file) EXCEPT !.version = file.version]
  /\ UNCHANGED <<phase, menu, index, crashes, failures>>

Migrate ==
  /\ phase = "migrating" /\ file.version < LatestVersion
  /\ ~Raises(file)
  /\ file' = Migrated(file)
  /\ UNCHANGED <<phase, menu, index, crashes, failures>>

\* The transaction is rolled back and main does not catch.
MigrationRaises ==
  /\ phase = "migrating" /\ file.version < LatestVersion
  /\ Raises(file)
  /\ Ends
  /\ UNCHANGED <<crashes, failures>>

\* load_from_database.  A saved menu that is empty is not taken over: nothing
\* is in memory yet either.  The order of the rows (category, name) decides
\* nothing here: no two rows share an id.
LoadFile ==
  /\ phase = "migrating" /\ file.version = LatestVersion
  /\ menu' = SetToSeq(LoadedMenu(file))
  /\ index' = LoadedMenu(file)
  /\ GoTo("loaded")
  /\ UNCHANGED file

Saved(items) ==
  [file EXCEPT !.dishes = SavedDishes(items), !.groups = SavedGroups(items),
               !.modifiers = SavedModifiers(items)]

\* Mutant of SeedMenu: the demo is seeded whenever the menu is empty.
SeedEmptyMenu ==
  /\ phase = "loaded" /\ menu = <<>>
  /\ menu' = DemoMenu /\ index' = ToSet(DemoMenu)
  /\ file' = Saved(DemoMenu)
  /\ GoTo("seeded")

\* load_menu with the demo: in memory and then in the tables.
SeedMenu ==
  /\ phase = "loaded" /\ ~file.seeded
  /\ menu' = DemoMenu /\ index' = ToSet(DemoMenu)
  /\ file' = Saved(DemoMenu)
  /\ GoTo("seeded")

SkipSeed ==
  /\ phase = "loaded" /\ file.seeded
  /\ GoTo("ensuring")
  /\ UNCHANGED <<file, menu, index>>

\* save_setting ignores what sqlite3_step returns.
RecordSeed ==
  /\ phase = "seeded"
  /\ GoTo("ensuring")
  /\ file' = [file EXCEPT !.seeded = TRUE]
  /\ UNCHANGED <<menu, index>>
SeedNotRecorded ==
  /\ phase = "seeded" /\ failures < MaxFailures
  /\ phase' = "ensuring" /\ failures' = failures + 1
  /\ UNCHANGED <<file, menu, index, crashes>>

\* save_menu first; when it throws the memory is as it was.
SaveThenAdopt(items) ==
  \/ /\ file' = Saved(items) /\ menu' = items /\ index' = ToSet(items)
     /\ UNCHANGED failures
  \/ /\ failures < MaxFailures /\ failures' = failures + 1
     /\ UNCHANGED <<file, menu, index>>

\* find_menu_item asks the index; add_menu_item saves the longer menu.
EnsurePlate ==
  /\ phase = "ensuring"
  /\ GoTo("building")
  /\ IF Plate.id \in DishIds(index)
     THEN UNCHANGED <<file, menu, index>>
     ELSE LET items == WithDish(menu, Plate) IN
          file' = Saved(items) /\ menu' = items /\ index' = ToSet(items)

\* BuildAndStart succeeds; Wait is called.
Serve ==
  /\ phase = "building"
  /\ GoTo("serving")
  /\ UNCHANGED <<file, menu, index>>

\* An exception of SQLite in the constructor or in main, or a port that cannot
\* be bound: nothing is committed and the process ends.
StartFails ==
  /\ phase \in Starting \ {"seeded"} /\ failures < MaxFailures
  /\ Ends
  /\ failures' = failures + 1 /\ UNCHANGED crashes

Killed ==
  /\ phase # "down" /\ crashes < MaxCrashes
  /\ Ends
  /\ crashes' = crashes + 1 /\ UNCHANGED failures

-----------------------------------------------------------------------------
(* The admin screen's RPCs *)

AddDish(d) ==
  /\ phase = "serving" /\ d.id \notin DishIds(index) /\ Len(menu) < MaxDishes
  /\ SaveThenAdopt(WithDish(menu, d))
  /\ UNCHANGED <<phase, crashes>>

\* Mutant of UpdateDish: memory is changed before the tables are.
UpdateDishInMemoryFirst(d) ==
  /\ phase = "serving" /\ d.id \in DishIds(index)
  /\ LET items == ReplacedDish(menu, d) IN
     /\ menu' = items /\ index' = ToSet(items)
     /\ \/ file' = Saved(items) /\ UNCHANGED failures
        \/ failures < MaxFailures /\ failures' = failures + 1 /\ UNCHANGED file
  /\ UNCHANGED <<phase, crashes>>

UpdateDish(d) ==
  /\ phase = "serving" /\ d.id \in DishIds(index)
  /\ SaveThenAdopt(ReplacedDish(menu, d))
  /\ UNCHANGED <<phase, crashes>>

DeleteDish(id) ==
  /\ phase = "serving" /\ id \in DishIds(index)
  /\ SaveThenAdopt(WithoutDish(menu, id))
  /\ UNCHANGED <<phase, crashes>>

-----------------------------------------------------------------------------
Init ==
  /\ phase = "down" /\ file \in OldFiles
  /\ menu = <<>> /\ index = {} /\ crashes = 0 /\ failures = 0

\* main, one statement after the other.
MainStep ==
  \/ Boot \/ Migrate \/ MigrationRaises \/ LoadFile \/ SeedMenu \/ SkipSeed
  \/ RecordSeed \/ EnsurePlate \/ Serve

Next ==
  \/ MainStep \/ SeedNotRecorded \/ StartFails \/ Killed
  \/ \E d \in Dishes : AddDish(d) \/ UpdateDish(d) \/ DeleteDish(d.id)

\* main is a thread that runs, and systemd starts a daemon that ended.
Spec == Init /\ [][Next]_vars /\ WF_vars(MainStep)

-----------------------------------------------------------------------------
(* Properties *)

\* The schema on disk is at every moment the one its version names, whatever
\* release left the file and wherever the process is killed: migrations start
\* where the last good one ended and never meet their own column.
SchemaMatchesVersion == SchemaIsThatOfVersion(file)

\* While the daemon serves and no two dishes share the id of a group or of a
\* modifier, the tables give back the menu the registers are shown, and the
\* index that looks dishes up agrees with both, failed writes included.
MenuIsDurable ==
  (phase = "serving" /\ IdsAreUnique(menu)) =>
     LoadedMenu(file) = ToSet(menu) /\ index = ToSet(menu)

\* Once menu_seeded is in the file, what main does before it serves keeps each
\* dish of the menu as the restaurant saved it and adds at most the plate.
MenuSurvivesStart ==
  [][(phase # "serving" /\ file.seeded) =>
        /\ LoadedMenu(file) \subseteq LoadedMenu(file)'
        /\ DishIds(LoadedMenu(file)') \ DishIds(LoadedMenu(file)) \subseteq {Plate.id}]_vars

\* A daemon that is down serves again: no kill and no passing failure leaves it
\* unable to start, on a file of any release, as long as every modifier that
\* migrate_to_4 has to look up is on the menu.
DaemonComesBack ==
  (phase = "down" /\ Orphans(file) = {}) ~> (phase = "serving")

\* CHANGELOG 100, "safe incremental upgrades across any number of releases":
\* on the file of any earlier release the daemon serves in the end.
UpgradesAreSafe == (phase = "down") ~> (phase = "serving")

\* main.cpp:76, "Seed demo menu only on first run": a start takes no dish off
\* a menu that a restaurant has saved.
StartKeepsTheMenu ==
  [][phase # "serving" => DishIds(file.dishes) \subseteq DishIds(file'.dishes)]_vars
=============================================================================
