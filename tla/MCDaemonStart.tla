---------------------------- MODULE MCDaemonStart ----------------------------
(***************************************************************************)
(* The start of the daemon on files of every release, with a demo menu of  *)
(* one dish and an admin who saves three more: two looks of one, and one   *)
(* whose group and modifier have the ids of the other's.                   *)
(***************************************************************************)
EXTENDS DaemonStart

Soup     == Dish("SOUP", "soup", {Group("MG1", {"MOD1"})})
ThinSoup == Dish("SOUP", "thin soup", {Group("MG1", {"MOD1", "MOD2"})})
Stew     == Dish("STEW", "stew", {Group("MG1", {"MOD1"})})
Combo    == Dish("GCP01", "plate", {Group("GCP1_ITEM", {"GCP1_ENC"})})
Demo     == <<Dish("D1", "demo", {Group("D1_G", {"D1_M"})})>>

AdminDishes == {Soup, ThinSoup, Stew, Combo}

EmptyFile ==
  [version |-> 0, schema |-> {}, dishes |-> {}, groups |-> {}, modifiers |-> {},
   sold |-> {}, seeded |-> FALSE]

\* A file of an earlier release with soup on its menu and one modifier sold.
FileOf(v, schema, sold, seeded) ==
  [version |-> v, schema |-> SchemaOf(schema),
   dishes |-> SavedDishes(<<Soup>>), groups |-> SavedGroups(<<Soup>>),
   modifiers |-> SavedModifiers(<<Soup>>),
   sold |-> {[id |-> sold, group |-> IF v < 4 THEN "" ELSE "MG1"]},
   seeded |-> seeded]

\* Releases up to 2.7.1 wrote no menu_seeded and schema 1 at most.
UnflaggedFiles == {FileOf(0, 1, "MOD1", FALSE), FileOf(1, 1, "MOD1", FALSE)}
FlaggedFiles   == {FileOf(v, v, "MOD1", TRUE) : v \in 1..LatestVersion}

\* Every modifier that was sold is still on the menu, or the file is past the
\* migration that looks for it.
KeptFiles == {EmptyFile, FileOf(5, 5, "MOD9", TRUE)} \cup UnflaggedFiles \cup FlaggedFiles

\* A modifier was taken off the menu after it had been sold.
OrphanFiles == {FileOf(v, v, "MOD9", TRUE) : v \in 1..3}
AllFiles == KeptFiles \cup OrphanFiles
=============================================================================
