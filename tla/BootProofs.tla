------------------------------ MODULE BootProofs ------------------------------
(***************************************************************************)
(* For every number of processes, tables and deaths: a process that serves *)
(* has the tables and the version of its code, an admin whose password was *)
(* shown, and recipes whose tools exist; one that was alone serves all of  *)
(* the demo content, and ensure_demo_relationships repairs it.             *)
(***************************************************************************)
EXTENDS MCBoot, FiniteSetTheorems, TLAPS

Steps == {"down", "failed", "version", "ddl", "servers", "seed", "admin",
          "announce", "insert", "up", "ensure", "error"}

(* The relationships of a demo server.                                      *)
JoinsOf(slug) ==
  {<<"rel", slug, Named(slug).joins[i].name, Named(slug).joins[i].name>> :
     i \in DOMAIN Named(slug).joins}

Joins == UNION {JoinsOf(slug) : slug \in Slugs}

Types ==
  /\ tables \in 0 .. Tables /\ versions \in {<<>>, <<Old>>, <<Version>>}
  /\ crashes \in 0 .. MaxCrashes /\ deletes \in Nat /\ edits \in Nat
  /\ IsFiniteSet(announced)
  /\ step \in [Processes -> Steps] /\ at \in [Processes -> Nat]
  /\ password \in [Processes -> Nat \cup {Nobody, Configured}]
  /\ missing \in [Processes -> SUBSET Joins]


(* What a process remembers at each step (TypeOK).                          *)
Form(p) ==
  /\ at[p] > 0 => step[p] \in {"ddl", "seed", "down", "failed"}
  /\ (password[p] # Nobody) = (step[p] \in {"announce", "insert"})
  /\ missing[p] # {} => step[p] = "ensure"

Forms == \A p \in Processes : Form(p)

(* The version is written after the tables, by whoever finished them first. *)
Migrated == {"servers", "seed", "admin", "announce", "insert", "up", "ensure", "error"}

Migration ==
  /\ versions = <<Version>> => tables = Tables
  /\ \A p \in Processes : step[p] = "ddl" => at[p] <= tables
  /\ \A p \in Processes : step[p] \in Migrated => versions = <<Version>>

Passwords ==
  /\ AdminKnown
  /\ \A p \in Processes : step[p] = "insert" => password[p] \in {Configured} \cup announced

(* What is there while a process seeds, and what every item is like.        *)
JoinsOnce ==
  \A x, y \in content :
    x[1] = "rel" /\ y[1] = "rel" /\ x[2] = y[2] /\ x[4] = y[4] /\ x[4] # Changed => x = y

Items ==
  /\ LinksResolve
  /\ \A x \in content : x[1] = "rel" => x[2] \in Slugs
  /\ DemoRowsSound
  /\ JoinsOnce

Seeding == \A p \in Processes : step[p] = "seed" => \A i \in 1 .. at[p] : Script[i] \in content

IInv == Types /\ Forms /\ Migration /\ Passwords /\ Items /\ Seeding

-------------------------------------------------------------------------------

LEMMA InitIInv == Init => IInv
<1> SUFFICES ASSUME Init
             PROVE  IInv
  OBVIOUS
<1>1. Types
  <2>1. tables \in 0 .. Tables /\ versions \in {<<>>, <<Old>>, <<Version>>}
    BY BootAssumption DEF Init
  <2>2. announced = {} /\ IsFiniteSet({})
    BY FS_EmptySet DEF Init
  <2>3. QED
    BY <2>1, <2>2, BootAssumption DEF Init, Types, Steps
<1>2. Forms
  BY BootAssumption DEF Init, Forms, Form
<1>3. Migration
  BY BootAssumption DEF Init, Migration, Migrated
<1>4. Passwords /\ Items /\ Seeding
  BY DEF Init, Passwords, AdminKnown, Items, Seeding, LinksResolve, DemoRowsSound, JoinsOnce
<1>5. QED
  BY <1>1, <1>2, <1>3, <1>4 DEF IInv

-------------------------------------------------------------------------------
(* What an admin does, and what it leaves alone.                            *)
Administers ==
  \/ \E slug \in Slugs : DeleteServer(slug)
  \/ \E x \in content : DeleteRelationship(x)
  \/ \E x \in content : \E name, join : join \in {Changed, x[4]} /\ EditRelationship(x, name, join)

LEMMA Frame ==
  ASSUME Administers
  PROVE  /\ UNCHANGED <<tables, versions, admin, announced, step, at, password, missing, crashes>>
         /\ deletes' \in {deletes, deletes + 1} /\ edits' \in {edits, edits + 1}
         /\ Quiet
BY Zenon DEF Administers, DeleteServer, DeleteRelationship, EditRelationship, Changes

LEMMA Kinds ==
  ASSUME NEW p \in Processes, Serves(p)
  PROVE  EnsureBegin(p) \/ (step[p] = "up" /\ Administers)
<1>1. CASE EnsureBegin(p)
  BY <1>1
<1>2. CASE step[p] = "up" /\ ~EnsureBegin(p)
  <2>1. CASE \E slug \in Slugs : DeleteServer(slug)
    BY <1>2, <2>1 DEF Administers
  <2>2. CASE \E x \in content : DeleteRelationship(x)
    BY <1>2, <2>2 DEF Administers
  <2>3. CASE \E x \in {y \in content : y[1] = "rel"} :
               \E name \in {"mine", x[3]}, join \in {Changed, x[4]} : EditRelationship(x, name, join)
    <3>1. PICK x \in content : \E name \in {"mine", x[3]}, join \in {Changed, x[4]} :
                                EditRelationship(x, name, join)
      BY <2>3
    <3>2. PICK name \in {"mine", x[3]}, join \in {Changed, x[4]} : EditRelationship(x, name, join)
      BY <3>1
    <3>3. QED
      BY <1>2, <3>2, Zenon DEF Administers
  <2>4. QED
    BY <1>2, <2>1, <2>2, <2>3, Zenon DEF Serves
<1>3. QED
  BY <1>1, <1>2, Zenon DEF Serves

(* Only the process that steps changes its step and what it remembers.      *)
LEMMA MissingJoins == \A slug \in Slugs : Missing(slug) \subseteq Joins
BY DEF Missing, Expected, Joins, JoinsOf

LEMMA TypesStep ==
  ASSUME Types, Next
  PROVE  Types'
<1> USE BootAssumption
<1>1. ASSUME NEW p \in Processes, Boots(p)
      PROVE  Types'
  <2>1. CASE Start(p)
    BY <2>1 DEF Start, Types, Steps, Goto, Bounds, db
  <2>2. CASE ReadVersion(p)
    BY <2>2 DEF ReadVersion, Types, Steps, Goto, Bounds, db
  <2>3. CASE CreateTable(p)
    BY <2>3 DEF CreateTable, Types, Steps, Goto, Bounds, db
  <2>4. CASE MarkVersion(p)
    BY <2>4 DEF MarkVersion, Marked, TablesDone, Types, Steps, Goto, Bounds, db
  <2>5. CASE CheckEmpty(p)
    BY <2>5 DEF CheckEmpty, Types, Steps, Goto, Bounds, db
  <2>6. CASE SeedItem(p)
    BY <2>6, SMTT(20) DEF SeedItem, Types, Steps, Goto, Bounds, db
  <2>7. CASE Seeded(p)
    BY <2>7 DEF Seeded, Types, Steps, Goto, Bounds, db
  <2>8. CASE CheckAdmin(p)
    <3>1. Cardinality(announced) + 1 \in Nat
      BY FS_CardinalityType DEF Types
    <3>2. QED
      BY <2>8, <3>1 DEF CheckAdmin, Skips, Types, Steps, Goto, Bounds, db
  <2>9. CASE Announce(p)
    <3>1. IsFiniteSet(announced')
      <4>1. IsFiniteSet({password[p]} \ {Configured})
        BY FS_Difference, FS_Singleton
      <4>2. QED
        BY <2>9, <4>1, FS_Union DEF Announce, Announced, Types
    <3>2. QED
      BY <2>9, <3>1 DEF Announce, Types, Steps, Goto, Bounds, db
  <2>10. CASE InsertAdmin(p)
    BY <2>10 DEF InsertAdmin, Types, Steps, Goto, Bounds, db
  <2>11. QED
    BY <1>1, <2>1, <2>2, <2>3, <2>4, <2>5, <2>6, <2>7, <2>8, <2>9, <2>10 DEF Boots
<1>2. ASSUME NEW p \in Processes, Crash(p)
      PROVE  Types'
  BY <1>2 DEF Crash, Types, Steps, Goto, Bounds, db
<1>3. ASSUME NEW p \in Processes, EnsureBegin(p)
      PROVE  Types'
  BY <1>3, MissingJoins DEF EnsureBegin, Types, Steps, Goto, Bounds, db
<1>4. ASSUME NEW p \in Processes, EnsureWrite(p)
      PROVE  Types'
  BY <1>4 DEF EnsureWrite, Types, Steps, Goto, Bounds, db
<1>5. ASSUME NEW p \in Processes, Answer(p)
      PROVE  Types'
  BY <1>5 DEF Answer, Types, Steps, Goto, Bounds, db
<1>6. CASE Administers
  BY <1>6, Frame DEF Types
<1>7. QED
  BY <1>1, <1>2, <1>3, <1>4, <1>5, <1>6, Kinds DEF Next

LEMMA FormsStep ==
  ASSUME Types, Forms, Next
  PROVE  Forms'
<1> USE BootAssumption
<1>1. ASSUME NEW p \in Processes, Boots(p)
      PROVE  Forms'
  <2>1. CASE Start(p)
    BY <2>1 DEF Start, Types, Forms, Form, Steps, Goto, Bounds, db
  <2>2. CASE ReadVersion(p)
    BY <2>2 DEF ReadVersion, Types, Forms, Form, Steps, Goto, Bounds, db
  <2>3. CASE CreateTable(p)
    BY <2>3 DEF CreateTable, Types, Forms, Form, Steps, Goto, Bounds, db
  <2>4. CASE MarkVersion(p)
    BY <2>4 DEF MarkVersion, Marked, TablesDone, Types, Forms, Form, Steps, Goto, Bounds, db
  <2>5. CASE CheckEmpty(p)
    BY <2>5 DEF CheckEmpty, Types, Forms, Form, Steps, Goto, Bounds, db
  <2>6. CASE SeedItem(p)
    <3>1. step[p] = "seed" /\ UNCHANGED <<password, missing>>
      BY <2>6 DEF SeedItem
    <3>2. \/ step' = step /\ at' = [at EXCEPT ![p] = @ + 1]
          \/ step' = [step EXCEPT ![p] = "failed"] /\ at' = at
      BY <2>6 DEF SeedItem, Goto
    <3>3. QED
      BY <3>1, <3>2 DEF Types, Forms, Form, Steps
  <2>7. CASE Seeded(p)
    BY <2>7 DEF Seeded, Types, Forms, Form, Steps, Goto, Bounds, db
  <2>8. CASE CheckAdmin(p)
    <3>1. Cardinality(announced) + 1 \in Nat
      BY FS_CardinalityType DEF Types
    <3>2. CASE Skips
      BY <2>8, <3>2 DEF CheckAdmin, Types, Forms, Form, Steps, Goto, Bounds, db
    <3>3. CASE ~Skips
      BY <2>8, <3>1, <3>3 DEF CheckAdmin, Types, Forms, Form, Steps, Goto, Bounds, db
    <3>4. QED
      BY <3>2, <3>3
  <2>9. CASE Announce(p)
    BY <2>9 DEF Announce, Announced, Types, Forms, Form, Steps, Goto, Bounds, db
  <2>10. CASE InsertAdmin(p)
    BY <2>10 DEF InsertAdmin, Types, Forms, Form, Steps, Goto, Bounds, db
  <2>11. QED
    BY <1>1, <2>1, <2>2, <2>3, <2>4, <2>5, <2>6, <2>7, <2>8, <2>9, <2>10 DEF Boots
<1>2. ASSUME NEW p \in Processes, Crash(p)
      PROVE  Forms'
  BY <1>2 DEF Crash, Types, Forms, Form, Steps, Goto, Bounds, db
<1>3. ASSUME NEW p \in Processes, EnsureBegin(p)
      PROVE  Forms'
  BY <1>3 DEF EnsureBegin, Types, Forms, Form, Steps, Goto, Bounds, db
<1>4. ASSUME NEW p \in Processes, EnsureWrite(p)
      PROVE  Forms'
  BY <1>4 DEF EnsureWrite, Types, Forms, Form, Steps, Goto, Bounds, db
<1>5. ASSUME NEW p \in Processes, Answer(p)
      PROVE  Forms'
  BY <1>5 DEF Answer, Types, Forms, Form, Steps, Goto, Bounds, db
<1>6. CASE Administers
  BY <1>6, Frame DEF Forms, Form
<1>7. QED
  BY <1>1, <1>2, <1>3, <1>4, <1>5, <1>6, Kinds DEF Next

LEMMA MigrationStep ==
  ASSUME Types, Forms, Migration, Next
  PROVE  Migration'
<1> USE BootAssumption
<1>1. ASSUME NEW p \in Processes, Boots(p)
      PROVE  Migration'
  <2>1. CASE Start(p)
    BY <2>1 DEF Start, Types, Forms, Form, Migration, Migrated, Steps, Goto, Bounds, db
  <2>2. CASE ReadVersion(p)
    BY <2>2 DEF ReadVersion, Types, Forms, Form, Migration, Migrated, Steps, Goto, Bounds, db
  <2>3. CASE CreateTable(p)
    BY <2>3 DEF CreateTable, Types, Forms, Form, Migration, Migrated, Steps, Goto, Bounds, db
  <2>4. CASE MarkVersion(p)
    BY <2>4 DEF MarkVersion, Marked, TablesDone, Types, Forms, Form, Migration, Migrated, Steps, Goto, Bounds, db
  <2>5. CASE CheckEmpty(p)
    BY <2>5 DEF CheckEmpty, Types, Forms, Form, Migration, Migrated, Steps, Goto, Bounds, db
  <2>6. CASE SeedItem(p)
    BY <2>6 DEF SeedItem, Types, Forms, Form, Migration, Migrated, Steps, Goto, Bounds, db
  <2>7. CASE Seeded(p)
    BY <2>7 DEF Seeded, Types, Forms, Form, Migration, Migrated, Steps, Goto, Bounds, db
  <2>8. CASE CheckAdmin(p)
    BY <2>8 DEF CheckAdmin, Skips, Types, Forms, Form, Migration, Migrated, Steps, Goto, Bounds, db
  <2>9. CASE Announce(p)
    BY <2>9 DEF Announce, Announced, Types, Forms, Form, Migration, Migrated, Steps, Goto, Bounds, db
  <2>10. CASE InsertAdmin(p)
    BY <2>10 DEF InsertAdmin, Types, Forms, Form, Migration, Migrated, Steps, Goto, Bounds, db
  <2>11. QED
    BY <1>1, <2>1, <2>2, <2>3, <2>4, <2>5, <2>6, <2>7, <2>8, <2>9, <2>10 DEF Boots
<1>2. ASSUME NEW p \in Processes, Crash(p)
      PROVE  Migration'
  BY <1>2 DEF Crash, Types, Forms, Form, Migration, Migrated, Steps, Goto, Bounds, db
<1>3. ASSUME NEW p \in Processes, EnsureBegin(p)
      PROVE  Migration'
  BY <1>3 DEF EnsureBegin, Types, Forms, Form, Migration, Migrated, Steps, Goto, Bounds, db
<1>4. ASSUME NEW p \in Processes, EnsureWrite(p)
      PROVE  Migration'
  BY <1>4 DEF EnsureWrite, Types, Forms, Form, Migration, Migrated, Steps, Goto, Bounds, db
<1>5. ASSUME NEW p \in Processes, Answer(p)
      PROVE  Migration'
  BY <1>5 DEF Answer, Types, Forms, Form, Migration, Migrated, Steps, Goto, Bounds, db
<1>6. CASE Administers
  BY <1>6, Frame DEF Migration
<1>7. QED
  BY <1>1, <1>2, <1>3, <1>4, <1>5, <1>6, Kinds DEF Next

LEMMA PasswordsStep ==
  ASSUME Types, Forms, Passwords, Next
  PROVE  Passwords'
<1> USE BootAssumption
<1>1. ASSUME NEW p \in Processes, Boots(p)
      PROVE  Passwords'
  <2>1. CASE Start(p)
    BY <2>1 DEF Start, Types, Forms, Form, Passwords, AdminKnown, Steps, Goto, Bounds, db
  <2>2. CASE ReadVersion(p)
    BY <2>2 DEF ReadVersion, Types, Forms, Form, Passwords, AdminKnown, Steps, Goto, Bounds, db
  <2>3. CASE CreateTable(p)
    BY <2>3 DEF CreateTable, Types, Forms, Form, Passwords, AdminKnown, Steps, Goto, Bounds, db
  <2>4. CASE MarkVersion(p)
    BY <2>4 DEF MarkVersion, Marked, TablesDone, Types, Forms, Form, Passwords, AdminKnown, Steps, Goto, Bounds, db
  <2>5. CASE CheckEmpty(p)
    BY <2>5 DEF CheckEmpty, Types, Forms, Form, Passwords, AdminKnown, Steps, Goto, Bounds, db
  <2>6. CASE SeedItem(p)
    BY <2>6 DEF SeedItem, Types, Forms, Form, Passwords, AdminKnown, Steps, Goto, Bounds, db
  <2>7. CASE Seeded(p)
    BY <2>7 DEF Seeded, Types, Forms, Form, Passwords, AdminKnown, Steps, Goto, Bounds, db
  <2>8. CASE CheckAdmin(p)
    BY <2>8 DEF CheckAdmin, Skips, Types, Forms, Form, Passwords, AdminKnown, Steps, Goto, Bounds, db
  <2>9. CASE Announce(p)
    BY <2>9 DEF Announce, Announced, Types, Forms, Form, Passwords, AdminKnown, Steps, Goto, Bounds, db
  <2>10. CASE InsertAdmin(p)
    BY <2>10 DEF InsertAdmin, Types, Forms, Form, Passwords, AdminKnown, Steps, Goto, Bounds, db
  <2>11. QED
    BY <1>1, <2>1, <2>2, <2>3, <2>4, <2>5, <2>6, <2>7, <2>8, <2>9, <2>10 DEF Boots
<1>2. ASSUME NEW p \in Processes, Crash(p)
      PROVE  Passwords'
  BY <1>2 DEF Crash, Types, Forms, Form, Passwords, AdminKnown, Steps, Goto, Bounds, db
<1>3. ASSUME NEW p \in Processes, EnsureBegin(p)
      PROVE  Passwords'
  BY <1>3 DEF EnsureBegin, Types, Forms, Form, Passwords, AdminKnown, Steps, Goto, Bounds, db
<1>4. ASSUME NEW p \in Processes, EnsureWrite(p)
      PROVE  Passwords'
  BY <1>4 DEF EnsureWrite, Types, Forms, Form, Passwords, AdminKnown, Steps, Goto, Bounds, db
<1>5. ASSUME NEW p \in Processes, Answer(p)
      PROVE  Passwords'
  BY <1>5 DEF Answer, Types, Forms, Form, Passwords, AdminKnown, Steps, Goto, Bounds, db
<1>6. CASE Administers
  BY <1>6, Frame DEF Passwords, AdminKnown
<1>7. QED
  BY <1>1, <1>2, <1>3, <1>4, <1>5, <1>6, Kinds DEF Next

(* The items that a seeding process, ensure_demo_relationships and admins   *)
(* write are like the others.                                               *)
LEMMA SeedKeepsItems ==
  ASSUME Items, Seeding, NEW p \in Processes, step[p] = "seed", at[p] \in Nat,
         at[p] < Len(Script), ~Taken(Item(p)), content' = content \cup {Item(p)}
  PROVE  Items'
<1> DEFINE i == at[p] + 1
<1>1. i \in DOMAIN Script /\ Item(p) = Script[i] /\ 1 .. i - 1 = 1 .. at[p]
  BY DemoAssumption DEF Item
<1>2. /\ RowsFit(Item(p))
      /\ Item(p)[1] = "rel" => Item(p)[2] \in Slugs
      /\ Item(p)[1] = "recipe" => \A l \in Item(p)[4] : \E j \in 1 .. at[p] :
           Script[j][1] = "endpoint" /\ Script[j][2] = l[1] /\ Script[j][3] = l[2]
  BY <1>1, DemoAssumption
<1>3. \A j \in 1 .. at[p] : Script[j] \in content
  BY DEF Seeding
<1>4. LinksResolve'
  BY <1>2, <1>3 DEF Items, LinksResolve
<1>5. DemoRowsSound'
  BY <1>2 DEF Items, DemoRowsSound, RowsFit
<1>6. JoinsOnce'
  BY DEF Items, JoinsOnce, Taken, Clash
<1>7. QED
  BY <1>2, <1>4, <1>5, <1>6 DEF Items

LEMMA JoinsFit ==
  ASSUME NEW x \in Joins
  PROVE  /\ x[1] = "rel" /\ x[2] \in Slugs /\ x[3] = x[4] /\ x = <<"rel", x[2], x[4], x[4]>>
         /\ x[4] # Changed /\ RowsFit(x)
<1>1. PICK slug \in Slugs : x \in JoinsOf(slug)
  BY DEF Joins
<1>2. PICK i \in DOMAIN Named(slug).joins :
        x = <<"rel", slug, Named(slug).joins[i].name, Named(slug).joins[i].name>>
  BY <1>1 DEF JoinsOf
<1>3. x[1] = "rel" /\ x[2] = slug /\ x[3] = x[4] /\ x[4] = Named(slug).joins[i].name
  BY <1>2
<1>4. x[4] # Changed
  BY <1>3, DemoAssumption
<1>5. RowsFit(x)
  <2>1. \A k \in DOMAIN Named(slug).joins : JoinHolds(Named(slug).joins[k])
    BY DemoAssumption
  <2>2. QED
    BY <1>3, <2>1 DEF RowsFit
<1>6. QED
  BY <1>2, <1>3, <1>4, <1>5

LEMMA EnsureKeepsItems ==
  ASSUME Items, NEW new \in SUBSET Joins, \A x \in new : ~Taken(x), content' = content \cup new
  PROVE  Items'
<1>1. \A x \in new : /\ x[1] = "rel" /\ x[2] \in Slugs /\ x = <<"rel", x[2], x[4], x[4]>>
                     /\ RowsFit(x)
  BY JoinsFit
<1>2. LinksResolve'
  BY <1>1 DEF Items, LinksResolve
<1>3. DemoRowsSound'
  BY <1>1 DEF Items, DemoRowsSound, RowsFit
<1>4. JoinsOnce'
  <2>1. \A x \in new, y \in content : ~(y[1] = "rel" /\ y[2] = x[2] /\ y[4] = x[4])
    BY <1>1 DEF Taken, Clash
  <2>2. \A x, y \in new : x[2] = y[2] /\ x[4] = y[4] => x = y
    BY <1>1
  <2>3. QED
    BY <2>1, <2>2 DEF Items, JoinsOnce
<1>5. QED
  BY <1>1, <1>2, <1>3, <1>4 DEF Items

LEMMA AdminKeepsItems ==
  ASSUME Items, Administers
  PROVE  Items'
<1>1. ASSUME NEW slug \in Slugs, DeleteServer(slug)
      PROVE  Items'
  <2>1. content' = WithoutServer(slug)
    BY <1>1 DEF DeleteServer, Changes
  <2>2. \A z \in content' : z[1] # "recipe" => z \in content
    BY <2>1 DEF WithoutServer
  <2>3. \A z \in content' : z[1] = "recipe" =>
          \E x \in content : x[1] = "recipe" /\ z[4] = {l \in x[4] : l[1] # slug}
    BY <2>1 DEF WithoutServer
  <2>4. \A y \in content : y[1] # "recipe" /\ y[2] # slug => y \in content'
    BY <2>1 DEF WithoutServer
  <2>5. LinksResolve'
    BY <2>3, <2>4 DEF Items, LinksResolve
  <2>6. DemoRowsSound'
    <3>1. \A z \in content' : z[1] = "recipe" => RowsFit(z)
      BY DEF RowsFit
    <3>2. \A z \in content' : RowsFit(z)
      BY <2>2, <3>1 DEF Items, DemoRowsSound
    <3>3. QED
      BY <3>2 DEF DemoRowsSound, RowsFit
  <2>7. QED
    BY <2>2, <2>5, <2>6 DEF Items, JoinsOnce
<1>2. ASSUME NEW x \in content, DeleteRelationship(x)
      PROVE  Items'
  <2>1. content' = content \ {x} /\ x[1] = "rel"
    BY <1>2 DEF DeleteRelationship, Changes
  <2>2. LinksResolve'
    BY <2>1 DEF Items, LinksResolve
  <2>3. DemoRowsSound'
    BY <2>1 DEF Items, DemoRowsSound, RowsFit
  <2>4. QED
    BY <2>1, <2>2, <2>3 DEF Items, JoinsOnce
<1>3. ASSUME NEW x \in content, NEW name, NEW join, join \in {Changed, x[4]},
             EditRelationship(x, name, join)
      PROVE  Items'
  <2> DEFINE new == <<"rel", x[2], name, join>>
  <2>1. content' = (content \ {x}) \cup {new} /\ x[1] = "rel"
    BY <1>3 DEF EditRelationship, Changes
  <2>2. new[1] = "rel" /\ new[2] = x[2] /\ new[4] \in {Changed, x[4]} /\ x[2] \in Slugs
    BY <1>3, <2>1 DEF Items
  <2> HIDE DEF new
  <2>3. LinksResolve'
    BY <2>1, <2>2 DEF Items, LinksResolve
  <2>4. RowsFit(new)
    <3>1. RowsFit(x)
      BY DEF Items, DemoRowsSound
    <3>2. \A i \in DOMAIN Named(x[2]).joins : Named(x[2]).joins[i].name # Changed
      BY <2>2, DemoAssumption
    <3>3. QED
      BY <2>1, <2>2, <3>1, <3>2 DEF RowsFit
  <2>5. DemoRowsSound'
    BY <2>1, <2>4 DEF Items, DemoRowsSound, RowsFit
  <2>6. JoinsOnce'
    BY <2>1, <2>2 DEF Items, JoinsOnce
  <2>7. QED
    BY <2>1, <2>2, <2>3, <2>5, <2>6 DEF Items
<1>4. QED
  BY <1>1, <1>2, <1>3, Zenon DEF Administers

LEMMA ItemsStep ==
  ASSUME Types, Items, Seeding, Next
  PROVE  Items'
<1> USE BootAssumption
<1>1. ASSUME NEW p \in Processes, Boots(p)
      PROVE  Items'
  <2>1. CASE Start(p)
    BY <2>1 DEF Start, db, Items, LinksResolve, DemoRowsSound, RowsFit, JoinsOnce
  <2>2. CASE ReadVersion(p)
    BY <2>2 DEF ReadVersion, db, Items, LinksResolve, DemoRowsSound, RowsFit, JoinsOnce
  <2>3. CASE CreateTable(p)
    BY <2>3 DEF CreateTable, db, Items, LinksResolve, DemoRowsSound, RowsFit, JoinsOnce
  <2>4. CASE MarkVersion(p)
    BY <2>4 DEF MarkVersion, db, Items, LinksResolve, DemoRowsSound, RowsFit, JoinsOnce
  <2>5. CASE CheckEmpty(p)
    BY <2>5 DEF CheckEmpty, db, Items, LinksResolve, DemoRowsSound, RowsFit, JoinsOnce
  <2>6. CASE SeedItem(p)
    <3>1. CASE Taken(Item(p))
      BY <2>6, <3>1 DEF SeedItem, Items, LinksResolve, DemoRowsSound, RowsFit, JoinsOnce
    <3>2. CASE ~Taken(Item(p))
      BY <2>6, <3>2, SeedKeepsItems DEF SeedItem, Types
    <3>3. QED
      BY <3>1, <3>2
  <2>7. CASE Seeded(p)
    BY <2>7 DEF Seeded, db, Items, LinksResolve, DemoRowsSound, RowsFit, JoinsOnce
  <2>8. CASE CheckAdmin(p)
    BY <2>8 DEF CheckAdmin, db, Items, LinksResolve, DemoRowsSound, RowsFit, JoinsOnce
  <2>9. CASE Announce(p)
    BY <2>9 DEF Announce, db, Items, LinksResolve, DemoRowsSound, RowsFit, JoinsOnce
  <2>10. CASE InsertAdmin(p)
    BY <2>10 DEF InsertAdmin, db, Items, LinksResolve, DemoRowsSound, RowsFit, JoinsOnce
  <2>11. QED
    BY <1>1, <2>1, <2>2, <2>3, <2>4, <2>5, <2>6, <2>7, <2>8, <2>9, <2>10 DEF Boots
<1>2. ASSUME NEW p \in Processes, Crash(p)
      PROVE  Items'
  BY <1>2 DEF Crash, db, Items, LinksResolve, DemoRowsSound, RowsFit, JoinsOnce
<1>3. ASSUME NEW p \in Processes, EnsureBegin(p)
      PROVE  Items'
  BY <1>3 DEF EnsureBegin, db, Items, LinksResolve, DemoRowsSound, RowsFit, JoinsOnce
<1>4. ASSUME NEW p \in Processes, EnsureWrite(p)
      PROVE  Items'
  <2>1. CASE UNCHANGED content
    BY <2>1 DEF Items, LinksResolve, DemoRowsSound, RowsFit, JoinsOnce
  <2>2. CASE content' # content
    BY <1>4, <2>2, EnsureKeepsItems DEF EnsureWrite, Types
  <2>3. QED
    BY <2>1, <2>2
<1>5. ASSUME NEW p \in Processes, Answer(p)
      PROVE  Items'
  BY <1>5 DEF Answer, db, Items, LinksResolve, DemoRowsSound, RowsFit, JoinsOnce
<1>6. CASE Administers
  BY <1>6, AdminKeepsItems
<1>7. QED
  BY <1>1, <1>2, <1>3, <1>4, <1>5, <1>6, Kinds DEF Next

LEMMA SeedingStep ==
  ASSUME Types, Seeding, Next
  PROVE  Seeding'
<1> USE BootAssumption
<1>1. ASSUME NEW p \in Processes, Boots(p)
      PROVE  Seeding'
  <2>1. CASE Start(p)
    BY <2>1 DEF Start, Types, Seeding, Steps, Goto, Bounds, db
  <2>2. CASE ReadVersion(p)
    BY <2>2 DEF ReadVersion, Types, Seeding, Steps, Goto, Bounds, db
  <2>3. CASE CreateTable(p)
    BY <2>3 DEF CreateTable, Types, Seeding, Steps, Goto, Bounds, db
  <2>4. CASE MarkVersion(p)
    BY <2>4 DEF MarkVersion, Marked, TablesDone, Types, Seeding, Steps, Goto, Bounds, db
  <2>5. CASE CheckEmpty(p)
    BY <2>5 DEF CheckEmpty, Types, Seeding, Steps, Goto, Bounds, db
  <2>6. CASE SeedItem(p)
    <3>1. CASE Taken(Item(p))
      BY <2>6, <3>1 DEF SeedItem, Seeding, Goto, Types
    <3>2. CASE ~Taken(Item(p))
      <4>1. /\ content' = content \cup {Script[at[p] + 1]} /\ step' = step
             /\ at' = [at EXCEPT ![p] = @ + 1]
        BY <2>6, <3>2 DEF SeedItem, Item
      <4>2. QED
        BY <4>1 DEF Seeding, Types
    <3>3. QED
      BY <3>1, <3>2
  <2>7. CASE Seeded(p)
    BY <2>7 DEF Seeded, Types, Seeding, Steps, Goto, Bounds, db
  <2>8. CASE CheckAdmin(p)
    BY <2>8 DEF CheckAdmin, Skips, Types, Seeding, Steps, Goto, Bounds, db
  <2>9. CASE Announce(p)
    BY <2>9 DEF Announce, Announced, Types, Seeding, Steps, Goto, Bounds, db
  <2>10. CASE InsertAdmin(p)
    BY <2>10 DEF InsertAdmin, Types, Seeding, Steps, Goto, Bounds, db
  <2>11. QED
    BY <1>1, <2>1, <2>2, <2>3, <2>4, <2>5, <2>6, <2>7, <2>8, <2>9, <2>10 DEF Boots
<1>2. ASSUME NEW p \in Processes, Crash(p)
      PROVE  Seeding'
  BY <1>2 DEF Crash, Types, Seeding, Steps, Goto, Bounds, db
<1>3. ASSUME NEW p \in Processes, EnsureBegin(p)
      PROVE  Seeding'
  BY <1>3 DEF EnsureBegin, Types, Seeding, Steps, Goto, Bounds, db
<1>4. ASSUME NEW p \in Processes, EnsureWrite(p)
      PROVE  Seeding'
  BY <1>4 DEF EnsureWrite, Types, Seeding, Steps, Goto, Bounds, db
<1>5. ASSUME NEW p \in Processes, Answer(p)
      PROVE  Seeding'
  BY <1>5 DEF Answer, Types, Seeding, Steps, Goto, Bounds, db
<1>6. CASE Administers
  <2>1. \A p \in Processes : step'[p] # "seed"
    BY <1>6, Frame DEF Quiet
  <2>2. QED
    BY <2>1 DEF Seeding
<1>7. QED
  BY <1>1, <1>2, <1>3, <1>4, <1>5, <1>6, Kinds DEF Next

LEMMA NextIInv == IInv /\ [Next]_vars => IInv'
<1> SUFFICES ASSUME IInv, [Next]_vars
             PROVE  IInv'
  OBVIOUS
<1>1. CASE Next
  BY <1>1, TypesStep, FormsStep, MigrationStep, PasswordsStep, ItemsStep, SeedingStep DEF IInv
<1>2. CASE UNCHANGED vars
  <2>1. Types' /\ Forms' /\ Migration' /\ Passwords'
    BY <1>2 DEF vars, IInv, Types, Forms, Form, Migration, Passwords, AdminKnown
  <2>2. Items' /\ Seeding'
    BY <1>2 DEF vars, IInv, Items, LinksResolve, DemoRowsSound, RowsFit, JoinsOnce, Seeding
  <2>3. QED
    BY <2>1, <2>2 DEF IInv
<1>3. QED
  BY <1>1, <1>2

(* The invariant behind every result below.                                 *)
THEOREM Inductive == Spec => []IInv
BY InitIInv, NextIInv, PTL DEF Spec

LEMMA TypesForms == IInv => TypeOK
<1> SUFFICES ASSUME IInv
             PROVE  TypeOK
  OBVIOUS
<1>1. tables \in 0 .. Tables /\ crashes <= MaxCrashes
  BY BootAssumption DEF IInv, Types
<1>2. Len(versions) <= 1
  <2>1. Len(<<>>) = 0 /\ Len(<<Old>>) = 1 /\ Len(<<Version>>) = 1
    OBVIOUS
  <2>2. versions \in {<<>>, <<Old>>, <<Version>>}
    BY DEF IInv, Types
  <2>3. Len(versions) \in {0, 1}
    BY <2>1, <2>2, Zenon
  <2>4. QED
    BY <2>3
<1>3. QED
  BY <1>1, <1>2 DEF IInv, Types, Steps, Forms, Form, TypeOK

LEMMA Whole == IInv => UpMeansMigrated /\ AdminKnown /\ LinksResolve /\ DemoRowsSound
BY DEF IInv, Migration, Migrated, UpMeansMigrated, Up, Passwords, Items

(* schema_version has one row at most, a process remembers a password only  *)
(* between the announcement and the INSERT (db.migrate, auth.bootstrap).    *)
THEOREM TypeCorrect == Spec => []TypeOK
BY Inductive, TypesForms, PTL

(* However many processes start together, and wherever they die: one that   *)
(* serves has every table and the version of its code (db.migrate).         *)
THEOREM MigratedFirst == Spec => []UpMeansMigrated
BY Inductive, Whole, PTL

(* An admin whose password nobody was told is never stored (auth.bootstrap).*)
THEOREM AdminTold == Spec => []AdminKnown
BY Inductive, Whole, PTL

(* Recipes offer no tool that is not there, at no point of the seeding and  *)
(* after no deletion (seed_recipes, ON DELETE CASCADE of recipe_tool).      *)
THEOREM LinksKept == Spec => []LinksResolve
BY Inductive, Whole, PTL

-------------------------------------------------------------------------------
(* A process that is alone and lives: what is in the database at each step, *)
(* and that nothing comes between what it reads and what it writes.         *)
AllItems == {Script[i] : i \in DOMAIN Script}

Reaches(s, edited, at1) ==
  /\ s \in Steps \ {"failed"}
  /\ s \in {"down", "version", "ddl", "servers"} => content = {}
  /\ s = "seed" => at1 \in 0 .. Len(Script) /\ content = {Script[i] : i \in 1 .. at1}
  /\ s \in {"admin", "announce", "insert"} => content = AllItems
  /\ s = "up" => edited > 0 \/ content = AllItems
  /\ s \in {"announce", "insert"} => admin = Nobody
  /\ s \in {"ensure", "error"} => edited > 0

Alone ==
  /\ deletes = 0 /\ \A q \in Processes \ {p1} : step[q] = "down"
  /\ Reaches(step[p1], edits, at[p1])
  /\ step[p1] = "ensure" => missing[p1] = UNION {Missing(slug) : slug \in Slugs}

Scenes ==
  /\ scene \in {"one", "two"}
  /\ scene = "one" => Alone
  /\ scene = "two" => edits = 0 /\ \A p \in Processes : step[p] # "ensure"

LEMMA InitScenes == MCInit => IInv /\ Scenes
BY InitIInv, MCBootAssumption DEF MCInit, Init, Scenes, Alone, Reaches, Steps

LEMMA StepsAlone ==
  ASSUME OneProcess
  PROVE  Next
BY MCBootAssumption, Zenon DEF OneProcess, Next

LEMMA AloneStep ==
  ASSUME IInv, Alone, OneProcess
  PROVE  Alone'
<1> USE MCBootAssumption, BootAssumption
<1>1. Types /\ Forms /\ deletes = 0 /\ UNCHANGED deletes
  BY DEF IInv, OneProcess, Alone
<1>2. ASSUME Boots(p1)
      PROVE  Alone'
  <2>1. CASE Start(p1)
    BY <1>1, <2>1 DEF Start, Types, Alone, Reaches, Steps, Goto, Bounds, db
  <2>2. CASE ReadVersion(p1)
    BY <1>1, <2>2 DEF ReadVersion, Types, Alone, Reaches, Steps, Goto, Bounds, db
  <2>3. CASE CreateTable(p1)
    BY <1>1, <2>3 DEF CreateTable, Types, Alone, Reaches, Steps, Goto, Bounds, db
  <2>4. CASE MarkVersion(p1)
    BY <1>1, <2>4 DEF MarkVersion, Marked, TablesDone, Types, Alone, Reaches, Steps, Goto, Bounds, db
  <2>5. CASE CheckEmpty(p1)
    <3>1. content = {} /\ ServersIn(content) = {}
      BY <2>5 DEF CheckEmpty, Alone, Reaches, ServersIn
    <3>2. step' = [step EXCEPT ![p1] = "seed"] /\ at' = [at EXCEPT ![p1] = 0]
      BY <2>5, <3>1 DEF CheckEmpty, Goto
    <3>3. 0 \in 0 .. Len(Script) /\ {Script[i] : i \in 1 .. 0} = {}
      BY DemoAssumption
    <3>4. QED
      BY <1>1, <2>5, <3>1, <3>2, <3>3 DEF CheckEmpty, Types, Alone, Reaches, Steps, Bounds, db
  <2>6. CASE SeedItem(p1)
    <3>1. at[p1] \in 0 .. Len(Script) - 1 /\ content = {Script[i] : i \in 1 .. at[p1]}
      BY <1>1, <2>6, DemoAssumption DEF SeedItem, Alone, Reaches, Types
    <3>2. ~Taken(Item(p1))
      <4>1. at[p1] + 1 \in DOMAIN Script /\ \A i \in 1 .. at[p1] : i \in DOMAIN Script /\ i # at[p1] + 1
        BY <3>1, DemoAssumption
      <4>2. QED
        BY <3>1, <4>1, DemoAssumption DEF Taken, Item
    <3>3. /\ content' = content \cup {Script[at[p1] + 1]} /\ at' = [at EXCEPT ![p1] = @ + 1]
          /\ UNCHANGED <<step, missing, edits>> /\ step[p1] = "seed"
      BY <2>6, <3>2 DEF SeedItem, Item, Bounds
    <3>4. at'[p1] \in 0 .. Len(Script) /\ content' = {Script[i] : i \in 1 .. at'[p1]}
      BY <1>1, <3>1, <3>3, DemoAssumption DEF Types
    <3>5. QED
      BY <1>1, <3>3, <3>4 DEF Alone, Reaches, Types, Steps
  <2>7. CASE Seeded(p1)
    <3>1. content = AllItems
      BY <2>7, DemoAssumption DEF Seeded, Alone, Reaches, AllItems
    <3>2. QED
      BY <1>1, <2>7, <3>1 DEF Seeded, Types, Alone, Reaches, Steps, Goto, Bounds, db
  <2>8. CASE CheckAdmin(p1)
    BY <1>1, <2>8 DEF CheckAdmin, Skips, Types, Alone, Reaches, Steps, Goto, Bounds, db
  <2>9. CASE Announce(p1)
    BY <1>1, <2>9 DEF Announce, Announced, Types, Alone, Reaches, Steps, Goto, Bounds, db
  <2>10. CASE InsertAdmin(p1)
    BY <1>1, <2>10 DEF InsertAdmin, Types, Alone, Reaches, Steps, Goto, Bounds, db
  <2>11. QED
    BY <1>2, <2>1, <2>2, <2>3, <2>4, <2>5, <2>6, <2>7, <2>8, <2>9, <2>10 DEF Boots
<1>3. ASSUME EnsureBegin(p1)
      PROVE  Alone'
  <2>1. step' = [step EXCEPT ![p1] = "ensure"] /\ edits' > 0
    BY <1>1, <1>3 DEF EnsureBegin, Goto, Types
  <2>2. missing'[p1] = UNION {Missing(slug)' : slug \in Slugs}
    BY <1>1, <1>3 DEF EnsureBegin, Types, db, Missing, Expected
  <2>3. QED
    BY <1>1, <2>1, <2>2 DEF Alone, Reaches, Types, Steps
<1>4. ASSUME EnsureWrite(p1)
      PROVE  Alone'
  BY <1>1, <1>4 DEF EnsureWrite, Types, Alone, Reaches, Steps, Goto, Bounds, db
<1>5. ASSUME Answer(p1)
      PROVE  Alone'
  BY <1>1, <1>5 DEF Answer, Types, Alone, Reaches, Steps, Goto, Bounds, db
<1>6. ASSUME step[p1] = "up", Administers
      PROVE  Alone'
  <2>1. UNCHANGED step /\ (deletes' = deletes + 1 \/ edits' = edits + 1)
    BY <1>6, Frame, Zenon DEF Administers, DeleteServer, DeleteRelationship, EditRelationship
  <2>2. edits' > 0
    BY <1>1, <2>1 DEF Types
  <2>3. QED
    BY <1>1, <1>6, <2>1, <2>2 DEF Alone, Reaches, Steps
<1>7. QED
  BY <1>2, <1>3, <1>4, <1>5, <1>6, Kinds DEF OneProcess

LEMMA NextScenes == IInv /\ Scenes /\ [MCNext]_<<scene, vars>> => IInv' /\ Scenes'
<1> SUFFICES ASSUME IInv, Scenes, [MCNext]_<<scene, vars>>
             PROVE  IInv' /\ Scenes'
  OBVIOUS
<1>1. CASE scene = "two" /\ Next /\ UNCHANGED <<scene, edits>>
  <2>1. IInv' /\ edits = 0 /\ edits' = 0 /\ edits' # edits + 1
    BY <1>1, NextIInv DEF Scenes
  <2>2. \A p \in Processes : step'[p] # "ensure"
    <3>1. ASSUME NEW p \in Processes, Boots(p)
          PROVE  \E s \in Steps \ {"ensure"} : step' = [step EXCEPT ![p] = s] \/ step' = step
      BY <3>1 DEF Boots, Start, ReadVersion, CreateTable, MarkVersion, CheckEmpty, SeedItem, Seeded,
         CheckAdmin, Announce, InsertAdmin, Goto, Steps
    <3>2. ASSUME NEW p \in Processes, Crash(p) \/ EnsureWrite(p) \/ Answer(p)
          PROVE  \E s \in Steps \ {"ensure"} : step' = [step EXCEPT ![p] = s] \/ step' = step
      BY <3>2 DEF Crash, EnsureWrite, Answer, Goto, Steps
    <3>3. ASSUME NEW p \in Processes, Serves(p)
          PROVE  step' = step
      BY <2>1, <3>3, Kinds, Frame DEF EnsureBegin
    <3>4. step \in [Processes -> Steps] /\ \A p \in Processes : step[p] # "ensure"
      BY <1>1 DEF IInv, Types, Scenes
    <3>5. QED
      BY <1>1, <3>1, <3>2, <3>3, <3>4 DEF Next
  <2>3. QED
    BY <1>1, <2>1, <2>2 DEF Scenes
<1>2. CASE scene = "one" /\ OneProcess /\ UNCHANGED scene
  BY <1>2, AloneStep, StepsAlone, NextIInv DEF Scenes
<1>3. CASE UNCHANGED <<scene, vars>>
  <2>1. IInv'
    BY <1>3, NextIInv
  <2>2. Alone => Alone'
    <3>1. UNCHANGED <<content, admin, step, at, missing, deletes, edits>>
      BY <1>3 DEF vars
    <3>2. \A slug : Missing(slug)' = Missing(slug)
      BY <3>1 DEF Missing, Expected
    <3>3. QED
      BY <3>1, <3>2 DEF Alone, Reaches
  <2>3. QED
    BY <1>3, <2>1, <2>2 DEF Scenes, vars
<1>4. QED
  BY <1>1, <1>2, <1>3 DEF MCNext

LEMMA InBothScenes == MCSpec => [](IInv /\ Scenes)
BY InitScenes, NextScenes, PTL DEF MCSpec

(* What a process that was alone serves: the demo content, once.            *)
LEMMA ServesTheDemo ==
  ASSUME IInv, Alone
  PROVE  SeededWhole
<1> SUFFICES ASSUME deletes + edits = 0, NEW p \in Processes, Up(p)
             PROVE  WholeDemo(content)
  BY DEF SeededWhole
<1>1. p = p1
  BY DEF Alone, Up
<1>2. edits = 0 /\ content = AllItems
  BY <1>1 DEF Alone, Reaches, Up, IInv, Types
<1>3. QED
  BY <1>2, DemoAssumption DEF AllItems

(* A process that is up serves a database that is whole: every table, an    *)
(* admin whose password somebody was told, recipes whose tools exist, and,  *)
(* where it was alone and no admin changed anything, all of the demo        *)
(* content, whose rows fit together (main._init_application_db).            *)
THEOREM ServesWhole == MCSpec => []ServesAWholeDatabase
<1>1. IInv /\ Scenes => ServesAWholeDatabase
  BY TypesForms, Whole, ServesTheDemo DEF Scenes, ServesAWholeDatabase
<1>2. QED
  BY <1>1, InBothScenes, PTL

(* A relationship that ensure_demo_relationships expects was there once, or *)
(* is one of those it adds.                                                 *)
LEMMA RepairStep ==
  ASSUME IInv, Alone, EnsureWrite(p1), step[p1] = "ensure", step'[p1] = "up",
         NEW slug \in Slugs, NEW x \in Expected(slug)
  PROVE  \E z : {y \in content' : y[1] = "rel" /\ y[2] = slug /\ y[4] = x[4]} = {z}
<1> DEFINE same(items) == {y \in items : y[1] = "rel" /\ y[2] = slug /\ y[4] = x[4]}
<1>1. x \in Joins /\ x[1] = "rel" /\ x[2] = slug /\ x[4] # Changed
  <2>1. x \in JoinsOf(slug)
    BY DEF Expected, JoinsOf
  <2>2. x[2] = slug
    BY <2>1 DEF JoinsOf
  <2>3. QED
    BY <2>1, <2>2, JoinsFit DEF Joins
<1>2. missing[p1] = UNION {Missing(s) : s \in Slugs} /\ missing[p1] \subseteq Joins
  BY MCBootAssumption DEF Alone, IInv, Types
<1>3. content' = content \cup missing[p1]
  BY MCBootAssumption DEF EnsureWrite, Goto, IInv, Types
<1>4. \A y, z \in same(content) : y = z
  BY <1>1 DEF IInv, Items, JoinsOnce
<1>5. \A y \in missing[p1] : y[1] = "rel" /\ y = <<"rel", y[2], y[4], y[4]>>
  BY <1>2, JoinsFit
<1>6. ASSUME NEW y \in same(content)
      PROVE  same(content') = {y}
  <2>1. \A z \in missing[p1] : ~(z[2] = slug /\ z[4] = x[4])
    <3>1. SUFFICES ASSUME NEW z \in missing[p1], z[2] = slug, z[4] = x[4]
                   PROVE  FALSE
      OBVIOUS
    <3>2. PICK s \in Slugs : z \in Missing(s)
      BY <1>2
    <3>3. z \in JoinsOf(s)
      BY <3>2 DEF Missing, Expected, JoinsOf
    <3>4. s = slug
      BY <3>1, <3>3 DEF JoinsOf
    <3>5. QED
      BY <1>6, <3>1, <3>2, <3>4 DEF Missing
  <2>2. QED
    BY <1>3, <1>4, <1>6, <2>1
<1>7. CASE same(content) = {}
  <2>1. x \in Missing(slug)
    BY <1>7 DEF Missing
  <2>2. x \in missing[p1] /\ x \in same(content')
    BY <1>1, <1>2, <1>3, <2>1
  <2>3. \A y \in same(content') : y = x
    BY <1>1, <1>3, <1>5, <1>7, <2>2
  <2>4. QED
    BY <2>2, <2>3
<1>8. QED
  BY <1>6, <1>7

(* When ensure_demo_relationships succeeds, every demo server that still    *)
(* has its datasets has its relationships, and each of them once.           *)
THEOREM Repairs == MCSpec => EnsureRepairs
<1> DEFINE Repaired ==
      \A p \in Processes : step[p] = "ensure" /\ step'[p] = "up" =>
        \A slug \in Slugs : \A x \in Expected(slug) :
          Cardinality({y \in content' : y[1] = "rel" /\ y[2] = slug /\ y[4] = x[4]}) = 1
<1>1. IInv /\ Scenes /\ [MCNext]_<<scene, vars>> => [Repaired]_vars
  <2> SUFFICES ASSUME IInv, Scenes, [MCNext]_<<scene, vars>>,
                      NEW p \in Processes, step[p] = "ensure", step'[p] = "up",
                      NEW slug \in Slugs, NEW x \in Expected(slug)
               PROVE  Cardinality({y \in content' : y[1] = "rel" /\ y[2] = slug /\ y[4] = x[4]}) = 1
    BY DEF Repaired
  <2>1. scene = "one" /\ Alone /\ p = p1 /\ OneProcess
    BY DEF Scenes, Alone, MCNext, vars
  <2>2. EnsureWrite(p1)
    BY <2>1, Kinds, MCBootAssumption DEF OneProcess, Boots, Start, ReadVersion, CreateTable, MarkVersion,
       CheckEmpty, SeedItem, Seeded, CheckAdmin, Announce, InsertAdmin, EnsureBegin, Answer
  <2>3. PICK z : {y \in content' : y[1] = "rel" /\ y[2] = slug /\ y[4] = x[4]} = {z}
    BY <2>1, <2>2, RepairStep
  <2>4. QED
    BY <2>3, FS_Singleton
<1>2. QED
  BY <1>1, InBothScenes, PTL DEF MCSpec, EnsureRepairs, Repaired

===============================================================================
