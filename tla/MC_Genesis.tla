----------------------------- MODULE MC_Genesis -----------------------------
(***************************************************************************)
(* Small archives: every combination of a few buildings of the two         *)
(* systems with an installation, and two successive archives of one office *)
(* with persons, tariffs and employees.                                    *)
(***************************************************************************)
EXTENDS Genesis

CONSTANT t1

MC_lower(s) == CASE s = "R1" -> "r1" [] s = "AB" -> "ab" [] OTHER -> s
MC_slug(s) == CASE s = "AB" -> "ab" [] s = "A/B" -> "ab" [] OTHER -> s

MDB(name, tables) ==
    [folder |-> "Daten/", name |-> name, mdb |-> TRUE, readable |-> Len(tables), tables |-> tables]
Tbl(name, rs) == [table |-> name, rows |-> rs]

Kfd(id, address) == [KGrundID |-> id, address |-> address, GPerson |-> "row " , GStrasse |-> address,
                     GEMail |-> "", GBem1 |-> ""]
Fk(id, kfd, address) == [FKGrundID |-> id, KFDGrundID |-> kfd, address |-> address,
                         GPerson |-> "", GStrasse |-> address, GEMail |-> "", GBem1 |-> "oven"]
Fest(lfd, address) == [FKuLfd |-> lfd, F1234 |-> "", address |-> address, FATyp |-> "", FAArt |-> "x"]

\* The buildings and the installation of an archive by three small numbers.
KfdChoices == << << >>, <<Kfd("", "a")>>, <<Kfd("1", "a"), Kfd("2", "b")>> >>
FkChoices == << <<Fk("", "", "a")>>, <<Fk("", "1", "c")>>, <<Fk("7", "1", "c")>>,
                <<Fk("7", "9", "c")>>, <<Fk("7", "9", "a")>>, <<Fk("7", "", "c"), Fk("8", "2", "a")>>,
                <<Fk("7", "9", "c"), Fk("8", "9", "a")>> >>
FestChoices == << << >>, <<Fest("", "a")>>, <<Fest("1", "c")>>, <<Fest("8", "c"), Fest("1", "c")>> >>

Buildings == {<<k, f, i>> : k \in DOMAIN KfdChoices, f \in DOMAIN FkChoices, i \in DOMAIN FestChoices}

BuildingArchive(a) ==
    << MDB("KFDSTAMM", <<Tbl("GebStamm", KfdChoices[a[1]])>>),
       MDB("FKSTAMM", <<Tbl("GebStamm", FkChoices[a[2]]), Tbl("FestStoff", FestChoices[a[3]]),
                        Tbl("FestArch", FestChoices[a[3]])>>) >>

Tariff(code, text) == [TKurz |-> code, TLang |-> text]
Given(code, address) == [TTarif |-> code, address |-> address, TPos |-> "1", TTBez |-> ""]
Function(kfd, person, typ) == [KFDID |-> kfd, PersonID |-> person, Typ |-> typ]
User(name, code) == [name |-> name, code |-> code]

Persons ==
    MDB("Anschriften",
        <<Tbl("Personen", <<[PersonID |-> "5", Name |-> "tenant"], [PersonID |-> "6", Name |-> "owner"]>>),
          Tbl("Kommunikation", <<[PersonID |-> "6", KommText |-> "o@x", isMail |-> TRUE]>>),
          Tbl("Funktionen", <<Function("1", "5", "2"), Function("1", "6", "1"),
                              Function("2", "0", "1"), Function("2", "4", "1")>>)>>)

Text == [folder |-> "", name |-> "LIESMICH", mdb |-> FALSE, readable |-> 0, tables |-> << >>]

\* Last year's archive; the reader fails at the second table of ALLSTAMM.
OldArchive ==
    << MDB("KFDSTAMM", <<Tbl("GebStamm", <<Kfd("1", "a")>>), Tbl("Tarife", <<Tariff("R1", "sweep")>>),
                         Tbl("GTarife", <<Given("r1", "a")>>)>>),
       MDB("FKSTAMM", <<Tbl("Tarife", <<Tariff("r1", "measure")>>)>>),
       Persons, Text,
       [MDB("ALLSTAMM", <<Tbl("Mitarbeiter", <<User("Ann", "AB")>>), Tbl("MitDaten", <<User("Bob", "C")>>)>>)
           EXCEPT !.readable = 1] >>

\* This year's: a tariff has gone, a building and an employee have come.
NewArchive ==
    << MDB("KFDSTAMM", <<Tbl("GebStamm", <<Kfd("1", "a"), Kfd("2", "b")>>), Tbl("Tarife", << >>),
                         Tbl("GTarife", <<Given("r1", "a")>>)>>),
       MDB("KFDPOOL", <<Tbl("PoolDaten", <<[address |-> "b", PAdr2 |-> "pool", EMail |-> "p@x"]>>)>>),
       MDB("FKSTAMM", <<Tbl("Tarife", <<Tariff("r1", "measure"), Tariff("R1", "again")>>),
                        Tbl("GTarife", <<Given("R1", "b"), Given("", "z")>>)>>),
       Persons,
       MDB("ALLSTAMM", <<Tbl("Mitarbeiter", <<User("Ann", "ab")>>),
                         Tbl("MitDaten", <<User("Ann", "AB"), User("", "")>>)>>) >>

Old == <<0, 0, 1>>
New == <<0, 0, 2>>

MC_Shelves == {{b} : b \in Buildings} \cup {{Old, New}}

MC_EntriesOf ==
    [a \in UNION Shelves |->
        CASE a = Old -> OldArchive [] a = New -> NewArchive [] OTHER -> BuildingArchive(a)]

\* The codes of these employees differ in the letters their emails are made of.
ASSUME MC_Emails == EmailsDiffer
=============================================================================
