--------------------------- MODULE GenesisMapping ---------------------------
(***************************************************************************)
(* The Genesis importer (genesis-importer.ts) as operators: readGenesis-   *)
(* Archive takes the tables out of an archive, mapGenesisArchive turns     *)
(* them into the plan that is written to the database (GenesisImport).     *)
(*                                                                         *)
(* A cell is a string, "" when it is blank.  The four columns of an        *)
(* address are one cell, address.  A Map of the code is a sequence of      *)
(* drafts in insertion order when its values are used, and a function when *)
(* it is only looked up.  Columns that are copied into a text and nothing  *)
(* else (phones, remarks, prices) are represented by one of their kind.    *)
(***************************************************************************)
EXTENDS Naturals, Sequences, SequencesExt, TLC

CONSTANTS
    lower(_),   \* toLowerCase of a string
    slug(_),    \* slug of a name or a code, of which several may have the same
    undefined   \* the absent value, no string

ASSUME UndefinedAssumption == undefined # "Unbekannt"

a ?? b == IF a # undefined THEN a ELSE b

cleanString(cell) == IF cell = "" THEN undefined ELSE cell

\* An id of the person tables: "0" stands for none there.
cleanIdentifier(cell) == IF cell = "0" THEN undefined ELSE cleanString(cell)

\* row?.column of a row that may be absent.
Column(row, column) == IF row = undefined THEN undefined ELSE cleanString(row[column])

\* A blank part counts as "0", and neither case nor white space matters.  What
\* lower does not change, a constant or a row number, is in the prefix.  The code
\* joins the parts with ":"; they are kept apart here, as if no column had a colon.
sourceKeyFromParts(prefix, parts) ==
    [prefix |-> prefix, parts |-> [i \in DOMAIN parts |-> lower(parts[i] ?? "0")]]

addressKeyFromRow(row) == lower(cleanString(row.address) ?? "0")

\* A hash of the source system and the key: the tenant is not part of it.
deterministicId(sourceKey) == [sourceSystem |-> "genesis", sourceKey |-> sourceKey]

Earliest(S) == CHOOSE i \in S : \A j \in S : i <= j
Latest(S) == CHOOSE i \in S : \A j \in S : j <= i

-----------------------------------------------------------------------------
(* Maps.  What get finds is a set, empty if there is nothing.              *)

Get(f, key) == IF key \in DOMAIN f THEN {f[key]} ELSE {}
Set(f, key, value) == [k \in DOMAIN f \cup {key} |-> IF k = key THEN value ELSE f[k]]

\* The same for a key that may be absent.
GetIf(f, key) == IF key = undefined THEN {} ELSE Get(f, key)
SetIf(f, key, value) == IF key = undefined THEN f ELSE Set(f, key, value)

\* found ?? other, and a value that may be absent.
OrElse(found, other) == IF found # {} THEN found ELSE other
OneOf(found) == IF found = {} THEN undefined ELSE CHOOSE value \in found : TRUE

\* Map.set on the drafts, which keeps the place of a key it has already.
SetDraft(drafts, draft) ==
    IF \E i \in DOMAIN drafts : drafts[i].sourceKey = draft.sourceKey
    THEN [i \in DOMAIN drafts |->
             IF drafts[i].sourceKey = draft.sourceKey THEN draft ELSE drafts[i]]
    ELSE Append(drafts, draft)

\* The rows at an address, and the one of them that an index by address has.
RowsAt(rows, address) == {i \in DOMAIN rows : addressKeyFromRow(rows[i]) = address}

indexByAddressKey(rows, address) ==
    IF RowsAt(rows, address) = {} THEN undefined ELSE rows[Latest(RowsAt(rows, address))]

-----------------------------------------------------------------------------
(* Reading an archive: a sequence of entries, each with its folder, its    *)
(* name, and as MDB its tables, of which the first `readable` are read     *)
(* before the reader fails.                                                *)

\* The key of the legacy record of a row; the code adds a hash of the row.
RowKey(folder, name, table, i) == <<folder, name, table, i>>

TablesOf(entry) ==
    [k \in 1 .. entry.readable |->
        [name |-> entry.name, table |-> entry.tables[k].table, rows |-> entry.tables[k].rows]]

RecordsOf(entry) ==
    LET read == TablesOf(entry)
    IN  IF ~entry.mdb THEN <<RowKey(entry.folder, entry.name, "__file__", 0)>>
        ELSE FlattenSeq([k \in DOMAIN read |->
                 [i \in DOMAIN read[k].rows |->
                     RowKey(entry.folder, entry.name, read[k].table, i)]])

readGenesisArchive(entries) ==
    [tables |-> FlattenSeq([e \in DOMAIN entries |->
                    IF entries[e].mdb THEN TablesOf(entries[e]) ELSE << >>]),
     legacyRecords |-> FlattenSeq([e \in DOMAIN entries |-> RecordsOf(entries[e])]),
     warnings |-> {e \in DOMAIN entries :
                      entries[e].mdb /\ entries[e].readable < Len(entries[e].tables)}]

\* tableAccessor: the last table of a name, in whatever folder it was.
Table(archive, name, table) ==
    LET same == {k \in DOMAIN archive.tables :
                    archive.tables[k].name = name /\ archive.tables[k].table = table}
    IN  IF same = {} THEN << >> ELSE archive.tables[Latest(same)].rows

-----------------------------------------------------------------------------
(* Persons: who is named as the customer of a building.                    *)

People(archive) == Table(archive, "Anschriften", "Personen")
Functions(archive) == Table(archive, "Anschriften", "Funktionen")

\* Mutant: the functions in the order of their numbers, the owner last.
functionPriority_ByNumber(row) ==
    LET order == <<"5", "3", "2", "4", "1">>
    IN  IF \E i \in DOMAIN order : order[i] = row.Typ
        THEN CHOOSE i \in DOMAIN order : order[i] = row.Typ
        ELSE 10

\* Owner, administration, tenant, caretaker, contact.
functionPriority(row) ==
    LET order == <<"1", "3", "2", "4", "5">>
    IN  IF \E i \in DOMAIN order : order[i] = row.Typ
        THEN CHOOSE i \in DOMAIN order : order[i] = row.Typ
        ELSE 10

\* The rows of the person a function is of; the last one is the person.
PersonRows(archive, f) ==
    LET personId == cleanIdentifier(Functions(archive)[f].PersonID)
    IN  {p \in DOMAIN People(archive) :
            personId # undefined /\ cleanIdentifier(People(archive)[p].PersonID) = personId}

\* The first address with an "@" among the communication rows of the person.
personInfo(archive, f) ==
    LET person == People(archive)[Latest(PersonRows(archive, f))]
        communication == Table(archive, "Anschriften", "Kommunikation")
        mails == {c \in DOMAIN communication :
                    /\ communication[c].isMail
                    /\ cleanIdentifier(communication[c].PersonID) = cleanIdentifier(person.PersonID)}
    IN  [displayName |-> cleanString(person.Name) ?? "Unbekannt",
         email |-> IF mails = {} THEN undefined
                   ELSE cleanString(communication[Earliest(mails)].KommText)]

\* The functions in a building; one of a person that is not in the table is
\* passed over.
Contacts(archive, kfdId) ==
    {f \in DOMAIN Functions(archive) :
        /\ kfdId # undefined /\ cleanIdentifier(Functions(archive)[f].KFDID) = kfdId
        /\ PersonRows(archive, f) # {}}

\* The first of the contacts sorted by their functions.
Primary(archive, contacts) ==
    LET Priority(f) == functionPriority(Functions(archive)[f])
    IN  Earliest({f \in contacts : \A g \in contacts : Priority(f) <= Priority(g)})

\* buildPersonIndex for one id, with formatContactNotes.
Person(archive, kfdId) ==
    LET contacts == Contacts(archive, kfdId)
        primary == personInfo(archive, Primary(archive, contacts))
    IN  IF contacts = {}
        THEN [displayName |-> undefined, email |-> undefined, contactNotes |-> undefined]
        ELSE [displayName |-> primary.displayName, email |-> primary.email,
              contactNotes |-> {<<Functions(archive)[f].Typ, personInfo(archive, f).displayName>> :
                                   f \in contacts}]

-----------------------------------------------------------------------------
(* Drafts.                                                                 *)

mapCustomer(row, person, pool, sourceKey) ==
    [sourceKey |-> sourceKey, id |-> deterministicId(sourceKey),
     displayName |-> person.displayName ?? Column(pool, "PAdr2")
                        ?? Column(row, "GPerson") ?? Column(row, "GStrasse") ?? "Unbekannt",
     email |-> person.email ?? Column(pool, "EMail") ?? Column(row, "GEMail"),
     notes |-> person.contactNotes]

mapObject(row, customerId, sourceKey) ==
    [sourceKey |-> sourceKey, id |-> deterministicId(sourceKey),
     customerId |-> customerId,
     street |-> cleanString(row.GStrasse) ?? "Unbekannte Strasse",
     objectNotes |-> IF cleanString(row.GBem1) = undefined THEN << >> ELSE <<row.GBem1>>]

\* The key of an installation and of its entries in FestArch.
installationKey(row) ==
    sourceKeyFromParts("installation:fk:feststoff",
        <<cleanString(row.address), cleanString(row.FKuLfd), cleanString(row.F1234)>>)

mapInstallation(archive, row, objectId) ==
    LET history == Table(archive, "FKSTAMM", "FestArch")
        key == installationKey(row)
    IN  [sourceKey |-> key, id |-> deterministicId(key), objectId |-> objectId,
         type |-> cleanString(row.FATyp) ?? "Feuerstätte",
         notes |-> {<<h, history[h].FAArt>> :
                       h \in {k \in DOMAIN history : installationKey(history[k]) = key}}]

System(name) == IF name = "KFDSTAMM" THEN "kfd" ELSE "fk"

tariffCode(row, i) == cleanString(row.TKurz) ?? ToString(<<"__row_", i>>)

mapTariffCatalogItem(row, tariffSystem, i) ==
    LET code == tariffCode(row, i)
        key == sourceKeyFromParts(<<"tariff_catalog", tariffSystem, i>>, <<code>>)
    IN  [sourceKey |-> key, id |-> deterministicId(key), tariffSystem |-> tariffSystem,
         code |-> code, description |-> cleanString(row.TLang) ?? code]

\* Mutant: the system is left out of the key.
tariffCatalogLookupKey_CodeOnly(tariffSystem, code) == <<lower(code)>>

tariffCatalogLookupKey(tariffSystem, code) == <<tariffSystem, lower(code)>>

\* The catalogue entry of the code and the building at the address, if known.
mapObjectTariffAssignment(row, tariffSystem, i, maps) ==
    LET code == cleanString(row.TTarif)
        catalogId == IF code = undefined THEN {}
                     ELSE Get(maps.tariffCatalogIdBySystemCode,
                              tariffCatalogLookupKey(tariffSystem, code))
        items == maps.tariffCatalogItems
        key == sourceKeyFromParts(<<"object_tariff", tariffSystem, i>>,
                                  <<addressKeyFromRow(row), cleanString(row.TPos), code ?? "no-code">>)
    IN  [sourceKey |-> key, id |-> deterministicId(key), tariffSystem |-> tariffSystem,
         objectId |-> OneOf(Get(maps.objectIdByAddressKey, addressKeyFromRow(row))),
         tariffCatalogItemId |-> OneOf(catalogId),
         description |-> cleanString(row.TTBez)
             ?? OneOf({items[k].description : k \in {j \in DOMAIN items : items[j].id \in catalogId}})
             ?? code ?? "Unbekannte Leistung"]

\* Mitarbeiter and MitDaten have a name and a code each, in columns of their own.
mapInactiveUser(row, sourceKey) ==
    LET fullName == cleanString(row.name) ?? cleanString(row.code) ?? "Genesis Import"
    IN  [sourceKey |-> sourceKey, id |-> deterministicId(sourceKey), lastName |-> fullName,
         email |-> slug(cleanString(row.code) ?? fullName), role |-> "technician",
         isActive |-> FALSE]

-----------------------------------------------------------------------------
(* The tables in the order in which they are mapped.  maps holds the Maps  *)
(* of mapGenesisArchive; mapped is legacyEntityByRecord.                   *)

NoMaps ==
    [users |-> << >>, customers |-> << >>, objects |-> << >>, installations |-> << >>,
     tariffCatalogItems |-> << >>, objectTariffAssignments |-> << >>,
     objectIdByKfdGrundId |-> << >>, objectIdByFkGrundId |-> << >>,
     objectIdByAddressKey |-> << >>, tariffCatalogIdBySystemCode |-> << >>,
     mapped |-> << >>]

\* legacyRowMapKey names the folder the files are expected in.
Mapped(maps, name, table, i, type, id) ==
    Set(maps.mapped, RowKey("Daten/", name, table, i), [type |-> type, id |-> id])

\* What the keys of the customer and of the object of a building are made of.
KfdKeyParts(row) == <<cleanString(row.KGrundID) ?? addressKeyFromRow(row)>>

KfdBuilding(archive, maps, i) ==
    LET row == Table(archive, "KFDSTAMM", "GebStamm")[i]
        grundId == cleanString(row.KGrundID)
        customer == mapCustomer(row, Person(archive, grundId),
                                indexByAddressKey(Table(archive, "KFDPOOL", "PoolDaten"),
                                                  addressKeyFromRow(row)),
                                sourceKeyFromParts("customer:kfd", KfdKeyParts(row)))
        object == mapObject(row, customer.id, sourceKeyFromParts("object:kfd", KfdKeyParts(row)))
    IN  [maps EXCEPT
            !.customers = SetDraft(@, customer),
            !.objects = SetDraft(@, object),
            !.mapped = Mapped(maps, "KFDSTAMM", "GebStamm", i, "object", object.id),
            !.objectIdByAddressKey = Set(@, addressKeyFromRow(row), object.id),
            !.objectIdByKfdGrundId = SetIf(@, grundId, object.id)]

\* Mutant: only the id links a building of the two systems.
ExistingObject_ByIdOnly(maps, row) ==
    GetIf(maps.objectIdByKfdGrundId, cleanString(row.KFDGrundID))

ExistingObject(maps, row) ==
    OrElse(GetIf(maps.objectIdByKfdGrundId, cleanString(row.KFDGrundID)),
           Get(maps.objectIdByAddressKey, addressKeyFromRow(row)))

\* appendFkObjectNotes
WithFkNotes(object, row) ==
    IF cleanString(row.GBem1) = undefined THEN object
    ELSE [object EXCEPT !.objectNotes = Append(@, <<"Holzfeuerungskontrolle", row.GBem1>>)]

\* A building that is known already gets the remarks of the wood-heating
\* control and is found by its number there; its address is not indexed again.
KnownFkBuilding(maps, row, i, id) ==
    [maps EXCEPT
        !.objects = [k \in DOMAIN @ |-> IF @[k].id = id THEN WithFkNotes(@[k], row) ELSE @[k]],
        !.mapped = Mapped(maps, "FKSTAMM", "GebStamm", i, "object", id),
        !.objectIdByFkGrundId = SetIf(@, cleanString(row.FKGrundID), id)]

NewFkBuilding(maps, row, i) ==
    LET parts == <<cleanString(row.FKGrundID) ?? addressKeyFromRow(row)>>
        nobody == [displayName |-> undefined, email |-> undefined, contactNotes |-> undefined]
        customer == mapCustomer(row, nobody, undefined, sourceKeyFromParts("customer:fk", parts))
        object == mapObject(row, customer.id, sourceKeyFromParts("object:fk", parts))
    IN  [maps EXCEPT
            !.customers = SetDraft(@, customer),
            !.objects = SetDraft(@, object),
            !.mapped = Mapped(maps, "FKSTAMM", "GebStamm", i, "object", object.id),
            !.objectIdByAddressKey = Set(@, addressKeyFromRow(row), object.id),
            !.objectIdByFkGrundId = SetIf(@, cleanString(row.FKGrundID), object.id),
            !.objectIdByKfdGrundId = SetIf(@, cleanString(row.KFDGrundID), object.id)]

FkBuilding(archive, maps, i) ==
    LET row == Table(archive, "FKSTAMM", "GebStamm")[i]
        existing == ExistingObject(maps, row)
    IN  IF existing = {} THEN NewFkBuilding(maps, row, i)
        ELSE KnownFkBuilding(maps, row, i, OneOf(existing))

\* lookupFkGrundId: the number of the building at the address of the
\* installation, asked only for an installation that has a number itself.
FkGrundIdOf(archive, row) ==
    LET fk == Table(archive, "FKSTAMM", "GebStamm")
        there == RowsAt(fk, addressKeyFromRow(row))
    IN  IF cleanString(row.FKuLfd) = undefined \/ there = {} THEN undefined
        ELSE cleanString(fk[Latest(there)].FKGrundID)

\* Mutant: the number of the installation is taken for that of a building.
ObjectOfInstallation_ByOwnNumber(archive, maps, row) ==
    OrElse(GetIf(maps.objectIdByFkGrundId, cleanString(row.FKuLfd)),
           Get(maps.objectIdByAddressKey, addressKeyFromRow(row)))

ObjectOfInstallation(archive, maps, row) ==
    OrElse(GetIf(maps.objectIdByFkGrundId, FkGrundIdOf(archive, row)),
           Get(maps.objectIdByAddressKey, addressKeyFromRow(row)))

\* An installation whose building is not known is left out.
Installation(archive, maps, i) ==
    LET row == Table(archive, "FKSTAMM", "FestStoff")[i]
        objectId == ObjectOfInstallation(archive, maps, row)
        installation == mapInstallation(archive, row, OneOf(objectId))
    IN  IF objectId = {} THEN maps
        ELSE [maps EXCEPT
                 !.installations = SetDraft(@, installation),
                 !.mapped = Mapped(maps, "FKSTAMM", "FestStoff", i, "installation", installation.id)]

\* setFirstTariffCatalogLookup: the first entry of a code is the one that counts.
TariffItem(archive, maps, name, i) ==
    LET tariff == mapTariffCatalogItem(Table(archive, name, "Tarife")[i], System(name), i)
        key == tariffCatalogLookupKey(System(name), tariff.code)
    IN  [maps EXCEPT
            !.tariffCatalogItems = SetDraft(@, tariff),
            !.tariffCatalogIdBySystemCode = IF key \in DOMAIN @ THEN @ ELSE Set(@, key, tariff.id),
            !.mapped = Mapped(maps, name, "Tarife", i, "tariff_catalog_item", tariff.id)]

TariffAssignment(archive, maps, name, i) ==
    LET assignment == mapObjectTariffAssignment(Table(archive, name, "GTarife")[i],
                                                System(name), i, maps)
    IN  [maps EXCEPT
            !.objectTariffAssignments = SetDraft(@, assignment),
            !.mapped = Mapped(maps, name, "GTarife", i, "object_tariff_assignment", assignment.id)]

EmployeeKey(code) == sourceKeyFromParts("user:allstamm:mitarbeiter", <<code>>)

Mitarbeiter(archive, maps, i) ==
    LET row == Table(archive, "ALLSTAMM", "Mitarbeiter")[i]
        user == mapInactiveUser(row, EmployeeKey(cleanString(row.code) ?? ToString(i - 1)))
    IN  [maps EXCEPT
            !.users = SetDraft(@, user),
            !.mapped = Mapped(maps, "ALLSTAMM", "Mitarbeiter", i, "user", user.id)]

\* A row with the code of an employee adds nothing to the employee.
MitDaten(archive, maps, i) ==
    LET row == Table(archive, "ALLSTAMM", "MitDaten")[i]
        code == cleanString(row.code)
        user == mapInactiveUser(row, sourceKeyFromParts("user:allstamm:mitdaten",
                                        <<code ?? cleanString(row.name) ?? ToString(i - 1)>>))
    IN  IF code # undefined /\ \E k \in DOMAIN maps.users : maps.users[k].sourceKey = EmployeeKey(code)
        THEN [maps EXCEPT !.mapped = Mapped(maps, "ALLSTAMM", "MitDaten", i, "user",
                                            deterministicId(EmployeeKey(code)))]
        ELSE [maps EXCEPT
                 !.users = SetDraft(@, user),
                 !.mapped = Mapped(maps, "ALLSTAMM", "MitDaten", i, "user", user.id)]

\* The body of the loop over a table.
MapRow(archive, name, table, maps, i) ==
    CASE table = "GebStamm" /\ name = "KFDSTAMM" -> KfdBuilding(archive, maps, i)
      [] table = "GebStamm" /\ name = "FKSTAMM" -> FkBuilding(archive, maps, i)
      [] table = "FestStoff" -> Installation(archive, maps, i)
      [] table = "Tarife" -> TariffItem(archive, maps, name, i)
      [] table = "GTarife" -> TariffAssignment(archive, maps, name, i)
      [] table = "Mitarbeiter" -> Mitarbeiter(archive, maps, i)
      [] table = "MitDaten" -> MitDaten(archive, maps, i)

\* One of the loops of mapGenesisArchive: the rows of a table in their order.
Each(archive, name, table, maps) ==
    LET rows == Table(archive, name, table)
        after[i \in 0 .. Len(rows)] ==
            IF i = 0 THEN maps ELSE MapRow(archive, name, table, after[i - 1], i)
    IN  after[Len(rows)]

MapKfdBuildings(archive) == Each(archive, "KFDSTAMM", "GebStamm", NoMaps)

MapBuildings(archive) == Each(archive, "FKSTAMM", "GebStamm", MapKfdBuildings(archive))

MapInstallations(archive) == Each(archive, "FKSTAMM", "FestStoff", MapBuildings(archive))

MapTariffs(archive) ==
    Each(archive, "FKSTAMM", "Tarife",
         Each(archive, "KFDSTAMM", "Tarife", MapInstallations(archive)))

MapAssignments(archive) ==
    Each(archive, "FKSTAMM", "GTarife",
         Each(archive, "KFDSTAMM", "GTarife", MapTariffs(archive)))

MapUsers(archive) ==
    Each(archive, "ALLSTAMM", "MitDaten",
         Each(archive, "ALLSTAMM", "Mitarbeiter", MapAssignments(archive)))

\* annotateLegacyRecords: the record of a mapped row names the entity.
annotateLegacyRecords(keys, mapped) ==
    [i \in DOMAIN keys |-> [key |-> keys[i], mapped |-> OneOf(Get(mapped, keys[i]))]]

GenesisImportPlan(archive, maps) ==
    [users |-> maps.users, customers |-> maps.customers, objects |-> maps.objects,
     installations |-> maps.installations, tariffCatalogItems |-> maps.tariffCatalogItems,
     objectTariffAssignments |-> maps.objectTariffAssignments,
     legacyRecords |-> annotateLegacyRecords(archive.legacyRecords, maps.mapped)]

mapGenesisArchive(archive) == GenesisImportPlan(archive, MapUsers(archive))
=============================================================================
