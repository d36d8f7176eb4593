------------------------------- MODULE Genesis -------------------------------
(***************************************************************************)
(* The importer as a whole: what the plan that GenesisImport writes must   *)
(* say of the tables that GenesisMapping has read.                         *)
(***************************************************************************)
EXTENDS GenesisImport

\* legacyRowMapKey expects the databases there.
ASSUME FolderAssumption ==
    \A a \in Archives : \A e \in DOMAIN EntriesOf[a] :
        EntriesOf[a][e].mdb => EntriesOf[a][e].folder = "Daten/"

-----------------------------------------------------------------------------
(* Properties of the plan, when an import of it begins.                    *)

RowsOf(name, t) == Table(ArchiveOf[job.archive], name, t)

\* What the legacy record of a row names, if anything.
MappedTo(name, t, i) ==
    LET rs == Plan.legacyRecords
    IN  rs[CHOOSE k \in DOMAIN rs : rs[k].key = RowKey("Daten/", name, t, i)].mapped

DraftOf(k, id) == LET ds == Plan[k] IN ds[CHOOSE i \in DOMAIN ds : ds[i].id = id]

\* The objects the buildings at this address have become, in either system.
ObjectsAt(name, address) ==
    {MappedTo(name, "GebStamm", i).id : i \in RowsAt(RowsOf(name, "GebStamm"), address)}

Blank(cell) == cleanString(cell) = undefined

\* A building that both systems have is one object: by the number of the one in
\* the other if that is known, otherwise by its address, unless an earlier
\* building has brought the unknown number (the loop over the buildings of the
\* wood-heating control).
BuildingsAreOne ==
    LET kfd == RowsOf("KFDSTAMM", "GebStamm")
        fk == RowsOf("FKSTAMM", "GebStamm")
    IN  pc = "batch" => \A j \in DOMAIN fk :
            LET linked == {i \in DOMAIN kfd : ~Blank(kfd[i].KGrundID) /\ kfd[i].KGrundID = fk[j].KFDGrundID}
                earlier == {i \in DOMAIN fk : /\ i < j /\ ~Blank(fk[i].KFDGrundID)
                                              /\ fk[i].KFDGrundID = fk[j].KFDGrundID}
                there == ObjectsAt("KFDSTAMM", addressKeyFromRow(fk[j]))
                object == MappedTo("FKSTAMM", "GebStamm", j).id
            IN  /\ \A i \in linked : object = MappedTo("KFDSTAMM", "GebStamm", i).id
                /\ linked = {} /\ earlier = {} /\ there # {} => object \in there

\* The numbers of the buildings in the wood-heating control tell addresses apart.
NumbersAreUnique ==
    LET fk == RowsOf("FKSTAMM", "GebStamm")
    IN  \A i, j \in DOMAIN fk :
            ~Blank(fk[i].FKGrundID) /\ fk[i].FKGrundID = fk[j].FKGrundID
                => addressKeyFromRow(fk[i]) = addressKeyFromRow(fk[j])

\* If they do, an installation stands on a building at its address, also when
\* the two systems have the building under different addresses.  It is not lost
\* if the first system has a building at its address, or if it has a number and
\* the buildings there have theirs.
InstallationsFollowTheirBuildings ==
    LET installations == RowsOf("FKSTAMM", "FestStoff")
        fk == RowsOf("FKSTAMM", "GebStamm")
    IN  pc = "batch" /\ NumbersAreUnique => \A i \in DOMAIN installations :
            LET address == addressKeyFromRow(installations[i])
                drafts == {d \in DOMAIN Plan.installations :
                              Plan.installations[d].sourceKey = installationKey(installations[i])}
                there == RowsAt(fk, address)
            IN  /\ \A d \in drafts : Plan.installations[d].objectId
                                        \in ObjectsAt("FKSTAMM", address) \cup ObjectsAt("KFDSTAMM", address)
                /\ \/ ObjectsAt("KFDSTAMM", address) # {}
                   \/ /\ ~Blank(installations[i].FKuLfd) /\ there # {}
                      /\ \A j \in there : ~Blank(fk[j].FKGrundID)
                   => drafts # {}

\* A tariff of a building names the first entry of its code in the catalogue of
\* its own system, in whatever case the code is written, and the building at
\* its address.
AssignmentsResolve ==
    pc = "batch" => \A name \in {"KFDSTAMM", "FKSTAMM"} :
        LET catalog == RowsOf(name, "Tarife")
            given == RowsOf(name, "GTarife")
        IN  \A i \in DOMAIN given :
                LET assignment == DraftOf("objectTariffAssignments", MappedTo(name, "GTarife", i).id)
                    same == {j \in DOMAIN catalog : /\ ~Blank(given[i].TTarif)
                                                    /\ lower(tariffCode(catalog[j], j)) = lower(given[i].TTarif)}
                    there == ObjectsAt("KFDSTAMM", addressKeyFromRow(given[i]))
                IN  /\ assignment.tariffCatalogItemId =
                          IF same = {} THEN undefined ELSE MappedTo(name, "Tarife", Earliest(same)).id
                    /\ there # {} => assignment.objectId \in there

\* The keys made of the numbers of the buildings tell the numbers apart: no two
\* differ in their case alone, and none is the address of another building.
KeysFollowNumbers ==
    LET kfd == RowsOf("KFDSTAMM", "GebStamm")
    IN  \A i, j \in DOMAIN kfd :
            sourceKeyFromParts("object:kfd", KfdKeyParts(kfd[i]))
                = sourceKeyFromParts("object:kfd", KfdKeyParts(kfd[j]))
                => kfd[i].KGrundID = kfd[j].KGrundID

\* If they do, a building whose owner the archive knows has the owner as its
\* customer, not its tenant, its caretaker or the name in another table.
CustomerIsTheOwner ==
    LET kfd == RowsOf("KFDSTAMM", "GebStamm")
        functions == RowsOf("Anschriften", "Funktionen")
        people == RowsOf("Anschriften", "Personen")
    IN  pc = "batch" /\ KeysFollowNumbers => \A i \in DOMAIN kfd :
            LET owners == {p \in DOMAIN people :
                              /\ cleanIdentifier(people[p].PersonID) # undefined
                              /\ \E f \in DOMAIN functions :
                                    /\ functions[f].Typ = "1"
                                    /\ functions[f].KFDID = kfd[i].KGrundID
                                    /\ functions[f].PersonID = people[p].PersonID}
                object == DraftOf("objects", MappedTo("KFDSTAMM", "GebStamm", i).id)
            IN  cleanIdentifier(kfd[i].KGrundID) # undefined /\ owners # {}
                    => \E p \in owners :
                          DraftOf("customers", object.customerId).displayName
                              = (cleanString(people[p].Name) ?? "Unbekannt")
=============================================================================
