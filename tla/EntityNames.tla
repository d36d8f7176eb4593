---------------------------- MODULE EntityNames ----------------------------
(***************************************************************************)
(* The names under which the entity types travel: the keys of the backend  *)
(* (ENTITY_DEFINITIONS), the aliases a request may use for them            *)
(* (normalizeEntityKey) and the names the device knows.                    *)
(***************************************************************************)
EXTENDS Sequences

\* key, route, singular; the collection is the key in every definition.  The
\* scope of tenants is the record itself, of all others a tenant column.
ENTITY_DEFINITIONS ==
    { <<"tenants", "tenants", "tenant">>,
      <<"users", "users", "user">>,
      <<"customers", "customers", "customer">>,
      <<"objects", "objects", "object">>,
      <<"installations", "installations", "installation">>,
      <<"work_orders", "work-orders", "work_order">>,
      <<"work_order_installations", "work-order-installations", "work_order_installation">>,
      <<"checklist_templates", "checklist-templates", "checklist_template">>,
      <<"checklist_template_items", "checklist-template-items", "checklist_template_item">>,
      <<"checklist_answers", "checklist-answers", "checklist_answer">>,
      <<"measurements", "measurements", "measurement">>,
      <<"defects", "defects", "defect">>,
      <<"photos", "photos", "photo">>,
      <<"time_entries", "time-entries", "time_entry">>,
      <<"materials", "materials", "material">>,
      <<"work_order_materials", "work-order-materials", "work_order_material">>,
      <<"tariff_catalog_items", "tariff-catalog-items", "tariff_catalog_item">>,
      <<"object_tariff_assignments", "object-tariff-assignments", "object_tariff_assignment">>,
      <<"work_order_service_lines", "work-order-service-lines", "work_order_service_line">>,
      <<"report_templates", "report-templates", "report_template">>,
      <<"reports", "reports", "report">>,
      <<"legacy_import_records", "legacy-import-records", "legacy_import_record">> }

SYNC_ENTITY_KEYS == {d[1] : d \in ENTITY_DEFINITIONS}

\* The camel-case names that are registered one by one.
CamelCase ==
    { <<"workOrders", "work_orders">>, <<"workOrder", "work_orders">>,
      <<"customerObjects", "objects">>, <<"object", "objects">>,
      <<"checklistTemplates", "checklist_templates">>,
      <<"checklistTemplate", "checklist_templates">>,
      <<"checklistTemplateItems", "checklist_template_items">>,
      <<"checklistTemplateItem", "checklist_template_items">>,
      <<"checklistAnswers", "checklist_answers">>,
      <<"checklistAnswer", "checklist_answers">>,
      <<"workOrderInstallations", "work_order_installations">>,
      <<"workOrderInstallation", "work_order_installations">>,
      <<"timeEntries", "time_entries">>, <<"timeEntry", "time_entries">>,
      <<"workOrderMaterials", "work_order_materials">>,
      <<"workOrderMaterial", "work_order_materials">>,
      <<"tariffCatalogItems", "tariff_catalog_items">>,
      <<"tariffCatalogItem", "tariff_catalog_items">>,
      <<"objectTariffAssignments", "object_tariff_assignments">>,
      <<"objectTariffAssignment", "object_tariff_assignments">>,
      <<"workOrderServiceLines", "work_order_service_lines">>,
      <<"workOrderServiceLine", "work_order_service_lines">>,
      <<"reportTemplates", "report_templates">>,
      <<"reportTemplate", "report_templates">>,
      <<"legacyImportRecords", "legacy_import_records">>,
      <<"legacyImportRecord", "legacy_import_records">> }

\* Mutant: only the keys and the singular names are registered.
aliases_NoCollections ==
    {<<d[3], d[1]>> : d \in ENTITY_DEFINITIONS} \cup CamelCase

\* Every name of a definition leads to its key, and so do the camel-case names.
aliases ==
    UNION {{<<name, d[1]>> : name \in {d[1], d[2], d[3]}} : d \in ENTITY_DEFINITIONS}
        \cup CamelCase

\* The key a name stands for; a request with any other name is refused.
IsKnown(name) == \E a \in aliases : a[1] = name
normalizeEntityKey(name) == (CHOOSE a \in aliases : a[1] = name)[2]

Singular(key) == (CHOOSE d \in ENTITY_DEFINITIONS : d[1] = key)[3]
=============================================================================
