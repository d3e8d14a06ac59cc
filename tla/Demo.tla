--------------------------------- MODULE Demo ---------------------------------
(***************************************************************************)
(* The demo content of seed.py: what seed_if_empty creates, one            *)
(* transaction after the other, and the columns of the generated rows that *)
(* relationships and ids are made of.                                      *)
(*                                                                         *)
(* An item is <<kind, server, name, detail>>.  Ids that are texts in the   *)
(* source ("EMP1001", "ACC1001", "SVC-001") are their numbers here, and    *)
(* the empty string is 0.  The endpoints of a server are listed dataset by *)
(* dataset.  Descriptions, paths, dates, amounts and the other columns are *)
(* left out.                                                               *)
(***************************************************************************)
EXTENDS Naturals, SequencesExt

(* A dataset with the tools of its endpoints, and a relationship.          *)
Dataset(key, idField, tools) == [key |-> key, idField |-> idField, tools |-> tools]

Join(name, src, field, tgt, targetField, required) ==
  [name |-> name, src |-> src, field |-> field, tgt |-> tgt, targetField |-> targetField,
   required |-> required]

Contoso == [slug |-> "contoso-orders",
  datasets |-> <<
    Dataset("orders", "id", <<"list_orders", "search_orders", "get_order", "create_order",
                              "update_order", "delete_order">>),
    Dataset("order_lines", "id", <<"list_order_lines">>)>>,
  joins |-> <<Join("order_lines_to_orders", "order_lines", "order_id", "orders", "id", TRUE)>>]

Hris == [slug |-> "northwind-hris",
  datasets |-> <<
    Dataset("employees", "employee_id", <<"list_employees", "search_employees", "get_employee">>),
    Dataset("time_off_requests", "request_id",
            <<"list_time_off_requests", "search_time_off_requests", "get_time_off_request",
              "create_time_off_request", "update_time_off_request">>),
    Dataset("org_units", "org_unit_id", <<"list_org_units">>)>>,
  joins |-> <<
    Join("employees_manager", "employees", "manager_id", "employees", "employee_id", FALSE),
    Join("employees_org_unit", "employees", "department", "org_units", "name", TRUE),
    Join("time_off_requests_to_employees", "time_off_requests", "employee_id",
         "employees", "employee_id", TRUE)>>]

ItService == [slug |-> "fabrikam-it-service",
  datasets |-> <<
    Dataset("tickets", "ticket_id", <<"list_tickets", "search_tickets", "get_ticket", "update_ticket">>),
    Dataset("assets", "asset_tag", <<"list_assets", "search_assets", "get_asset">>),
    Dataset("service_catalog", "service_id", <<"list_service_catalog">>)>>,
  joins |-> <<
    Join("tickets_to_assets", "tickets", "asset_tag", "assets", "asset_tag", FALSE),
    Join("tickets_to_service_catalog", "tickets", "service_id", "service_catalog", "service_id", TRUE)>>]

Crm == [slug |-> "adatum-crm",
  datasets |-> <<
    Dataset("accounts", "account_id", <<"list_accounts", "search_accounts", "get_account">>),
    Dataset("contacts", "contact_id", <<"list_contacts", "search_contacts">>),
    Dataset("opportunities", "opportunity_id",
            <<"list_opportunities", "search_opportunities", "get_opportunity", "update_opportunity">>)>>,
  joins |-> <<
    Join("contacts_to_accounts", "contacts", "account_id", "accounts", "account_id", TRUE),
    Join("opportunities_to_accounts", "opportunities", "account_id", "accounts", "account_id", TRUE),
    Join("opportunities_to_contacts", "opportunities", "primary_contact_id",
         "contacts", "contact_id", TRUE)>>]

Expenses == [slug |-> "contoso-expenses",
  datasets |-> <<
    Dataset("expense_reports", "report_id", <<"list_expense_reports", "search_expense_reports",
                                              "get_expense_report", "update_expense_report">>),
    Dataset("expense_lines", "line_id", <<"list_expense_lines", "search_expense_lines">>),
    Dataset("cost_centres", "cost_center_id", <<"list_cost_centres", "get_cost_centre">>),
    Dataset("approvals", "approval_id", <<"list_approvals">>)>>,
  joins |-> <<
    Join("expense_lines_to_reports", "expense_lines", "report_id", "expense_reports", "report_id", TRUE),
    Join("expense_reports_to_cost_centres", "expense_reports", "cost_center_id",
         "cost_centres", "cost_center_id", TRUE),
    Join("approvals_to_reports", "approvals", "report_id", "expense_reports", "report_id", TRUE)>>]

Servers == <<Contoso, Hris, ItService, Crm, Expenses>>

Slugs == {Servers[i].slug : i \in DOMAIN Servers}

Named(slug) == CHOOSE s \in {Servers[i] : i \in DOMAIN Servers} : s.slug = slug

Recipe(slug, links) == [slug |-> slug, links |-> links]

Of(slug, tools) == {<<slug, t>> : t \in tools}

Recipes == <<
  Recipe("order-status-assistant",
    Of("contoso-orders", {"list_orders", "search_orders", "get_order", "list_order_lines"})),
  Recipe("leave-request-handling",
    Of("northwind-hris", {"list_employees", "search_employees", "list_time_off_requests",
       "search_time_off_requests", "create_time_off_request", "update_time_off_request"})),
  Recipe("it-ticket-triage",
    Of("fabrikam-it-service", {"list_tickets", "search_tickets", "get_ticket", "update_ticket",
       "list_assets", "list_service_catalog"})),
  Recipe("pipeline-review",
    Of("adatum-crm", {"search_accounts", "get_account", "search_contacts", "list_opportunities",
       "get_opportunity", "update_opportunity"})),
  Recipe("expense-approval",
    Of("contoso-expenses", {"search_expense_reports", "get_expense_report", "list_expense_lines",
       "list_cost_centres", "list_approvals", "update_expense_report"})),
  Recipe("expense-manager-lookup",
    Of("contoso-expenses", {"search_expense_reports", "get_expense_report", "list_expense_lines",
       "list_approvals"}) \cup Of("northwind-hris", {"search_employees", "get_employee"})),
  Recipe("order-problem-it-ticket",
    Of("contoso-orders", {"search_orders", "get_order", "list_order_lines"}) \cup
    Of("fabrikam-it-service", {"search_tickets", "list_service_catalog", "update_ticket"}))>>

(* The transactions of one server: itself, its datasets, its endpoints,    *)
(* its relationships.                                                      *)
ServerItems(s) ==
  <<<<"server", s.slug, s.slug, "">>>>
  \o [i \in DOMAIN s.datasets |-> <<"dataset", s.slug, s.datasets[i].key, s.datasets[i].idField>>]
  \o FlattenSeq([i \in DOMAIN s.datasets |->
       [k \in DOMAIN s.datasets[i].tools |->
          <<"endpoint", s.slug, s.datasets[i].tools[k], s.datasets[i].key>>]])
  \o [i \in DOMAIN s.joins |-> <<"rel", s.slug, s.joins[i].name, s.joins[i].name>>]

Script ==
  FlattenSeq([i \in DOMAIN Servers |-> ServerItems(Servers[i])])
  \o [i \in DOMAIN Recipes |-> <<"recipe", "", Recipes[i].slug, Recipes[i].links>>]
  \o <<<<"llm", "", "demo-llm", "">>, <<"responses", "", "demo-llm", "">>>>

-------------------------------------------------------------------------------
(* The generated rows, column by column; i is the index of the source.     *)

Blank == 0

Generated(n, value(_)) == [k \in 1 .. n |-> value(k - 1)]

Repeated(n, v) == [k \in 1 .. n |-> v]

OrderColumns == [
  id |-> Generated(40, LAMBDA i : 1001 + i)]

OrderLineColumns == [
  id |-> Generated(120, LAMBDA i : 1 + i),
  order_id |-> Generated(120, LAMBDA i : 1001 + (i \div 3))]

(* _HR_EMPLOYEE_PROFILES: department and manager.                          *)
EmployeeColumns == [
  employee_id |-> Generated(30, LAMBDA i : 1001 + i),
  department |->
    <<"People Operations", "Finance", "Sales", "IT">> \o Repeated(4, "People Operations")
    \o Repeated(4, "IT") \o Repeated(4, "Sales") \o Repeated(4, "Finance") \o Repeated(3, "IT")
    \o <<"Legal", "Operations", "People Operations", "Operations", "Operations", "Sales", "Finance">>,
  manager_id |->
    <<Blank>> \o Repeated(7, 1001) \o Repeated(4, 1004) \o Repeated(4, 1003) \o Repeated(4, 1002)
    \o Repeated(3, 1004) \o Repeated(3, 1001) \o <<1025, 1025, 1003, 1002>>]

OrgUnitColumns == [
  org_unit_id |-> <<"OU-PEOPLE", "OU-FIN", "OU-SALES", "OU-IT", "OU-OPS", "OU-LEGAL">>,
  name |-> <<"People Operations", "Finance", "Sales", "IT", "Operations", "Legal">>]

TimeOffColumns == [
  request_id |-> Generated(28, LAMBDA i : 7001 + i),
  employee_id |-> Generated(28, LAMBDA i : EmployeeColumns.employee_id[1 + ((i * 7 + 3) % 30)])]

CatalogColumns == [
  service_id |-> Generated(8, LAMBDA i : 1 + i)]

(* Assets are numbered in the order of _IT_ASSET_MODELS.                   *)
AssetColumns == [
  asset_tag |-> Generated(18, LAMBDA i : 1 + i)]

TicketColumns == [
  ticket_id |-> Generated(30, LAMBDA i : 5001 + i),
  asset_tag |-> Generated(30, LAMBDA i :
    IF i % 7 = 0 THEN Blank ELSE AssetColumns.asset_tag[1 + ((i * 3) % 18)]),
  service_id |-> Generated(30, LAMBDA i : CatalogColumns.service_id[1 + ((i * 2) % 8)])]

AccountColumns == [
  account_id |-> Generated(20, LAMBDA i : 1001 + i)]

ContactColumns == [
  contact_id |-> Generated(30, LAMBDA i : 2001 + i),
  account_id |-> Generated(30, LAMBDA i : AccountColumns.account_id[1 + ((i * 3) % 20)])]

(* account_contact_ids[account_id]                                         *)
ContactsOf(account) ==
  SelectSeq(ContactColumns.contact_id, LAMBDA c : ContactColumns.account_id[c - 2000] = account)

OpportunityAccount(i) == AccountColumns.account_id[1 + ((i * 5) % 20)]

PrimaryContact(i) ==
  LET ids == ContactsOf(OpportunityAccount(i)) IN ids[1 + (i % Len(ids))]

OpportunityColumns == [
  opportunity_id |-> Generated(26, LAMBDA i : 3001 + i),
  account_id |-> Generated(26, OpportunityAccount),
  primary_contact_id |-> Generated(26, PrimaryContact)]

CostCentreColumns == [
  cost_center_id |-> <<100, 200, 300, 310, 400, 500, 600, 700>>]

ReportColumns == [
  report_id |-> Generated(24, LAMBDA i : i + 1),
  cost_center_id |-> Generated(24, LAMBDA i : CostCentreColumns.cost_center_id[1 + ((i * 3) % 8)])]

ExpenseLineColumns == [
  line_id |-> Generated(60, LAMBDA i : 9001 + i),
  report_id |-> Generated(60, LAMBDA i : ReportColumns.report_id[1 + ((i * 5) % 24)])]

ApprovalColumns == [
  approval_id |-> Generated(24, LAMBDA i : 8001 + i),
  report_id |-> Generated(24, LAMBDA i : ReportColumns.report_id[1 + i])]

(* The live rows that create_dataset stores, live and seed alike.          *)
Columns == [
  orders |-> OrderColumns, order_lines |-> OrderLineColumns,
  employees |-> EmployeeColumns, org_units |-> OrgUnitColumns, time_off_requests |-> TimeOffColumns,
  service_catalog |-> CatalogColumns, assets |-> AssetColumns, tickets |-> TicketColumns,
  accounts |-> AccountColumns, contacts |-> ContactColumns, opportunities |-> OpportunityColumns,
  cost_centres |-> CostCentreColumns, expense_reports |-> ReportColumns,
  expense_lines |-> ExpenseLineColumns, approvals |-> ApprovalColumns]

===============================================================================
