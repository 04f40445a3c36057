------------------------------- MODULE Routes -------------------------------
(***************************************************************************)
(* What the controllers ask of a caller.  A route is the record of its     *)
(* decorators, as the guards of app.module.ts read them; a controller is   *)
(* the set of the records of its routes (routes with the same decorators   *)
(* are one record).  PageRegistry is the list from which a company         *)
(* administrator grants permissions to a role.                             *)
(***************************************************************************)
EXTENDS Naturals

Anyone == "anyone"        \* any user of the tenant
CompanyAdmin  == "company admin"
PlatformAdmin == "platform admin"

NoPage == "no page"
NoNeed == [page |-> NoPage, action |-> "VIEW", tabs |-> {}]

\* public: @Public; expired: @AllowExpiredDemo; demo: not @DemoRestricted;
\* who: a guard of the route; modules: @RequiresModule; page: @ModulePage, or
\* the page of the permission; need: @RequiresPermission.
Route == [public |-> FALSE, expired |-> FALSE, demo |-> TRUE, who |-> Anyone,
          modules |-> {}, page |-> NoPage, need |-> NoNeed]

Public  == {[Route EXCEPT !.public = TRUE]}
LogIn   == {Route}
Expired == {[Route EXCEPT !.expired = TRUE]}
Admins  == {[Route EXCEPT !.demo = FALSE, !.who = CompanyAdmin]}

Needs(page, action, tabs) == [page |-> page, action |-> action, tabs |-> tabs]
Tabs(page, action, tabs)  ==
  {[Route EXCEPT !.page = page, !.need = Needs(page, action, tabs)]}
Page(page, actions) == UNION {Tabs(page, a, {}) : a \in actions}
Crm  == [Route EXCEPT !.modules = {"crm"}]

Crud   == {"VIEW", "CREATE", "UPDATE", "DELETE"}
Update == {"UPDATE"}
\* A list under the settings: read by every user of a tenant with the crm module.
Option == {Crm, [Crm EXCEPT !.need = Needs("settings", "UPDATE", {})]}
-----------------------------------------------------------------------------
HealthController == Public
AuthController   == Public \union Expired
UsersController  == LogIn \union Admins \union Tabs("settings", "VIEW", {"users"})
RolesController  ==
  Admins \union Tabs("settings", "VIEW", {"roles", "pageAccess", "actionPermissions"})
PlatformAdminController == {[Route EXCEPT !.who = PlatformAdmin]}
TenantsController       == LogIn \union Page("settings", Update)
TenantSettingsController == Option
AuditController   == Page("settings", {"VIEW"})
CacheController   == Tabs("settings", "UPDATE", {"general"})
DemoAccountsController == Public
FilesController   == LogIn
OnboardingController == LogIn
QueryController   == LogIn
NotesController   == LogIn
NotificationsController == LogIn
ChatbotController == LogIn
PublicSurveysController == Public

BrandOptionsController    == Option
SectorOptionsController   == Option
DepartmentOptionsController == Option
TitleOptionsController    == Option
ProductCategoriesController == Option
PaymentMethodOptionsController == Option
QuoteRejectionReasonOptionsController == Option
InteractionTypeOptionsController == Option
ReminderTypeOptionsController == Option
UnitOptionsController     == Option
IbanOptionsController     == Option
IbanOptionGroupsController == Option

AccountsController    == Page("accounts", Crud \union {"EXPORT"})
ContactsController    == Page("contacts", Crud \union {"EXPORT"})
OpportunitiesController == Page("opportunities", Crud)
InteractionsController == Page("interactions", Crud \union {"EXPORT"})
CalendarEventsController == Page("calendar", Crud)
CalendarSharesController == Page("calendar", {"VIEW"})
MessagesController    == Page("messages", {"VIEW", "CREATE"})
ProductsController    == Page("products", Crud)
ProductListsController == Page("product-lists", Crud)
WarehousesController  == Page("warehouses", Crud)
StockItemsController  == Page("stock", {"VIEW", "UPDATE"})
QuotesController      ==
  Page("quotes", Crud \union {"APPROVE"})
  \union {[Route EXCEPT !.page = "quotes",
                        !.need = Needs("purchase-orders", "CREATE", {})]}
QuoteTemplatesController == Page("quote-templates", Crud)
SalesOrdersController == Page("sales-orders", {"VIEW", "CREATE", "UPDATE", "EXPORT"})
PurchaseOrdersController == Page("purchase-orders", Crud)
PostSaleCasesController == Page("post-sale-cases", {"VIEW", "UPDATE"})
SurveysController     == Page("surveys", Crud)
ProjectsController    == Page("projects", Crud)
DrawingsController    == Page("drawings", Crud \union {"EXPORT"})
DrawingLibraryController == Page("drawing-library", Crud)
DrawingTemplatesController == Page("drawing-templates", Crud)
DrawingImportsController == Page("drawings", {"CREATE"})

ImportsController     == Page("accounts", {"IMPORT", "EXPORT"})
                         \union Page("contacts", {"IMPORT", "EXPORT"})
InteractionImportsController == Page("interactions", {"IMPORT"})
ProductImportsController == Page("products", {"IMPORT"})
QuoteImportsController == Page("quotes", {"IMPORT"})
ExportsController     == Page("dashboards", {"EXPORT"}) \union Page("quotes", {"EXPORT"})
                         \union Page("reports", {"EXPORT"})
ReportsController     == Page("settings", Crud)
AlertsController      == Page("settings", Crud)
DashboardsController  == Page("dashboards", Crud)
WidgetsController     == Page("dashboards", Crud)
DatasetsController    == Page("datasets", {"VIEW", "UPDATE", "DELETE"})
DatasourcesController == Page("datasets", {"VIEW", "CREATE"})

AllRoutes == UNION {
  HealthController, AuthController, UsersController, RolesController,
  PlatformAdminController, TenantsController, TenantSettingsController,
  AuditController, CacheController, DemoAccountsController, FilesController,
  OnboardingController, QueryController, NotesController,
  NotificationsController, ChatbotController, PublicSurveysController,
  BrandOptionsController, SectorOptionsController, DepartmentOptionsController,
  TitleOptionsController, ProductCategoriesController,
  PaymentMethodOptionsController, QuoteRejectionReasonOptionsController,
  InteractionTypeOptionsController, ReminderTypeOptionsController,
  UnitOptionsController, IbanOptionsController, IbanOptionGroupsController,
  AccountsController, ContactsController, OpportunitiesController,
  InteractionsController, CalendarEventsController, CalendarSharesController,
  MessagesController, ProductsController, ProductListsController,
  WarehousesController, StockItemsController, QuotesController,
  QuoteTemplatesController, SalesOrdersController, PurchaseOrdersController,
  PostSaleCasesController, SurveysController, ProjectsController,
  DrawingsController, DrawingLibraryController, DrawingTemplatesController,
  DrawingImportsController, ImportsController, InteractionImportsController,
  ProductImportsController, QuoteImportsController, ExportsController,
  ReportsController, AlertsController, DashboardsController,
  WidgetsController, DatasetsController, DatasourcesController}
-----------------------------------------------------------------------------
(* Mutant of PageRegistry: as before sales orders could be exported. *)
RegistryBeforeExport ==
  LET editable == {"dashboards", "datasets", "accounts", "contacts", "calendar",
                   "interactions", "opportunities", "product-lists", "products",
                   "quotes", "quote-templates", "surveys", "projects",
                   "purchase-orders", "warehouses", "drawings",
                   "drawing-library", "drawing-templates", "settings"}
      updated  == {"post-sale-cases", "stock", "sales-orders"}
  IN   editable \X {"CREATE", "UPDATE", "DELETE"}
       \union updated \X {"UPDATE"} \union {"sales-orders", "messages"} \X {"CREATE"}
       \union {"accounts", "contacts", "interactions", "products", "quotes"} \X {"IMPORT"}
       \union {"dashboards", "accounts", "contacts", "interactions", "quotes",
               "reports", "drawings"} \X {"EXPORT"}
       \union {<<"quotes", "APPROVE">>}

(* The permission matrix: which action of which page can be granted.  The  *)
(* actions of the settings are those of its tabs.                          *)
PageRegistry ==
  LET editable == {"dashboards", "datasets", "accounts", "contacts", "calendar",
                   "interactions", "opportunities", "product-lists", "products",
                   "quotes", "quote-templates", "surveys", "projects",
                   "purchase-orders", "warehouses", "drawings",
                   "drawing-library", "drawing-templates", "settings"}
      updated  == {"post-sale-cases", "stock", "sales-orders"}
  IN   editable \X {"CREATE", "UPDATE", "DELETE"}
       \union updated \X {"UPDATE"} \union {"sales-orders", "messages"} \X {"CREATE"}
       \union {"accounts", "contacts", "interactions", "products", "quotes"} \X {"IMPORT"}
       \union {"dashboards", "accounts", "contacts", "interactions", "quotes",
               "sales-orders", "reports", "drawings"} \X {"EXPORT"}
       \union {<<"quotes", "APPROVE">>}

PageKeys  == {entry[1] : entry \in PageRegistry}
SettingsTabs == {"general", "crm", "audit", "roles", "pageAccess",
                 "actionPermissions", "users"}

\* What the "page access" tab and the matrix show an administrator.
Offered(need) == need.action = "VIEW" \/ <<need.page, need.action>> \in PageRegistry

\* What POST and PATCH roles accept: the actions of RolePermissionInputSchema,
\* on a page, and a tab of it, that assertKnownPages knows.
RoleActions == {"VIEW", "CREATE", "UPDATE", "DELETE", "IMPORT", "EXPORT"}
KnownPage(need) ==
  /\ need.page \in PageKeys
  /\ need.tabs # {} => need.page = "settings" /\ need.tabs \subseteq SettingsTabs
CanGrant(need) == need.action \in RoleActions /\ KnownPage(need)

(* PermissionGuard and hasPermission, for the union of the roles' grants:  *)
(* <<page, action, tab>>.  A need without a tab is met by a grant on any.  *)
Granted(grants, need) ==
  \/ need.page = NoPage
  \/ \E g \in grants : /\ g[1] = need.page /\ g[2] = need.action
                       /\ need.tabs # {} => g[3] \in need.tabs
=============================================================================
