SPECIFICATION Spec
CONSTANTS
  pro = pro
  flash = flash
  Models = {pro, flash}
  Family <- MCFamily
  RawCatalogs <- MCRawCatalogs
  Fallback <- MCFallback
  Wants <- MCWants
  MaxVersion = 2
  Manual = {m1}
  Requests = {q1}
INVARIANTS
  CatalogIsUsable
  BodyFits
PROPERTIES
  InstallIsRecent
  ScheduleGoesOn
  SchedulerStops
