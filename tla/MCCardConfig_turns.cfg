\* One Set request at a time, beside a GetSwitchConfig.
SPECIFICATION Spec
CONSTANTS
  w1 = w1
  r1 = r1
  NPorts = 2
  Dest = {"APP"}
  App = "APP"
  Writer = {w1}
  Reader = {r1}
  Request <- Requests
  Serialized = TRUE
INVARIANTS ReportIsReal OneInterfaceForwards
PROPERTIES RequestTakesEffect DefaultsChangeAQuietSwitch
