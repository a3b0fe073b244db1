SPECIFICATION Spec

CONSTANTS
  dojo = dojo
  headers = headers
  openvas = openvas
  leaks = leaks
  sbom = sbom
  zap = zap
  openapi = openapi
  certificate = certificate
  dns = dns
  env = env
  openscap = openscap
  osv = osv
  unsupported = unsupported
  odd = odd
  note = note
  Blank = Blank
  None = None
  Checks = {dojo, headers, openvas, leaks, sbom, zap, openapi, certificate, dns, env, openscap, osv, unsupported}
  FindingIds <- SomeIds
  definition <- definitions
  ItemNames = {odd, note}
  ImportLimit = 1
  Parts = {"code", "requestId"}
  parts <- NoParts
  Sensitive <- Texts
  LocalHosts <- ThisHost
  Hosts <- SomeHosts
  ProductionLabels = {"prod", "production"}
  DefaultHosts <- Local
  Profiles <- ScannerProfiles
  Requests <- Admitted
  Runners = {"local"}
  reports <- Remarks
  sights <- SomeSights
  classification = "internal"
  MaxAttempts = 1

INVARIANTS
  FailureIsNoPass

CHECK_DEADLOCK FALSE
