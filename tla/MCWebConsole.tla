---------------------------- MODULE MCWebConsole ----------------------------
(* Instances of WebConsole for TLC: four users at work, each with the      *)
(* deployment, the panels and the mishaps that meet what they do.           *)
EXTENDS WebConsole

CONSTANTS t1, p1

\* Signing in and out, with tokens that expire and roles that are missing.
Visitor == [mode |-> "oidc", configured |-> TRUE, client |-> TRUE,
            database |-> TRUE,
            panels |-> {"loadProfiles", "refreshProjects", "refreshScanRuns"},
            controls |-> {"signIn", "signOut", "paste", "refreshScanRuns", "refreshDoctor", "changeLocale"},
            clicks |-> 2, runs |-> 0, visits |-> 2, stored |-> {None, p1},
            good |-> {"200", "403"}, changes |-> 1, faults |-> {"login"}]

\* Scans one after the other under a token from the form.
Operator == [mode |-> "shared-token", configured |-> TRUE, client |-> FALSE,
             database |-> TRUE, panels |-> {},
             controls |-> {"runScan.queue", "openScanLog"},
             clicks |-> 2, runs |-> 2, visits |-> 1, stored |-> {p1},
             good |-> {"200"}, changes |-> 0, faults |-> {}]

\* One scan, watched and triaged while the token expires or loses its role.
Watcher == [Operator EXCEPT !.controls = {"runScan.queue", "openScanLog", "updateFindingTriageState", "signOut"},
                            !.clicks = 2, !.runs = 1, !.changes = 1, !.faults = {"error", "403"}]

\* Every control once, where the API asks for no identity.
Developer == [mode |-> "disabled", configured |-> TRUE, client |-> FALSE,
              database |-> FALSE, panels |-> {"refreshAkbStatus", "loadProfiles"},
              controls |-> Controls,
              clicks |-> 1, runs |-> 1, visits |-> 1, stored |-> {None},
              good |-> {"200"}, changes |-> 0, faults |-> {"error"}]

Users == {Visitor, Operator, Watcher, Developer}
=============================================================================
