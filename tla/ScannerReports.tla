--------------------------- MODULE ScannerReports ---------------------------
(***************************************************************************)
(* What the parsers of packages/scanners/src/index.ts make of the reports  *)
(* of scanners: parseExternalFindings for the files of a command, and the  *)
(* imports of the Greenbone and OpenSCAP checks. Pure definitions.         *)
(*                                                                         *)
(* A report is the set of its items, an item the record of all a parser    *)
(* rates it by. Texts and places are left out: with the check, the name of *)
(* an item stands for the fingerprint of its finding.                      *)
(***************************************************************************)
EXTENDS ScanPlan

CONSTANTS
  ItemNames,   \* names of the items of reports
  ImportLimit  \* findings taken from one imported report

\* One word for each spelling normalizeSeverity knows, the risk codes of ZAP,
\* and "other" for any other word.
Word == {"critical", "crit", "high", "error", "fail", "failed", "medium",
         "moderate", "warning", "warn", "low", "info", "informational",
         "passed", "0", "1", "2", "3", "other"}

\* The result of an XCCDF rule; "error" stands for every other result.
XccdfResult == {"pass", "fixed", "notapplicable", "notselected",
                "informational", "fail", "error"}

\* rating: the severity, threat or risk the scanner gives, None without one.
\* score: CVSS in tenths, None without one that begins with a number (as a
\* vector does). secret: listed among the secrets of a Trivy result.
Item == [name: ItemNames, rating: Word \cup {None}, score: Nat \cup {None},
         secret: BOOLEAN, result: XccdfResult \cup {None}, sensitive: BOOLEAN]

\* The scanners whose output is parsed.
Parsed == {"gitleaks", "semgrep", "trivy", "grype", "osv-scanner", "checkov",
           "redocly", "zap", "nuclei"}

ASSUME ReportConstants ==
  /\ ImportLimit \in Nat \ {0}
  /\ \A c \in Checks :
       definition[c].tool \in {"source", "web"} => definition[c].runs \in Parsed

-----------------------------------------------------------------------------
(* Severities                                                               *)

\* Mutant: a word that is not known is harmless.
normalizeSeverityLax(word, fallback) ==
  CASE word \in {"critical", "crit"} -> "critical"
    [] word \in {"high", "error", "fail", "failed"} -> "high"
    [] word \in {"medium", "moderate", "warning", "warn"} -> "medium"
    [] word = "low" -> "low"
    [] OTHER -> "info"

normalizeSeverity(word, fallback) ==
  CASE word \in {"critical", "crit"} -> "critical"
    [] word \in {"high", "error", "fail", "failed"} -> "high"
    [] word \in {"medium", "moderate", "warning", "warn"} -> "medium"
    [] word = "low" -> "low"
    [] word \in {"info", "informational", "passed"} -> "info"
    [] OTHER -> fallback

ofScore(score) ==
  IF score >= 90 THEN "critical"
  ELSE IF score >= 70 THEN "high"
  ELSE IF score >= 40 THEN "medium" ELSE "low"

normalizeOsvSeverity(i) ==
  IF i.rating # None THEN normalizeSeverity(i.rating, "medium")
  ELSE IF i.score = None THEN "medium" ELSE ofScore(i.score)

normalizeZapSeverity(word) ==
  CASE word = "3" -> "high"
    [] word = "2" -> "medium"
    [] word = "1" -> "low"
    [] word = "0" -> "info"
    [] OTHER -> normalizeSeverity(word, "medium")

greenboneSeverity(threat, score) ==
  IF score # None /\ score > 0 THEN ofScore(score)
                               ELSE normalizeSeverity(threat, "info")

-----------------------------------------------------------------------------
(* Findings                                                                 *)

createExecutionFinding(check, name, severity, scope, sensitive) ==
  [id |-> <<check, name>>, type |-> definition[check].type, scope |-> scope,
   severity |-> severity, sensitive |-> sensitive, status |-> "open"]

\* What is reported of an item is about the checked project.
Reported(check, i, severity) ==
  createExecutionFinding(check, i.name, severity, "application", i.sensitive)

Rated(check, report) ==
  {Reported(check, i, normalizeSeverity(i.rating, "medium")) : i \in report}

parseGitleaksFindings(check, report) ==
  {Reported(check, i, "critical") : i \in report}

parseTrivyFindings(check, report) ==
  {Reported(check, i, IF i.secret THEN "critical"
                      ELSE normalizeSeverity(i.rating, "medium")) : i \in report}

parseSemgrepFindings(check, report) == Rated(check, report)
parseGrypeFindings(check, report) == Rated(check, report)
parseCheckovFindings(check, report) == Rated(check, report)
parseRedoclyFindings(check, report) == Rated(check, report)
parseNucleiFindings(check, report) == Rated(check, report)

parseOsvFindings(check, report) ==
  {Reported(check, i, normalizeOsvSeverity(i)) : i \in report}

parseZapFindings(check, report) ==
  {Reported(check, i, normalizeZapSeverity(i.rating)) : i \in report}

\* The output of any other command, as that of Syft, is evidence only.
parseExternalFindings(check, report) ==
  LET runs == definition[check].runs IN
  CASE runs = "gitleaks" -> parseGitleaksFindings(check, report)
    [] runs = "semgrep" -> parseSemgrepFindings(check, report)
    [] runs = "trivy" -> parseTrivyFindings(check, report)
    [] runs = "grype" -> parseGrypeFindings(check, report)
    [] runs = "osv-scanner" -> parseOsvFindings(check, report)
    [] runs = "checkov" -> parseCheckovFindings(check, report)
    [] runs = "redocly" -> parseRedoclyFindings(check, report)
    [] runs = "zap" -> parseZapFindings(check, report)
    [] runs = "nuclei" -> parseNucleiFindings(check, report)
    [] OTHER -> {}

\* The score of an XML report loses its fraction.
WholeScore(i) == IF i.score = None THEN i
                 ELSE [i EXCEPT !.score = 10 * (@ \div 10)]

parseGreenboneJsonFindings(check, report) ==
  {Reported(check, i, greenboneSeverity(i.rating, i.score)) :
     i \in {j \in report : greenboneSeverity(j.rating, j.score) # "info"}}

parseGreenboneReportFindings(check, report, json) ==
  parseGreenboneJsonFindings(check,
    IF json THEN report ELSE {WholeScore(i) : i \in report})

parseOpenScapResultFindings(check, report) ==
  {Reported(check, i, IF i.result = "fail"
                      THEN normalizeSeverity(i.rating, "medium") ELSE "high") :
     i \in {j \in report : j.result \in {"fail", "error"}}}
=============================================================================
