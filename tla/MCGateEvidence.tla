--------------------------- MODULE MCGateEvidence ---------------------------
EXTENDS GateEvidence

CONSTANTS f1, f2

\* The first finding is any; the second is an open one of the kinds the
\* gate tells apart. One closed status stands for the four there are.
Findings ==
  {f \in Finding :
     /\ f.status \in {"open", "accepted"}
     /\ f.id = f2 => f.status = "open" /\ (f.type = "secret" => ~f.sensitive)}
=============================================================================
