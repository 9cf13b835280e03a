--------------------------- MODULE CertifiedStore ---------------------------
(***************************************************************************)
(* What the evidence generator promises about stored documents, told       *)
(* without workers, messages, retries or transactions.                     *)
(*                                                                         *)
(* Every package owns two objects in the bucket, a PDF and a JSON file,    *)
(* and a certificate: the checksum in its database row.  A document is     *)
(* named by the number of the build that assembled it.  One build at a     *)
(* time is open on a package; it uploads the PDF, then the JSON, and then  *)
(* certifies both, or is given up at any point.                            *)
(***************************************************************************)
EXTENDS Naturals

CONSTANT Package

VARIABLES
    latest,    \* latest[p]: number of the last build begun on p
    open,      \* open[p]: that build is still under way
    pdf,       \* pdf[p]: the build whose PDF is in the bucket, 0 if none
    json,      \* json[p]: the build whose JSON is in the bucket, 0 if none
    certified  \* certified[p]: the build whose checksum the row holds, 0 if none

storeVars == <<latest, open, pdf, json, certified>>

Init ==
    /\ latest = [p \in Package |-> 0]
    /\ open = [p \in Package |-> FALSE]
    /\ pdf = [p \in Package |-> 0]
    /\ json = [p \in Package |-> 0]
    /\ certified = [p \in Package |-> 0]

Begin(p) ==
    /\ ~open[p]
    /\ open' = [open EXCEPT ![p] = TRUE]
    /\ latest' = [latest EXCEPT ![p] = @ + 1]
    /\ UNCHANGED <<pdf, json, certified>>

UploadPdf(p) ==
    /\ open[p]
    /\ pdf' = [pdf EXCEPT ![p] = latest[p]]
    /\ UNCHANGED <<latest, open, json, certified>>

UploadJson(p) ==
    /\ open[p]
    /\ pdf[p] = latest[p]
    /\ json' = [json EXCEPT ![p] = latest[p]]
    /\ UNCHANGED <<latest, open, pdf, certified>>

\* The certificate is written only over a pair that is complete.
Certify(p) ==
    /\ open[p]
    /\ pdf[p] = latest[p]
    /\ json[p] = latest[p]
    /\ certified' = [certified EXCEPT ![p] = latest[p]]
    /\ open' = [open EXCEPT ![p] = FALSE]
    /\ UNCHANGED <<latest, pdf, json>>

GiveUp(p) ==
    /\ open[p]
    /\ open' = [open EXCEPT ![p] = FALSE]
    /\ UNCHANGED <<latest, pdf, json, certified>>

Next ==
    \E p \in Package :
        \/ Begin(p)
        \/ UploadPdf(p)
        \/ UploadJson(p)
        \/ Certify(p)
        \/ GiveUp(p)

Spec == Init /\ [][Next]_storeVars
=============================================================================
