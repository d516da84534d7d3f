----------------------------- MODULE ReportLedger -----------------------------
(***************************************************************************)
(* What the report channel promises its readers: a ledger that only grows, *)
(* whose n-th entry carries sequence n, and that is shown whole whenever   *)
(* the service is up with it.  The service may come up without it: what is *)
(* filed then is shown, numbered from 1, and gone when the service stops.  *)
(* No file, no replay, no lines.                                           *)
(***************************************************************************)
EXTENDS Integers, Sequences

VARIABLES
    ledger,  \* the entries, as sequence of records with a field seq
    shown,   \* what readers can cite
    up,      \* the service answers
    kept     \* what is filed goes to the ledger

ledgerVars == <<ledger, shown, up, kept>>

LedgerInit == ledger = <<>> /\ shown = <<>> /\ up = FALSE /\ kept = FALSE

(* after is before and one entry more, under the next number.              *)
OneMoreEntry(before, after) ==
    /\ Len(after) = Len(before) + 1
    /\ \A k \in 1..Len(before) : after[k] = before[k]
    /\ after[Len(before) + 1].seq = Len(before) + 1

FileReport ==
    /\ up /\ kept
    /\ OneMoreEntry(ledger, ledger') /\ shown' = ledger'
    /\ UNCHANGED <<up, kept>>

FileAside ==
    /\ up /\ ~kept
    /\ OneMoreEntry(shown, shown')
    /\ UNCHANGED <<ledger, up, kept>>

Down == up' = FALSE /\ kept' = FALSE /\ shown' = <<>>

FileAndStop == up /\ kept /\ OneMoreEntry(ledger, ledger') /\ Down

Stop == Down /\ UNCHANGED ledger

Start == ~up /\ up' = TRUE /\ kept' = TRUE /\ shown' = ledger /\ UNCHANGED ledger

StartAside == ~up /\ up' = TRUE /\ kept' = FALSE /\ shown' = <<>> /\ UNCHANGED ledger

LedgerNext == FileReport \/ FileAside \/ FileAndStop \/ Stop \/ Start \/ StartAside

LedgerSpec == LedgerInit /\ [][LedgerNext]_ledgerVars
=============================================================================
