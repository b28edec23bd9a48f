------------------------------ MODULE Credentials ------------------------------
(***************************************************************************)
(* The credentials table and the operations of identity/registry.py on it: *)
(* issue_token, renew_token and revoke_token, run by separate CLI          *)
(* processes on one database.  Issue and revoke are one transaction with   *)
(* their audit event; renew first SELECTs and checks the row outside any   *)
(* transaction and then UPDATEs it by id alone.                            *)
(***************************************************************************)
EXTENDS Naturals, Sequences

CONSTANTS
  Clis,      \* CLI processes
  Tokens,    \* the tokens secrets.token_urlsafe may produce
  TTLs,      \* the --ttl-seconds values used
  NoExpiry,  \* expiry IS NULL
  MaxClock,  \* bound: the wall clock stays in 0..MaxClock
  MaxAudit   \* bound: credential events written

ASSUME CredentialAssumption ==
  /\ TTLs \subseteq Nat
  /\ MaxClock \in Nat /\ MaxAudit \in Nat

VARIABLES
  clock,    \* wall clock, as _now_str() reads it
  creds,    \* credentials rows: status, expiry
  audit,    \* the credential.* events, in commit order
  renewal   \* what a CLI process inside renew_token read and computed

credVars == <<clock, creds, audit, renewal>>

Time == 0..MaxClock
Expiries == Nat \cup {NoExpiry}
NoRow == [status |-> "none", expiry |-> NoExpiry]
Rows == [status : {"none", "active", "revoked"}, expiry : Expiries]
NoRenewal == [token |-> NoExpiry]
Renewals == [token : Tokens, expiry : Nat]
AuditEvents == [type : {"issued", "renewed", "revoked"}, token : Tokens,
                expiry : Expiries]

\* load_token_registry's filter: active, and not yet expired.
Expired(row) == row.expiry # NoExpiry /\ row.expiry <= clock
Usable(row) == row.status = "active" /\ ~Expired(row)

CredInit ==
  /\ clock = 0
  /\ creds = [k \in Tokens |-> NoRow]
  /\ audit = <<>>
  /\ renewal = [c \in Clis |-> NoRenewal]

CredTick ==
  /\ clock < MaxClock
  /\ clock' = clock + 1
  /\ UNCHANGED <<creds, audit, renewal>>

\* _log_credential_event: the row's own expiry, read in the open transaction.
Audited(type, k) ==
  /\ Len(audit) < MaxAudit
  /\ audit' = Append(audit, [type |-> type, token |-> k, expiry |-> creds'[k].expiry])

\* Mutant: the audit event is left out of the transaction.
IssueUnaudited(c, k, expiry) ==
  /\ renewal[c] = NoRenewal
  /\ creds[k] = NoRow
  /\ creds' = [creds EXCEPT ![k] = [status |-> "active", expiry |-> expiry]]
  /\ UNCHANGED <<clock, audit, renewal>>

\* issue_token: the row and credential.issued in one transaction.
Issue(c, k, expiry) ==
  /\ renewal[c] = NoRenewal
  /\ creds[k] = NoRow
  /\ creds' = [creds EXCEPT ![k] = [status |-> "active", expiry |-> expiry]]
  /\ Audited("issued", k)
  /\ UNCHANGED <<clock, renewal>>

\* renew_token up to its UPDATE.  A missing, inactive or expired credential
\* raises ValueError instead and changes nothing.
RenewCheck(c, k, ttl) ==
  /\ renewal[c] = NoRenewal
  /\ Usable(creds[k])
  /\ renewal' = [renewal EXCEPT ![c] = [token |-> k, expiry |-> clock + ttl]]
  /\ UNCHANGED <<clock, creds, audit>>

\* Mutant: renewal also writes the status it read back.
RenewApplyActive(c) ==
  LET r == renewal[c] IN
  /\ r # NoRenewal
  /\ creds' = [creds EXCEPT ![r.token] = [status |-> "active", expiry |-> r.expiry]]
  /\ Audited("renewed", r.token)
  /\ renewal' = [renewal EXCEPT ![c] = NoRenewal]
  /\ UNCHANGED clock

\* UPDATE credentials SET expiry WHERE id, credential.renewed, commit.
RenewApply(c) ==
  LET r == renewal[c] IN
  /\ r # NoRenewal
  /\ creds' = [creds EXCEPT ![r.token].expiry = r.expiry]
  /\ Audited("renewed", r.token)
  /\ renewal' = [renewal EXCEPT ![c] = NoRenewal]
  /\ UNCHANGED clock

\* revoke_token: UPDATE ... WHERE status = 'active', with credential.revoked.
\* Without an active row it raises ValueError and changes nothing.
Revoke(c, k) ==
  /\ renewal[c] = NoRenewal
  /\ creds[k].status = "active"
  /\ creds' = [creds EXCEPT ![k].status = "revoked"]
  /\ Audited("revoked", k)
  /\ UNCHANGED <<clock, renewal>>

\* A CLI process killed inside renew_token: nothing was written yet.
CliCrash(c) ==
  /\ renewal[c] # NoRenewal
  /\ renewal' = [renewal EXCEPT ![c] = NoRenewal]
  /\ UNCHANGED <<clock, creds, audit>>

CredStep ==
  \E c \in Clis :
    \/ \E k \in Tokens :
         \/ Issue(c, k, NoExpiry)
         \/ \E ttl \in TTLs : Issue(c, k, clock + ttl) \/ RenewCheck(c, k, ttl)
         \/ Revoke(c, k)
    \/ RenewApply(c)
    \/ CliCrash(c)

CredNext == CredTick \/ CredStep

CredSpec == CredInit /\ [][CredNext]_credVars

-------------------------------------------------------------------------------
\* Types of the table, the audit events and a renewal in progress.
CredTypeOK ==
  /\ clock \in Time
  /\ creds \in [Tokens -> Rows]
  /\ audit \in Seq(AuditEvents)
  /\ renewal \in [Clis -> {NoRenewal} \cup Renewals]

\* What an auditor rebuilds from the credential events alone.
Replayed(row, e) ==
  CASE e.type = "issued"  -> [status |-> "active", expiry |-> e.expiry]
    [] e.type = "renewed" -> [row EXCEPT !.expiry = e.expiry]
    [] e.type = "revoked" -> [row EXCEPT !.status = "revoked"]

\* The tables the auditor goes through, one per event.
Replay[i \in 0..Len(audit)] ==
  IF i = 0
  THEN [k \in Tokens |-> NoRow]
  ELSE LET e == audit[i] IN
       [Replay[i - 1] EXCEPT ![e.token] = Replayed(@, e)]

\* The audit log and the table tell the same story: replaying the
\* credential.* events in chain order gives every token's current status and
\* expiry, so no change escapes the log and none is logged that did not
\* happen (registry.py:48-73, "the state change and its audit entry land
\* together"), even with renewals racing revocations and killed processes.
AuditReplays == creds = Replay[Len(audit)]

\* A revoked credential is never active again, whatever a renewal that had
\* already passed its check goes on to write (registry.py:151).
RevocationIsFinal ==
  [][\A k \in Tokens : creds[k].status = "revoked" => creds'[k].status = "revoked"]_credVars

\* renew_token's docstring (registry.py:134-136): renewal must not be able to
\* resurrect a credential that has already been cut off.
NeverResurrected ==
  [][\A k \in Tokens :
       creds[k].status # "none" /\ ~Usable(creds[k]) => ~Usable(creds[k])']_credVars
===============================================================================
