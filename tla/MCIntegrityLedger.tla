--------------------------- MODULE MCIntegrityLedger ---------------------------
EXTENDS IntegrityLedger, TLC

\* Connections and requests are interchangeable.
Perms == Permutations(Workers) \cup Permutations(Readers)

\* With the daemon auditing and time passing, damage behind the last checkpoint
\* is reported, and the repair of a chain is noticed (audit_integrity_ledger).
AuditsCatchUp == DamageReported /\ RepairNoticed

=============================================================================
