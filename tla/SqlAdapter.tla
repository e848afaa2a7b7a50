------------------------------ MODULE SqlAdapter ------------------------------
(* What the Postgres adapter (packages/db/src/postgres.ts) tells the code  *)
(* above it of a statement that wrote rows.                                *)
EXTENDS Integers

\* What the callers expect, and a driver that counts rows (SQLite, D1) tells them.
RowsChanged(changed, returning) == changed

\* run(): the rows that came back. An UPDATE or DELETE without RETURNING gives none,
\* whatever it changed.
RowsWritten(changed, returning) == IF returning THEN changed ELSE 0
=============================================================================
