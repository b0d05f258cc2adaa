----------------------------- MODULE SchemaPlan -----------------------------
(***************************************************************************)
(* What the SQL stores read (_internal/stores/sqlalchemy_core.py): the     *)
(* columns each table turns out to have, the allow-lists an operator may   *)
(* give, and the plan that follows. The order of columns is left out.      *)
(***************************************************************************)
EXTENDS Sequences, SequencesExt

SessionTable == [required |-> {"id", "token", "expiresAt", "userId"},
                 own      |-> {"createdAt", "updatedAt", "ipAddress", "userAgent",
                               "impersonatedBy"}]

UserTable == [required |-> {"id"},
              own      |-> {"name", "email", "emailVerified", "image", "createdAt",
                            "updatedAt", "role", "banned", "banReason", "banExpires"}]

\* Construction: two tables, and lists that are sequences of distinct names.
AreNames(session, user) == session # "blank" /\ user # "blank" /\ session # user

IsAllowList(list) ==
  \/ list.kind = "every"
  \/ /\ list.kind = "sequence"
     /\ "blank" \notin ToSet(list.names) /\ IsInjective(list.names)

IsSqlConfig(config) ==
  /\ AreNames(config.sessionTable, config.userTable)
  /\ IsAllowList(config.sessions) /\ IsAllowList(config.users)

\* Discovery: a table without what every lookup reads is refused, and so is a list that
\* names a column the table does not have.
IsUsable(table, shape, list) ==
  /\ table.exists
  /\ shape.required \subseteq table.columns
  /\ list.kind = "sequence" => ToSet(list.names) \subseteq table.columns

IsPlanned(tables, config) ==
  /\ IsUsable(tables.sessions, SessionTable, config.sessions)
  /\ IsUsable(tables.users, UserTable, config.users)

\* A list narrows the columns that are not Better Auth's own, and no other.
Extras(table, list) ==
  {c \in table.columns : list.kind = "every" \/ c \in ToSet(list.names)}

MutantAccepted(table, shape, list) == shape.required \cup Extras(table, list)

Accepted(table, shape, list) ==
  shape.required \cup (table.columns \cap shape.own) \cup Extras(table, list)

\* A row as the plan's statement selects it: a column that is not read is not there.
Selected(row, columns) ==
  [field \in DOMAIN row |->
     IF field \notin {"banned", "banExpires"} \/ field \in columns THEN row[field]
     ELSE IF field = "banned" THEN "absent" ELSE [kind |-> "absent", at |-> 0]]

RowsRead(rows, tables, config) ==
  LET columns == Accepted(tables.users, UserTable, config.users) IN
  [i \in DOMAIN rows |-> Selected(rows[i], columns)]
=============================================================================
