------------------------- MODULE AdministrationProofs -------------------------
(***************************************************************************)
(* Theorems about Administration, for any number of requests, any calls    *)
(* they make, any sound database at the start and any number of failures.  *)
(***************************************************************************)
EXTENDS AdministrationInvariant, SequenceTheorems, WellFoundedInduction, TLAPS

-----------------------------------------------------------------------------
(* The catalogues: what a kind of row can be relied on for.                *)

\* The kinds of row, one by one.
LEMMA Kinds ==
  Kind = {"application", "appUserMetadata", "auditLog", "credential", "file", "group",
          "outboxMessage", "passwordRule", "project", "resourceServer", "scope", "role",
          "session", "template", "assignment", "user", "virtualServer"}
BY DEF Kind, EntityOf

\* They are fields of the kind.
LEMMA FixedFields ==
  ASSUME NEW kind \in Kind
  PROVE  /\ \A c \in DOMAIN RefersTo(kind) : c \in Fields(kind)
         /\ \A columns \in TableOf[kind].unique : \A c \in columns : c \in Fields(kind)
         /\ kind = "project" => "systemProject" \in Fields(kind)
<1> USE DEF EntityOf, TableOf, Entity, Table, Fields, RefersTo, NoFields
<1>1. CASE kind = "application"
  BY <1>1 DEF Application_entity, Application_table
<1>2. CASE kind = "appUserMetadata"
  BY <1>2 DEF AppUserMetadata_entity, AppUserMetadata_table
<1>3. CASE kind = "auditLog"
  BY <1>3 DEF AuditLog_entity, AuditLog_table
<1>4. CASE kind = "credential"
  BY <1>4 DEF Credential_entity, Credential_table
<1>5. CASE kind = "file"
  BY <1>5 DEF File_entity, File_table
<1>6. CASE kind = "group"
  BY <1>6 DEF Group_entity, Group_table
<1>7. CASE kind = "outboxMessage"
  BY <1>7 DEF OutboxMessage_entity, OutboxMessage_table
<1>8. CASE kind = "passwordRule"
  BY <1>8 DEF PasswordRule_entity, PasswordRule_table
<1>9. CASE kind = "project"
  BY <1>9 DEF Project_entity, Project_table
<1>10. CASE kind = "resourceServer"
  BY <1>10 DEF ResourceServer_entity, ResourceServer_table
<1>11. CASE kind = "scope"
  BY <1>11 DEF Scope_entity, Scope_table
<1>12. CASE kind = "role"
  BY <1>12 DEF Role_entity, Role_table
<1>13. CASE kind = "session"
  BY <1>13 DEF Session_entity, Session_table
<1>14. CASE kind = "template"
  BY <1>14 DEF Template_entity, Template_table
<1>15. CASE kind = "assignment"
  BY <1>15 DEF Assignment_entity, Assignment_table
<1>16. CASE kind = "user"
  BY <1>16 DEF User_entity, User_table
<1>17. CASE kind = "virtualServer"
  BY <1>17 DEF VirtualServer_entity, VirtualServer_table
<1>18. QED
  BY Kinds, <1>1, <1>2, <1>3, <1>4, <1>5, <1>6, <1>7, <1>8, <1>9, <1>10, <1>11, <1>12, <1>13, <1>14, <1>15, <1>16, <1>17

\* No setter sets them and no update writes them.
LEMMA FixedStay ==
  ASSUME NEW kind \in Kind
  PROVE  /\ \A c \in SettersOf[kind] : ~IsFixed(kind, c)
         /\ \A c \in WriteOf[kind].updated : ~IsFixed(kind, c)
<1> USE DEF SettersOf, WriteOf, Write, TableOf, Table, IsFixed, RefersTo, NoFields
<1>1. CASE kind = "application"
  BY <1>1 DEF Application_setters, Application_write, Application_table
<1>2. CASE kind = "appUserMetadata"
  BY <1>2 DEF AppUserMetadata_setters, AppUserMetadata_write, AppUserMetadata_table
<1>3. CASE kind = "auditLog"
  BY <1>3 DEF AuditLog_write, AuditLog_table
<1>4. CASE kind = "credential"
  BY <1>4 DEF Credential_setters, Credential_write, Credential_table
<1>5. CASE kind = "file"
  BY <1>5 DEF File_write, File_table
<1>6. CASE kind = "group"
  BY <1>6 DEF Group_setters, Group_write, Group_table
<1>7. CASE kind = "outboxMessage"
  BY <1>7 DEF OutboxMessage_write, OutboxMessage_table
<1>8. CASE kind = "passwordRule"
  BY <1>8 DEF PasswordRule_setters, PasswordRule_write, PasswordRule_table
<1>9. CASE kind = "project"
  BY <1>9 DEF Project_setters, Project_write, Project_table
<1>10. CASE kind = "resourceServer"
  BY <1>10 DEF ResourceServer_setters, ResourceServer_write, ResourceServer_table
<1>11. CASE kind = "scope"
  BY <1>11 DEF Scope_setters, Scope_write, Scope_table
<1>12. CASE kind = "role"
  BY <1>12 DEF Role_setters, Role_write, Role_table
<1>13. CASE kind = "session"
  BY <1>13 DEF Session_setters, Session_write, Session_table
<1>14. CASE kind = "template"
  BY <1>14 DEF Template_write, Template_table
<1>15. CASE kind = "assignment"
  BY <1>15 DEF Assignment_write, Assignment_table
<1>16. CASE kind = "user"
  BY <1>16 DEF User_setters, User_write, User_table
<1>17. CASE kind = "virtualServer"
  BY <1>17 DEF VirtualServer_setters, VirtualServer_write, VirtualServer_table
<1>18. QED
  BY Kinds, <1>1, <1>2, <1>3, <1>4, <1>5, <1>6, <1>7, <1>8, <1>9, <1>10, <1>11, <1>12, <1>13, <1>14, <1>15, <1>16, <1>17

\* An insertion writes them.
LEMMA FixedInserted ==
  ASSUME NEW kind \in Kind
  PROVE  /\ \A c \in DOMAIN RefersTo(kind) : c \in WriteOf[kind].inserted
         /\ \A columns \in TableOf[kind].unique : \A c \in columns : c \in WriteOf[kind].inserted
<1> USE DEF WriteOf, Write, TableOf, Table, Read, ReadAs, RefersTo, NoFields, Columns, Range
<1>1. CASE kind = "application"
  BY <1>1 DEF Application_write, Application_table, Application_read
<1>2. CASE kind = "appUserMetadata"
  BY <1>2 DEF AppUserMetadata_write, AppUserMetadata_table, AppUserMetadata_read
<1>3. CASE kind = "auditLog"
  BY <1>3 DEF AuditLog_write, AuditLog_table, AuditLog_read
<1>4. CASE kind = "credential"
  BY <1>4 DEF Credential_write, Credential_table, Credential_read
<1>5. CASE kind = "file"
  BY <1>5 DEF File_write, File_table, File_read
<1>6. CASE kind = "group"
  BY <1>6 DEF Group_write, Group_table, Group_read
<1>7. CASE kind = "outboxMessage"
  BY <1>7 DEF OutboxMessage_write, OutboxMessage_table, OutboxMessage_read
<1>8. CASE kind = "passwordRule"
  BY <1>8 DEF PasswordRule_write, PasswordRule_table, PasswordRule_read
<1>9. CASE kind = "project"
  BY <1>9 DEF Project_write, Project_table, Project_read
<1>10. CASE kind = "resourceServer"
  BY <1>10 DEF ResourceServer_write, ResourceServer_table, ResourceServer_read
<1>11. CASE kind = "scope"
  BY <1>11 DEF Scope_write, Scope_table, Scope_read
<1>12. CASE kind = "role"
  BY <1>12 DEF Role_write, Role_table, Role_read
<1>13. CASE kind = "session"
  BY <1>13 DEF Session_write, Session_table, Session_read
<1>14. CASE kind = "template"
  BY <1>14 DEF Template_write, Template_table, Template_read
<1>15. CASE kind = "assignment"
  BY <1>15 DEF Assignment_write, Assignment_table, Assignment_read
<1>16. CASE kind = "user"
  BY <1>16 DEF User_write, User_table, User_read
<1>17. CASE kind = "virtualServer"
  BY <1>17 DEF VirtualServer_write, VirtualServer_table, VirtualServer_read
<1>18. QED
  BY Kinds, <1>1, <1>2, <1>3, <1>4, <1>5, <1>6, <1>7, <1>8, <1>9, <1>10, <1>11, <1>12, <1>13, <1>14, <1>15, <1>16, <1>17

\* An insertion writes every field but one.
LEMMA AllInserted ==
  ASSUME NEW kind \in Kind
  PROVE  Fields(kind) \ {"requireEmailVerification"} \subseteq WriteOf[kind].inserted
<1> USE DEF WriteOf, Write, EntityOf, Entity, Fields, NoFields, Read, ReadAs, Columns, Range
<1>1. CASE kind = "application"
  BY <1>1 DEF Application_write, Application_entity, Application_read
<1>2. CASE kind = "appUserMetadata"
  BY <1>2 DEF AppUserMetadata_write, AppUserMetadata_entity, AppUserMetadata_read
<1>3. CASE kind = "auditLog"
  BY <1>3 DEF AuditLog_write, AuditLog_entity, AuditLog_read
<1>4. CASE kind = "credential"
  BY <1>4 DEF Credential_write, Credential_entity, Credential_read
<1>5. CASE kind = "file"
  BY <1>5 DEF File_write, File_entity, File_read
<1>6. CASE kind = "group"
  BY <1>6 DEF Group_write, Group_entity, Group_read
<1>7. CASE kind = "outboxMessage"
  BY <1>7 DEF OutboxMessage_write, OutboxMessage_entity, OutboxMessage_read
<1>8. CASE kind = "passwordRule"
  BY <1>8 DEF PasswordRule_write, PasswordRule_entity, PasswordRule_read
<1>9. CASE kind = "project"
  BY <1>9 DEF Project_write, Project_entity, Project_read
<1>10. CASE kind = "resourceServer"
  BY <1>10 DEF ResourceServer_write, ResourceServer_entity, ResourceServer_read
<1>11. CASE kind = "scope"
  BY <1>11 DEF Scope_write, Scope_entity, Scope_read
<1>12. CASE kind = "role"
  BY <1>12 DEF Role_write, Role_entity, Role_read
<1>13. CASE kind = "session"
  BY <1>13 DEF Session_write, Session_entity, Session_read
<1>14. CASE kind = "template"
  BY <1>14 DEF Template_write, Template_entity, Template_read
<1>15. CASE kind = "assignment"
  BY <1>15 DEF Assignment_write, Assignment_entity, Assignment_read
<1>16. CASE kind = "user"
  <2>1. Fields("user") = {"username", "displayName", "primaryEmail", "virtualServerId", "serviceUser",
                          "emailVerified", "metadata"}
    BY DEF User_entity
  <2>2. User_read.selected = <<"virtualServerId", "displayName", "username", "primaryEmail", "emailVerified",
                               "serviceUser", "metadata">>
    BY DEF User_read
  <2>3. {User_read.selected[i] : i \in 1 .. 7} \subseteq Columns(User_read)
    BY <2>2
  <2>4. Fields("user") \subseteq {User_read.selected[i] : i \in 1 .. 7}
    BY <2>1, <2>2
  <2>5. QED
    BY <1>16, <2>3, <2>4 DEF User_write
<1>17. CASE kind = "virtualServer"
  BY <1>17 DEF VirtualServer_write, VirtualServer_entity, VirtualServer_read
<1>18. QED
  BY Kinds, <1>1, <1>2, <1>3, <1>4, <1>5, <1>6, <1>7, <1>8, <1>9, <1>10, <1>11, <1>12, <1>13, <1>14, <1>15, <1>16, <1>17

\* The kinds a row refers to: no row that is deleted by a command refers to one that is.
LEMMA References ==
  ASSUME NEW kind \in Kind
  PROVE  /\ \A c \in DOMAIN RefersTo(kind) : RefersTo(kind)[c] \in Kind
         /\ \A c \in DOMAIN RefersTo(kind) : RefersTo(kind)[c] # "auditLog"
         /\ kind \in Removed =>
               \A c \in DOMAIN RefersTo(kind) : RefersTo(kind)[c] \notin Removed
         /\ kind \in {"role", "credential", "auditLog"} => TableOf[kind].unique = {}
         /\ kind = "virtualServer" => DOMAIN RefersTo(kind) = {}
<1> USE DEF TableOf, Table, RefersTo, Kind, EntityOf, NoFields, Removed
<1>1. CASE kind = "application"
  BY <1>1 DEF Application_table
<1>2. CASE kind = "appUserMetadata"
  BY <1>2 DEF AppUserMetadata_table
<1>3. CASE kind = "auditLog"
  BY <1>3 DEF AuditLog_table
<1>4. CASE kind = "credential"
  BY <1>4 DEF Credential_table
<1>5. CASE kind = "file"
  BY <1>5 DEF File_table
<1>6. CASE kind = "group"
  BY <1>6 DEF Group_table
<1>7. CASE kind = "outboxMessage"
  BY <1>7 DEF OutboxMessage_table
<1>8. CASE kind = "passwordRule"
  BY <1>8 DEF PasswordRule_table
<1>9. CASE kind = "project"
  BY <1>9 DEF Project_table
<1>10. CASE kind = "resourceServer"
  BY <1>10 DEF ResourceServer_table
<1>11. CASE kind = "scope"
  BY <1>11 DEF Scope_table
<1>12. CASE kind = "role"
  BY <1>12 DEF Role_table
<1>13. CASE kind = "session"
  BY <1>13 DEF Session_table
<1>14. CASE kind = "template"
  BY <1>14 DEF Template_table
<1>15. CASE kind = "assignment"
  BY <1>15 DEF Assignment_table
<1>16. CASE kind = "user"
  BY <1>16 DEF User_table
<1>17. CASE kind = "virtualServer"
  BY <1>17 DEF VirtualServer_table
<1>18. QED
  BY Kinds, <1>1, <1>2, <1>3, <1>4, <1>5, <1>6, <1>7, <1>8, <1>9, <1>10, <1>11, <1>12, <1>13, <1>14, <1>15, <1>16, <1>17

\* Whose a row is, is told by a reference.
LEMMA Owners ==
  ASSUME NEW kind \in Kind
  PROVE  /\ "virtualServerId" \in Fields(kind) =>
               \/ kind = "auditLog"
               \/ "virtualServerId" \in DOMAIN RefersTo(kind) /\ RefersTo(kind).virtualServerId = "virtualServer"
         /\ "userId" \in Fields(kind) =>
               "userId" \in DOMAIN RefersTo(kind) /\ RefersTo(kind).userId = "user"
         /\ "virtualServerId" \notin Fields(kind) /\ "userId" \notin Fields(kind) =>
               DOMAIN RefersTo(kind) = {}
<1> USE DEF EntityOf, TableOf, Entity, Table, Fields, RefersTo, NoFields
<1>1. CASE kind = "application"
  BY <1>1 DEF Application_entity, Application_table
<1>2. CASE kind = "appUserMetadata"
  BY <1>2 DEF AppUserMetadata_entity, AppUserMetadata_table
<1>3. CASE kind = "auditLog"
  BY <1>3 DEF AuditLog_entity, AuditLog_table
<1>4. CASE kind = "credential"
  BY <1>4 DEF Credential_entity, Credential_table
<1>5. CASE kind = "file"
  BY <1>5 DEF File_entity, File_table
<1>6. CASE kind = "group"
  BY <1>6 DEF Group_entity, Group_table
<1>7. CASE kind = "outboxMessage"
  BY <1>7 DEF OutboxMessage_entity, OutboxMessage_table
<1>8. CASE kind = "passwordRule"
  BY <1>8 DEF PasswordRule_entity, PasswordRule_table
<1>9. CASE kind = "project"
  BY <1>9 DEF Project_entity, Project_table
<1>10. CASE kind = "resourceServer"
  BY <1>10 DEF ResourceServer_entity, ResourceServer_table
<1>11. CASE kind = "scope"
  BY <1>11 DEF Scope_entity, Scope_table
<1>12. CASE kind = "role"
  BY <1>12 DEF Role_entity, Role_table
<1>13. CASE kind = "session"
  BY <1>13 DEF Session_entity, Session_table
<1>14. CASE kind = "template"
  BY <1>14 DEF Template_entity, Template_table
<1>15. CASE kind = "assignment"
  BY <1>15 DEF Assignment_entity, Assignment_table
<1>16. CASE kind = "user"
  BY <1>16 DEF User_entity, User_table
<1>17. CASE kind = "virtualServer"
  BY <1>17 DEF VirtualServer_entity, VirtualServer_table
<1>18. QED
  BY Kinds, <1>1, <1>2, <1>3, <1>4, <1>5, <1>6, <1>7, <1>8, <1>9, <1>10, <1>11, <1>12, <1>13, <1>14, <1>15, <1>16, <1>17

\* Setters set fields of the kind.
LEMMA Settable ==
  ASSUME NEW kind \in Kind
  PROVE  SettersOf[kind] \subseteq Fields(kind)
<1> USE DEF EntityOf, SettersOf, Entity, Fields, NoFields
<1>1. CASE kind = "application"
  BY <1>1 DEF Application_entity, Application_setters
<1>2. CASE kind = "appUserMetadata"
  BY <1>2 DEF AppUserMetadata_entity, AppUserMetadata_setters
<1>3. CASE kind = "auditLog"
  BY <1>3 DEF AuditLog_entity
<1>4. CASE kind = "credential"
  BY <1>4 DEF Credential_entity, Credential_setters
<1>5. CASE kind = "file"
  BY <1>5 DEF File_entity
<1>6. CASE kind = "group"
  BY <1>6 DEF Group_entity, Group_setters
<1>7. CASE kind = "outboxMessage"
  BY <1>7 DEF OutboxMessage_entity
<1>8. CASE kind = "passwordRule"
  BY <1>8 DEF PasswordRule_entity, PasswordRule_setters
<1>9. CASE kind = "project"
  BY <1>9 DEF Project_entity, Project_setters
<1>10. CASE kind = "resourceServer"
  BY <1>10 DEF ResourceServer_entity, ResourceServer_setters
<1>11. CASE kind = "scope"
  BY <1>11 DEF Scope_entity, Scope_setters
<1>12. CASE kind = "role"
  BY <1>12 DEF Role_entity, Role_setters
<1>13. CASE kind = "session"
  BY <1>13 DEF Session_entity, Session_setters
<1>14. CASE kind = "template"
  BY <1>14 DEF Template_entity
<1>15. CASE kind = "assignment"
  BY <1>15 DEF Assignment_entity
<1>16. CASE kind = "user"
  BY <1>16 DEF User_entity, User_setters
<1>17. CASE kind = "virtualServer"
  BY <1>17 DEF VirtualServer_entity, VirtualServer_setters
<1>18. QED
  BY Kinds, <1>1, <1>2, <1>3, <1>4, <1>5, <1>6, <1>7, <1>8, <1>9, <1>10, <1>11, <1>12, <1>13, <1>14, <1>15, <1>16, <1>17

-----------------------------------------------------------------------------
(* What SaveChanges does, entry by entry.                                  *)

\* A set of natural numbers has a least element.
LEMMA Least ==
  ASSUME NEW T, T \subseteq Nat, T # {}
  PROVE  \E m \in T : \A n \in T : m <= n
<1> DEFINE Below == {ss \in Nat \X Nat : ss[1] < ss[2]}
<1>1. IsWellFoundedOn(Below, Nat)
  BY NatLessThanWellFounded DEF OpToRel
<1> HIDE DEF Below
<1>2. PICK m \in T : \A n \in T : <<n, m>> \notin Below
  BY <1>1, WFMin
<1>3. \A n \in T : ~(n < m)
  BY <1>2 DEF Below
<1>4. QED
  BY <1>3

\* What SaveChanges makes of s with the n-th entry.
Begin(rows) == [rows |-> rows, ok |-> TRUE, done |-> 0]
Step(s, work, n) ==
    IF s.ok /\ Executable(s.rows, work[n])
    THEN [rows |-> Execute(s.rows, work[n]), ok |-> TRUE, done |-> n]
    ELSE [rows |-> s.rows, ok |-> FALSE, done |-> s.done]
Runs(f, rows, work, k) == f = [n \in 0 .. k |-> IF n = 0 THEN Begin(rows) ELSE Step(f[n - 1], work, n)]

\* The loop of SaveChanges is defined for every tracker.
LEMMA SavedRuns ==
  ASSUME NEW rows, NEW work, Len(work) \in Nat
  PROVE  \E f : Runs(f, rows, work, Len(work)) /\ Saved(rows, work) = f[Len(work)]
<1> DEFINE T == {k \in Nat : ~ \E f : Runs(f, rows, work, k)}
<1>1. T = {}
  <2> SUFFICES ASSUME T # {} PROVE FALSE
    OBVIOUS
  <2>1. PICK k \in T : \A n \in T : k <= n
    BY Least
  <2>2. k # 0
    <3>1. Runs([n \in 0 .. 0 |-> Begin(rows)], rows, work, 0)
      BY DEF Runs
    <3>2. QED
      BY <3>1
  <2>3. PICK f : Runs(f, rows, work, k - 1)
    <3>1. k - 1 \in Nat /\ ~(k <= k - 1)
      BY <2>2
    <3>2. k - 1 \notin T
      BY <2>1, <3>1
    <3>3. QED
      BY <3>1, <3>2
  <2> DEFINE g == [n \in 0 .. k |-> IF n = k THEN Step(f[k - 1], work, k) ELSE f[n]]
  <2>4. Runs(g, rows, work, k)
    <3>1. ASSUME NEW n \in 0 .. k PROVE g[n] = IF n = 0 THEN Begin(rows) ELSE Step(g[n - 1], work, n)
      BY <2>2, <2>3 DEF Runs
    <3>2. QED
      BY <3>1 DEF Runs
  <2>5. QED
    BY <2>1, <2>4
<1>2. PICK f : Runs(f, rows, work, Len(work))
  BY <1>1
<1> DEFINE after == CHOOSE g : Runs(g, rows, work, Len(work))
<1>3. Runs(after, rows, work, Len(work))
  BY <1>2
<1>4. Saved(rows, work) = after[Len(work)]
  BY DEF Saved, Runs, Step, Begin
<1>5. QED
  BY <1>3, <1>4

\* The tracker of one entry, and the empty one.
LEMMA SavedOne ==
  ASSUME NEW rows, NEW e
  PROVE  Saved(rows, <<e>>) = IF Executable(rows, e)
                              THEN [rows |-> Execute(rows, e), ok |-> TRUE, done |-> 1]
                              ELSE [rows |-> rows, ok |-> FALSE, done |-> 0]
<1>1. PICK f : Runs(f, rows, <<e>>, 1) /\ Saved(rows, <<e>>) = f[1]
  BY SavedRuns
<1>2. f[0] = Begin(rows) /\ f[1] = Step(f[0], <<e>>, 1)
  BY <1>1 DEF Runs
<1>3. QED
  BY <1>1, <1>2 DEF Begin, Step

\* An empty tracker is saved without a statement.
LEMMA SavedNone == ASSUME NEW rows PROVE Saved(rows, <<>>) = Begin(rows)
<1>1. PICK f : Runs(f, rows, <<>>, 0) /\ Saved(rows, <<>>) = f[0]
  BY SavedRuns
<1>2. QED
  BY <1>1 DEF Runs

-----------------------------------------------------------------------------
(* How rows evolve, whoever changes them.                                  *)

\* Rows that stay as they are have evolved,
LEMMA EvolvesNot ==
  ASSUME NEW rows, NEW new, \A id \in DOMAIN rows : Complete(rows[id])
  PROVE  Evolves(rows, rows, new)
BY DEF Evolves, Keeps, Complete

\* and two changes that are allowed make one.
LEMMA EvolvesOn ==
  ASSUME NEW a, NEW b, NEW c, NEW new,
         \A id \in DOMAIN a : Complete(a[id]), \A id \in DOMAIN b : Complete(b[id]),
         \A id \in DOMAIN c : Complete(c[id]), Evolves(a, b, new), Evolves(b, c, new)
  PROVE  Evolves(a, c, new)
<1>1. DOMAIN c \subseteq DOMAIN a \union new
  BY DEF Evolves
<1>2. ASSUME NEW id \in DOMAIN a PROVE Keeps(a, c, id)
  <2>1. id \in DOMAIN b /\ id \in DOMAIN c /\ Keeps(a, b, id) /\ Keeps(b, c, id)
    BY DEF Evolves, Keeps
  <2>2. a[id].version \in Nat /\ b[id].version \in Nat /\ c[id].version \in Nat
    BY <2>1 DEF Complete
  <2>3. c[id].version >= a[id].version
    BY <2>1, <2>2 DEF Keeps
  <2>4. ASSUME Postgres, c[id].version = a[id].version PROVE c[id].fields = a[id].fields
    <3>1. b[id].version = a[id].version /\ c[id].version = b[id].version
      BY <2>1, <2>2, <2>4 DEF Keeps
    <3>2. QED
      BY <2>1, <2>4, <3>1 DEF Keeps
  <2>5. QED
    BY <2>1, <2>3, <2>4 DEF Keeps
<1>3. QED
  BY <1>1, <1>2 DEF Evolves

\* A row stays with its server, and what it refers to stays.
LEMMA ServerStays ==
  ASSUME NEW rows, NEW r, NEW new, Evolves(rows, r, new), NEW id \in DOMAIN rows,
         rows[id].kind # "auditLog", \A i \in DOMAIN rows : Whole(rows, i)
  PROVE  ServerIn(r, id) = ServerIn(rows, id)
<1> DEFINE kind == rows[id].kind
<1>1. Keeps(rows, r, id) /\ Whole(rows, id) /\ kind \in Kind
  BY DEF Evolves, Whole, Complete
<1>2. CASE kind = "virtualServer"
  BY <1>1, <1>2 DEF ServerIn, Keeps
<1>3. CASE kind # "virtualServer" /\ "virtualServerId" \in Fields(kind)
  <2>1. IsFixed(kind, "virtualServerId")
    BY <1>1, <1>3, Owners DEF IsFixed
  <2>2. QED
    BY <1>1, <1>3, <2>1 DEF ServerIn, Keeps
<1>4. CASE kind # "virtualServer" /\ "virtualServerId" \notin Fields(kind) /\ "userId" \in Fields(kind)
  <2>1. IsFixed(kind, "userId") /\ RefersTo(kind).userId = "user" /\ "userId" \in DOMAIN RefersTo(kind)
    BY <1>1, <1>4, Owners DEF IsFixed
  <2>2. PICK user : user = rows[id].fields.userId
    OBVIOUS
  <2>3. user \in DOMAIN rows /\ rows[user].kind = "user"
    BY <1>1, <2>1, <2>2 DEF Whole
  <2>4. IsFixed("user", "virtualServerId")
    BY DEF IsFixed, RefersTo, TableOf, User_table, Table
  <2>5. r[id].fields.userId = user /\ r[user].fields.virtualServerId = rows[user].fields.virtualServerId
    BY <1>1, <2>1, <2>2, <2>3, <2>4 DEF Keeps, Evolves
  <2>6. QED
    BY <1>1, <1>4, <2>2, <2>5 DEF ServerIn, Keeps
<1>5. CASE kind # "virtualServer" /\ "virtualServerId" \notin Fields(kind) /\ "userId" \notin Fields(kind)
  BY <1>1, <1>5 DEF ServerIn, Keeps
<1>6. QED
  BY <1>2, <1>3, <1>4, <1>5

\* The references of a row that was whole stay so: what it refers to is fixed, and no row
\* leaves the database.
LEMMA ReferencesStay ==
  ASSUME NEW rows, NEW r, NEW new, Evolves(rows, r, new), NEW id \in DOMAIN rows,
         Whole(rows, id), Complete(r[id])
  PROVE  Whole(r, id)
<1>1. rows[id].kind \in Kind /\ Keeps(rows, r, id)
  BY DEF Whole, Complete, Evolves
<1>2. ASSUME NEW c \in DOMAIN RefersTo(r[id].kind)
      PROVE  \/ r[id].fields[c] = Nil /\ c = "groupId"
             \/ /\ r[id].fields[c] \in DOMAIN r
                /\ r[r[id].fields[c]].kind = RefersTo(r[id].kind)[c]
  <2>1. IsFixed(rows[id].kind, c) /\ r[id].kind = rows[id].kind
    BY <1>1 DEF IsFixed, Keeps
  <2>2. r[id].fields[c] = rows[id].fields[c]
    BY <1>1, <2>1 DEF Keeps
  <2>3. QED
    BY <2>1, <2>2 DEF Whole, Evolves, Keeps
<1>3. QED
  BY <1>2 DEF Whole

\* Its references stay within its virtual server.
LEMMA ApartStays ==
  ASSUME NEW rows, NEW r, NEW new, Evolves(rows, r, new), NEW id \in DOMAIN rows,
         rows[id].kind # "auditLog", \A i \in DOMAIN rows : Whole(rows, i), Apart(rows, id)
  PROVE  Apart(r, id)
<1>1. rows[id].kind \in Kind /\ Keeps(rows, r, id) /\ r[id].kind = rows[id].kind
  BY DEF Whole, Complete, Evolves, Keeps
<1>2. ASSUME NEW c \in DOMAIN RefersTo(r[id].kind), r[id].fields[c] # Nil
      PROVE  ServerIn(r, r[id].fields[c]) \in {Nil, ServerIn(r, id)}
  <2>1. r[id].fields[c] = rows[id].fields[c]
    BY <1>1 DEF IsFixed, Keeps
  <2>2. PICK target : target = r[id].fields[c]
    OBVIOUS
  <2>3. target \in DOMAIN rows /\ rows[target].kind # "auditLog"
    BY <1>1, <1>2, <2>1, <2>2, References DEF Whole
  <2>4. ServerIn(r, target) = ServerIn(rows, target) /\ ServerIn(r, id) = ServerIn(rows, id)
    BY <2>3, ServerStays
  <2>5. QED
    BY <1>1, <1>2, <2>1, <2>2, <2>4 DEF Apart
<1>3. ASSUME r[id].kind = "scope"
      PROVE  r[r[id].fields.resourceServerId].fields.projectId = r[id].fields.projectId
  <2>1. /\ IsFixed("scope", "resourceServerId") /\ IsFixed("scope", "projectId")
        /\ IsFixed("resourceServer", "projectId")
        /\ "resourceServerId" \in DOMAIN RefersTo("scope")
        /\ RefersTo("scope").resourceServerId = "resourceServer"
    BY DEF IsFixed, RefersTo, TableOf, Scope_table, ResourceServer_table, Table
  <2>2. PICK s : s = rows[id].fields.resourceServerId
    OBVIOUS
  <2>3. s \in DOMAIN rows /\ rows[s].kind = "resourceServer"
    BY <1>1, <1>3, <2>1, <2>2 DEF Whole
  <2>4. rows[s].fields.projectId = rows[id].fields.projectId
    BY <1>1, <1>3, <2>2 DEF Apart
  <2>5. r[id].fields.resourceServerId = s /\ r[id].fields.projectId = rows[id].fields.projectId
    BY <1>1, <1>3, <2>1, <2>2 DEF Keeps
  <2>6. r[s].fields.projectId = rows[s].fields.projectId
    BY <2>1, <2>3 DEF Keeps, Evolves
  <2>7. QED
    BY <2>4, <2>5, <2>6
<1>4. QED
  BY <1>2, <1>3 DEF Apart

-----------------------------------------------------------------------------
(* One entry of a change tracker.                                          *)

\* An insertion that the database carries out: the row is new, and nothing else changes.
LEMMA ExecuteAdded ==
  ASSUME NEW rows, NEW e, e.change = "added", e.kind \in Kind, e.stamped \in BOOLEAN,
         DOMAIN e.fields = Fields(e.kind), e.id \in DOMAIN rows => Postgres /\ e.stamped,
         Executable(rows, e), BackendOK
  PROVE  /\ e.id \notin DOMAIN rows
         /\ DOMAIN Execute(rows, e) = DOMAIN rows \union {e.id}
         /\ \A id \in DOMAIN rows : Execute(rows, e)[id] = rows[id]
         /\ Execute(rows, e)[e.id] = Row(e.kind, Stored(e))
         /\ Complete(Execute(rows, e)[e.id])
         /\ Postgres => ~Dangles(rows, e) /\ ~Conflicts(rows, e)
<1>1. e.id \notin DOMAIN rows
  BY DEF Executable, Postgres
<1>2. Execute(rows, e) = Only(e.id, Row(e.kind, Stored(e))) ++ rows
  BY DEF Execute
<1>3. /\ DOMAIN Execute(rows, e) = DOMAIN rows \union {e.id}
      /\ \A id \in DOMAIN rows : Execute(rows, e)[id] = rows[id]
      /\ Execute(rows, e)[e.id] = Row(e.kind, Stored(e))
  BY <1>1, <1>2 DEF ++, Only
<1>4. DOMAIN Stored(e) = Fields(e.kind)
  BY DEF Stored
<1>5. Complete(Row(e.kind, Stored(e)))
  BY <1>4 DEF Complete, Row
<1>6. Postgres => ~Dangles(rows, e) /\ ~Conflicts(rows, e)
  BY DEF Executable, Postgres
<1>7. QED
  BY <1>1, <1>3, <1>5, <1>6

\* An update: the written columns of the row of that version, and nothing else.
LEMMA ExecuteUpdated ==
  ASSUME NEW rows, NEW e, e.change = "updated", e.id \in DOMAIN rows, Complete(rows[e.id]),
         rows[e.id].kind = e.kind, Executable(rows, e), BackendOK
  PROVE  /\ DOMAIN Execute(rows, e) = DOMAIN rows
         /\ \A id \in DOMAIN rows \ {e.id} : Execute(rows, e)[id] = rows[id]
         /\ Complete(Execute(rows, e)[e.id])
         /\ Execute(rows, e)[e.id].kind = e.kind
         /\ \A c \in Fields(e.kind) \ WriteOf[e.kind].updated :
               Execute(rows, e)[e.id].fields[c] = rows[e.id].fields[c]
         /\ \A c \in Fields(e.kind) \ e.changed :
               Execute(rows, e)[e.id].fields[c] = rows[e.id].fields[c]
         /\ Postgres /\ Execute(rows, e)[e.id].version = rows[e.id].version =>
               Execute(rows, e)[e.id].fields = rows[e.id].fields
         /\ Postgres /\ e.changed # {} =>
               Execute(rows, e)[e.id] = Updated(rows[e.id], e) /\ rows[e.id].version = e.version
         /\ Execute(rows, e)[e.id].version >= rows[e.id].version
         /\ rows[e.id].live => Execute(rows, e)[e.id].live
         /\ Postgres /\ ~rows[e.id].live => ~Execute(rows, e)[e.id].live
<1>1. PICK row : row = rows[e.id]
  OBVIOUS
<1>2. CASE Postgres /\ e.changed = {}
  <2>1. Execute(rows, e) = rows
    BY <1>2 DEF Execute
  <2>2. row.version >= row.version /\ Complete(row) /\ DOMAIN row.fields = Fields(e.kind)
    BY <1>1 DEF Complete
  <2>3. QED
    BY <1>1, <1>2, <2>1, <2>2
<1>3. CASE Postgres /\ e.changed # {}
  <2>1. e.changed \subseteq WriteOf[e.kind].updated /\ rows[e.id].version = e.version
    BY <1>3 DEF Executable, Postgres
  <2>2. PICK new : new = Updated(row, e)
    OBVIOUS
  <2>3. Execute(rows, e) = [rows EXCEPT ![e.id] = new]
    BY <1>1, <1>3, <2>2 DEF Execute
  <2>4. new = [kind |-> row.kind, fields |-> Written(row, e), version |-> row.version + 1, live |-> row.live]
    BY <1>1, <2>2 DEF Complete, Updated
  <2>5. /\ DOMAIN Written(row, e) = DOMAIN row.fields
        /\ \A c \in DOMAIN row.fields \ e.changed : Written(row, e)[c] = row.fields[c]
    BY DEF Written
  <2>6. /\ DOMAIN Execute(rows, e) = DOMAIN rows /\ Execute(rows, e)[e.id] = new
        /\ \A id \in DOMAIN rows \ {e.id} : Execute(rows, e)[id] = rows[id]
    BY <2>3
  <2>7. new.version = row.version + 1 /\ new.version # row.version /\ new.version >= row.version
    BY <1>1, <2>4 DEF Complete
  <2>8. Complete(new) /\ new.kind = e.kind /\ new.live = row.live
    BY <1>1, <2>4, <2>5 DEF Complete
  <2>9. \A c \in Fields(e.kind) \ e.changed : new.fields[c] = row.fields[c]
    BY <1>1, <2>4, <2>5 DEF Complete
  <2>10. QED
    BY <1>1, <1>3, <2>1, <2>2, <2>6, <2>7, <2>8, <2>9
<1>4. CASE ~Postgres
  <2>1. Execute(rows, e) = [rows EXCEPT ![e.id].live = TRUE]
    BY <1>4 DEF Execute
  <2>2. Execute(rows, e)[e.id] = [row EXCEPT !.live = TRUE]
    BY <1>1, <2>1
  <2>3. Execute(rows, e)[e.id] = [kind |-> row.kind, fields |-> row.fields, version |-> row.version, live |-> TRUE]
    BY <1>1, <2>2 DEF Complete
  <2>4. /\ DOMAIN Execute(rows, e) = DOMAIN rows
        /\ \A id \in DOMAIN rows \ {e.id} : Execute(rows, e)[id] = rows[id]
    BY <2>1
  <2>5. QED
    BY <1>1, <1>4, <2>3, <2>4 DEF Complete
<1>5. QED
  BY <1>2, <1>3, <1>4

\* A deletion: the row is no longer live.
LEMMA ExecuteDeleted ==
  ASSUME NEW rows, NEW e, e.change = "deleted", e.id \in DOMAIN rows, Complete(rows[e.id])
  PROVE  /\ DOMAIN Execute(rows, e) = DOMAIN rows
         /\ \A id \in DOMAIN rows \ {e.id} : Execute(rows, e)[id] = rows[id]
         /\ Execute(rows, e)[e.id] =
               [kind |-> rows[e.id].kind, fields |-> rows[e.id].fields,
                version |-> rows[e.id].version, live |-> FALSE]
<1>1. PICK row : row = rows[e.id]
  OBVIOUS
<1>2. Execute(rows, e) = [rows EXCEPT ![e.id].live = FALSE]
  BY DEF Execute
<1>3. Execute(rows, e)[e.id] = [row EXCEPT !.live = FALSE]
  BY <1>1, <1>2
<1>4. QED
  BY <1>1, <1>2, <1>3 DEF Complete

\* Rows evolve by an entry.
LEMMA ExecuteEvolves ==
  ASSUME NEW rows, NEW u, NEW e, EntryFits(rows, u, e), Executable(rows, e), BackendOK,
         \A id \in DOMAIN rows : Complete(rows[id])
  PROVE  /\ Evolves(rows, Execute(rows, e), {e.id})
         /\ \A id \in DOMAIN Execute(rows, e) : Complete(Execute(rows, e)[id])
<1>1. CASE e.change = "added"
  <2>1. DOMAIN e.fields = Fields(e.kind) /\ (e.id \in DOMAIN rows => Postgres /\ e.stamped)
    BY <1>1 DEF EntryFits, IsEntry
  <2>2. /\ e.id \notin DOMAIN rows
        /\ DOMAIN Execute(rows, e) = DOMAIN rows \union {e.id}
        /\ \A id \in DOMAIN rows : Execute(rows, e)[id] = rows[id]
        /\ Complete(Execute(rows, e)[e.id])
    BY <1>1, <2>1, ExecuteAdded DEF EntryFits, IsEntry
  <2>3. \A id \in DOMAIN rows : Keeps(rows, Execute(rows, e), id)
    BY <2>2 DEF Keeps, Complete
  <2>4. QED
    BY <2>2, <2>3 DEF Evolves
<1>2. CASE e.change = "updated"
  <2>1. e.id \in DOMAIN rows /\ rows[e.id].kind = e.kind /\ e.kind # "auditLog" /\ e.kind \in Kind
    BY <1>2 DEF EntryFits, IsEntry
  <2>2. PICK r : r = Execute(rows, e)
    OBVIOUS
  <2>3. /\ DOMAIN r = DOMAIN rows /\ \A id \in DOMAIN rows \ {e.id} : r[id] = rows[id]
        /\ Complete(r[e.id]) /\ r[e.id].kind = e.kind
        /\ \A c \in Fields(e.kind) \ WriteOf[e.kind].updated : r[e.id].fields[c] = rows[e.id].fields[c]
        /\ \A c \in Fields(e.kind) \ e.changed : r[e.id].fields[c] = rows[e.id].fields[c]
        /\ r[e.id].version >= rows[e.id].version
        /\ Postgres /\ r[e.id].version = rows[e.id].version => r[e.id].fields = rows[e.id].fields
        /\ rows[e.id].live => r[e.id].live
        /\ Postgres /\ ~rows[e.id].live => ~r[e.id].live
    BY <1>2, <2>1, <2>2, ExecuteUpdated
  <2>4. \A c : IsFixed(e.kind, c) => c \in Fields(e.kind) \ WriteOf[e.kind].updated
    BY <2>1, FixedFields, FixedStay DEF IsFixed
  <2>5. e.kind = "application" => r[e.id].fields.systemApplication = rows[e.id].fields.systemApplication
    <3>1. "systemApplication" \in Fields("application")
      BY DEF Fields, EntityOf, Entity, Application_entity
    <3>2. "systemApplication" \notin e.changed
      BY <1>2 DEF EntryFits, IsEntry
    <3>3. QED
      BY <2>3, <3>1, <3>2
  <2>6. Keeps(rows, r, e.id)
    BY <2>1, <2>3, <2>4, <2>5 DEF Keeps
  <2>7. \A id \in DOMAIN rows \ {e.id} : Keeps(rows, r, id)
    BY <2>3 DEF Keeps, Complete
  <2>8. QED
    BY <2>2, <2>3, <2>6, <2>7 DEF Evolves
<1>3. CASE e.change = "deleted"
  <2>1. e.id \in DOMAIN rows /\ rows[e.id].kind = e.kind /\ e.kind \in Removed
    BY <1>3 DEF EntryFits, IsEntry
  <2>2. PICK r : r = Execute(rows, e)
    OBVIOUS
  <2>3. PICK row : row = rows[e.id]
    OBVIOUS
  <2>4. /\ DOMAIN r = DOMAIN rows /\ \A id \in DOMAIN rows \ {e.id} : r[id] = rows[id]
        /\ r[e.id] = [kind |-> row.kind, fields |-> row.fields, version |-> row.version, live |-> FALSE]
    BY <1>3, <2>1, <2>2, <2>3, ExecuteDeleted
  <2>5. Keeps(rows, r, e.id) /\ Complete(r[e.id])
    BY <2>1, <2>3, <2>4 DEF Keeps, Complete, Removed
  <2>6. \A id \in DOMAIN rows \ {e.id} : Keeps(rows, r, id)
    BY <2>4 DEF Keeps, Complete
  <2>7. QED
    BY <2>2, <2>4, <2>5, <2>6 DEF Evolves
<1>4. QED
  BY <1>1, <1>2, <1>3 DEF EntryFits, IsEntry

\* An entry fits the rows after others were executed.
LEMMA EntryStays ==
  ASSUME NEW rows, NEW r, NEW new, Evolves(rows, r, new), NEW u, NEW e, EntryFits(rows, u, e),
         \A id \in DOMAIN rows : Complete(rows[id]), \A id \in DOMAIN r : Complete(r[id]),
         e.change = "added" /\ e.id \in DOMAIN r => Postgres /\ e.stamped
  PROVE  EntryFits(r, u, e)
<1>1. ASSUME NEW id \in DOMAIN rows
      PROVE  /\ id \in DOMAIN r /\ r[id].kind = rows[id].kind /\ r[id].version >= rows[id].version
             /\ r[id].version \in Nat /\ rows[id].version \in Nat
             /\ Postgres /\ r[id].version = rows[id].version => r[id].fields = rows[id].fields
  BY DEF Evolves, Keeps, Complete
<1>2. CASE e.change = "added"
  BY <1>2 DEF EntryFits, IsEntry
<1>3. CASE e.change = "updated"
  <2>1. /\ e.id \in DOMAIN rows /\ e.version \in Nat /\ e.version <= rows[e.id].version
        /\ Postgres /\ e.changed # {} /\ e.version = rows[e.id].version =>
              \A c \in Fields(e.kind) \ e.changed : e.fields[c] = rows[e.id].fields[c]
    BY <1>3 DEF EntryFits, IsEntry
  <2>2. e.version <= r[e.id].version
    BY <1>1, <2>1
  <2>3. ASSUME Postgres, e.changed # {}, e.version = r[e.id].version
        PROVE  \A c \in Fields(e.kind) \ e.changed : e.fields[c] = r[e.id].fields[c]
    <3>1. rows[e.id].version = e.version
      BY <1>1, <2>1, <2>3
    <3>2. r[e.id].fields = rows[e.id].fields
      BY <1>1, <2>1, <2>3, <3>1
    <3>3. QED
      BY <2>1, <2>3, <3>1, <3>2
  <2>4. QED
    BY <1>1, <1>3, <2>1, <2>2, <2>3 DEF EntryFits, IsEntry
<1>4. CASE e.change = "deleted"
  BY <1>1, <1>4 DEF EntryFits, IsEntry
<1>5. QED
  BY <1>2, <1>3, <1>4 DEF EntryFits, IsEntry

-----------------------------------------------------------------------------
(* The tracker of a request.                                               *)

\* What belongs to H goes on belonging to it,
LEMMA OwnedStays ==
  ASSUME NEW rows, NEW r, NEW new, Evolves(rows, r, new), NEW id \in DOMAIN rows,
         rows[id].kind # "auditLog", \A i \in DOMAIN rows : Whole(rows, i),
         NEW H, Owned(rows, H, id)
  PROVE  Owned(r, H, id)
<1>1. ServerIn(r, id) = ServerIn(rows, id)
  BY ServerStays
<1>2. IsFixed("user", "virtualServerId")
  BY DEF IsFixed, RefersTo, TableOf, User_table, Table
<1>3. Keeps(rows, r, id)
  BY DEF Evolves
<1>4. QED
  BY <1>1, <1>2, <1>3 DEF Owned, Keeps

\* what a row to insert refers to is still there,
LEMMA RefersStays ==
  ASSUME NEW rows, NEW r, NEW new, Evolves(rows, r, new), \A i \in DOMAIN rows : Whole(rows, i),
         NEW H, NEW e, e.kind \in Kind, NEW c \in DOMAIN RefersTo(e.kind), Refers(rows, H, e, c)
  PROVE  Refers(r, H, e, c)
<1>1. PICK t : t = e.fields[c]
  OBVIOUS
<1>2. t \in DOMAIN rows /\ rows[t].kind = RefersTo(e.kind)[c] /\ rows[t].kind # "auditLog"
  BY <1>1, References DEF Refers
<1>3. t \in DOMAIN r /\ r[t].kind = rows[t].kind
  BY <1>2 DEF Evolves, Keeps
<1>4. e.kind # "auditLog" => Owned(r, H, t)
  BY <1>1, <1>2, OwnedStays DEF Refers
<1>5. QED
  BY <1>1, <1>2, <1>3, <1>4 DEF Refers

\* and the row itself still belongs to H.
LEMMA BelongsStays ==
  ASSUME NEW rows, NEW r, NEW new, Evolves(rows, r, new), NEW H, NEW e, Belongs(rows, H, e)
  PROVE  Belongs(r, H, e)
<1>1. IsFixed("resourceServer", "projectId")
  BY DEF IsFixed, RefersTo, TableOf, ResourceServer_table, Table
<1>2. QED
  BY <1>1 DEF Belongs, Evolves, Keeps

\* An insertion that belongs to H, with the rows it refers to, is sound.
LEMMA InsertionSound ==
  ASSUME NEW rows, Sound(rows), NEW u, NEW H, NEW e, EntryFits(rows, u, e), e.change = "added",
         Executable(rows, e), BackendOK, Belongs(rows, H, e),
         \A c \in DOMAIN RefersTo(e.kind) :
            (c = "groupId" /\ e.fields[c] = Nil) \/ Refers(rows, H, e, c)
  PROVE  /\ Sound(Execute(rows, e))
         /\ e.id \in DOMAIN Execute(rows, e) /\ Execute(rows, e)[e.id].kind = e.kind
         /\ e.kind # "auditLog" => Owned(Execute(rows, e), H, e.id)
<1>1. PICK r : r = Execute(rows, e)
  OBVIOUS
<1>2. \A id \in DOMAIN rows : Whole(rows, id) /\ Complete(rows[id])
  BY DEF Sound, Whole
<1>3. Evolves(rows, r, {e.id}) /\ \A id \in DOMAIN r : Complete(r[id])
  BY <1>1, <1>2, ExecuteEvolves
<1>4. /\ e.id \notin DOMAIN rows /\ DOMAIN r = DOMAIN rows \union {e.id}
      /\ r[e.id] = Row(e.kind, Stored(e))
  BY <1>1, ExecuteAdded DEF EntryFits, IsEntry
<1>5. r[e.id].kind = e.kind /\ r[e.id].fields = Stored(e) /\ e.kind \in Kind
  BY <1>4 DEF Row, EntryFits, IsEntry
<1>6. \A c \in DOMAIN RefersTo(e.kind) : Stored(e)[c] = e.fields[c]
  BY <1>5, FixedFields, FixedInserted DEF Stored, EntryFits, IsEntry
<1>7. \A c \in DOMAIN RefersTo(e.kind) :
         (c = "groupId" /\ e.fields[c] = Nil) \/ Refers(r, H, e, c)
  BY <1>2, <1>3, <1>5, RefersStays
<1>8. Whole(r, e.id)
  BY <1>3, <1>4, <1>5, <1>6, <1>7 DEF Whole, Refers
<1>9. ASSUME e.kind # "auditLog"
      PROVE  Owned(r, H, e.id) /\ (DOMAIN RefersTo(e.kind) # {} => ServerIn(r, e.id) = H)
  <2>1. CASE e.kind = "virtualServer"
    BY <1>5, <2>1, References DEF ServerIn, Owned, Belongs
  <2>2. CASE e.kind # "virtualServer" /\ "virtualServerId" \in Fields(e.kind)
    <3>1. Stored(e).virtualServerId = e.fields.virtualServerId
      BY <1>5, <1>6, <1>9, <2>2, Owners
    <3>2. QED
      BY <1>5, <1>9, <2>2, <3>1 DEF ServerIn, Owned, Belongs
  <2>3. CASE e.kind # "virtualServer" /\ "virtualServerId" \notin Fields(e.kind) /\ "userId" \in Fields(e.kind)
    <3>1. "userId" \in DOMAIN RefersTo(e.kind) /\ RefersTo(e.kind).userId = "user"
      BY <1>5, <2>3, Owners
    <3>2. PICK user : user = e.fields.userId
      OBVIOUS
    <3>3. r[user].fields.virtualServerId = H /\ Stored(e).userId = user
      BY <1>6, <1>7, <1>9, <3>1, <3>2 DEF Refers, Owned
    <3>4. "virtualServerId" \in Fields("user")
      BY DEF Fields, EntityOf, User_entity, Entity
    <3>5. QED
      BY <1>5, <2>3, <3>3, <3>4 DEF ServerIn, Owned
  <2>4. CASE e.kind # "virtualServer" /\ "virtualServerId" \notin Fields(e.kind) /\ "userId" \notin Fields(e.kind)
    <3>1. "virtualServerId" \in Fields("user")
      BY DEF Fields, EntityOf, User_entity, Entity
    <3>2. QED
      BY <1>5, <2>4, <3>1, Owners DEF ServerIn, Owned
  <2>5. QED
    BY <2>1, <2>2, <2>3, <2>4
<1>10. ASSUME e.kind # "auditLog" PROVE Apart(r, e.id)
  <2>1. ASSUME NEW c \in DOMAIN RefersTo(r[e.id].kind), r[e.id].fields[c] # Nil
        PROVE  ServerIn(r, r[e.id].fields[c]) \in {Nil, ServerIn(r, e.id)}
    BY <1>5, <1>6, <1>7, <1>9, <1>10, <2>1 DEF Refers, Owned
  <2>2. ASSUME e.kind = "scope"
        PROVE  r[r[e.id].fields.resourceServerId].fields.projectId = r[e.id].fields.projectId
    <3>1. "resourceServerId" \in DOMAIN RefersTo("scope") /\ "projectId" \in DOMAIN RefersTo("scope")
      BY DEF RefersTo, TableOf, Scope_table, Table
    <3>2. Belongs(r, H, e)
      BY <1>3, BelongsStays
    <3>3. QED
      BY <1>5, <1>6, <2>2, <3>1, <3>2 DEF Belongs
  <2>3. QED
    BY <1>5, <2>1, <2>2 DEF Apart
<1>11. ASSUME NEW id \in DOMAIN rows
       PROVE  id # Nil /\ Whole(r, id) /\ (r[id].kind # "auditLog" => Apart(r, id))
  <2>1. Whole(r, id)
    BY <1>2, <1>3, <1>4, ReferencesStay
  <2>2. r[id].kind = rows[id].kind
    BY <1>3 DEF Evolves, Keeps
  <2>3. QED
    BY <1>2, <1>3, <2>1, <2>2, ApartStays DEF Sound
<1>12. e.id # Nil
  BY DEF EntryFits, IsEntry
<1>13. Sound(r)
  BY <1>4, <1>5, <1>8, <1>10, <1>11, <1>12 DEF Sound
<1>14. QED
  BY <1>1, <1>4, <1>5, <1>9, <1>13

\* Neither a role's project nor whether it is of the system changes.
LEMMA SystemStays ==
  ASSUME NEW rows, NEW r, NEW new, Evolves(rows, r, new), NEW id \in DOMAIN rows,
         rows[id].kind = "role", Whole(rows, id)
  PROVE  /\ rows[id].fields.projectId \in DOMAIN rows
         /\ r[id].fields.projectId = rows[id].fields.projectId
         /\ r[r[id].fields.projectId].fields.systemProject = rows[rows[id].fields.projectId].fields.systemProject
<1>1. PICK p : p = rows[id].fields.projectId
  OBVIOUS
<1>2. "projectId" \in DOMAIN RefersTo("role") /\ RefersTo("role").projectId = "project"
  BY DEF RefersTo, TableOf, Role_table, Table
<1>3. p \in DOMAIN rows /\ rows[p].kind = "project"
  BY <1>1, <1>2 DEF Whole
<1>4. IsFixed("role", "projectId") /\ IsFixed("project", "systemProject")
  BY <1>2 DEF IsFixed
<1>5. Keeps(rows, r, id) /\ Keeps(rows, r, p)
  BY <1>3 DEF Evolves
<1>6. r[id].fields.projectId = p /\ r[p].fields.systemProject = rows[p].fields.systemProject
  BY <1>1, <1>3, <1>4, <1>5 DEF Keeps
<1>7. QED
  BY <1>1, <1>3, <1>6

\* What a request may change it may change later,
LEMMA MayChangeStays ==
  ASSUME NEW rows, NEW r, NEW new, Evolves(rows, r, new), \A i \in DOMAIN rows : Whole(rows, i),
         NEW H, NEW id, NEW fields, MayChange(rows, H, id, fields)
  PROVE  MayChange(r, H, id, fields)
<1>1. id \in DOMAIN rows /\ rows[id].kind \notin {"auditLog", "assignment"} /\ Owned(rows, H, id)
  BY DEF MayChange
<1>2. id \in DOMAIN r /\ r[id].kind = rows[id].kind /\ Keeps(rows, r, id)
  BY <1>1 DEF Evolves, Keeps
<1>3. Owned(r, H, id)
  BY <1>1, OwnedStays
<1>4. rows[id].kind = "role" => ~r[r[id].fields.projectId].fields.systemProject
  BY <1>1, SystemStays DEF MayChange
<1>5. rows[id].kind = "application" =>
          /\ "systemApplication" \notin fields
          /\ r[id].fields.systemApplication => fields \intersect SystemFields = {}
  BY <1>2 DEF MayChange, Keeps
<1>6. QED
  BY <1>1, <1>2, <1>3, <1>4, <1>5 DEF MayChange

\* and less of it.
LEMMA MayChangeLess ==
  ASSUME NEW rows, NEW H, NEW id, NEW fields, MayChange(rows, H, id, fields), NEW some, some \subseteq fields
  PROVE  MayChange(rows, H, id, some)
BY DEF MayChange

\* What a row to insert grants stays so, unless u itself has inserted rows.
LEMMA GrantsStay ==
  ASSUME NEW rows, NEW r, NEW new, Evolves(rows, r, new), \A i \in DOMAIN rows : Whole(rows, i),
         NEW u, NEW e, GrantsNothing(rows, u, e),
         (Postgres /\ e.stamped) \/ \A id \in DOMAIN r \ DOMAIN rows : id[1] # u
  PROVE  GrantsNothing(r, u, e)
<1>1. ASSUME NEW p, MayHold(rows, u, p), \A id \in DOMAIN r \ DOMAIN rows : id[1] # u
      PROVE  MayHold(r, u, p)
  <2>1. IsFixed("project", "systemProject")
    BY DEF IsFixed
  <2>2. p \in DOMAIN rows => Keeps(rows, r, p)
    BY DEF Evolves
  <2>3. QED
    BY <1>1, <2>1, <2>2 DEF MayHold, Keeps
<1>2. ASSUME NEW p, MayGrant(rows, u, p), \A id \in DOMAIN r \ DOMAIN rows : id[1] # u
      PROVE  MayGrant(r, u, p)
  <2>1. CASE p \in DOMAIN rows
    <3>1. rows[p].kind = "role" /\ ~rows[rows[p].fields.projectId].fields.systemProject
      BY <1>2, <2>1 DEF MayGrant
    <3>2. p \in DOMAIN r /\ r[p].kind = rows[p].kind
      BY <2>1 DEF Evolves, Keeps
    <3>3. ~r[r[p].fields.projectId].fields.systemProject
      BY <2>1, <3>1, SystemStays
    <3>4. QED
      BY <3>1, <3>2, <3>3 DEF MayGrant
  <2>2. CASE p \notin DOMAIN rows
    BY <1>2, <2>2 DEF MayGrant
  <2>3. QED
    BY <2>1, <2>2
<1>3. QED
  BY <1>1, <1>2 DEF GrantsNothing

\* Rows that evolve by an update or a deletion stay sound.
LEMMA SoundStays ==
  ASSUME NEW rows, NEW r, NEW new, Sound(rows), Evolves(rows, r, new), DOMAIN r \subseteq DOMAIN rows,
         \A id \in DOMAIN r : Complete(r[id])
  PROVE  Sound(r)
<1>1. \A id \in DOMAIN rows : Whole(rows, id)
  BY DEF Sound
<1>2. ASSUME NEW id \in DOMAIN r
      PROVE  id # Nil /\ Whole(r, id) /\ (r[id].kind # "auditLog" => Apart(r, id))
  <2>1. id \in DOMAIN rows /\ r[id].kind = rows[id].kind
    BY DEF Evolves, Keeps
  <2>2. Whole(r, id)
    BY <1>1, <2>1, ReferencesStay
  <2>3. QED
    BY <1>1, <2>1, <2>2, ApartStays DEF Sound
<1>3. QED
  BY <1>2 DEF Sound

\* One more statement, and the rows are still sound and belong to H or have been there before.
LEMMA AfterOne ==
  ASSUME NEW rows, NEW u, NEW H, NEW w, WorkFits(rows, u, H, w), Sound(rows), BackendOK,
         NEW k \in 0 .. Len(w), k < Len(w), NEW r, After(rows, H, w, r, k),
         Executable(r, w[k + 1])
  PROVE  After(rows, H, w, Execute(r, w[k + 1]), k + 1)
<1>1. PICK e : e = w[k + 1]
  OBVIOUS
<1>2. PICK q : q = Execute(r, e)
  OBVIOUS
<1>3. k + 1 \in 1 .. Len(w) /\ Fits(rows, u, H, w, k + 1) /\ EntryFits(rows, u, e)
  BY <1>1 DEF WorkFits, Tracker, Fits
<1>4. /\ \A id \in DOMAIN rows : Whole(rows, id) /\ Complete(rows[id])
      /\ \A id \in DOMAIN r : Whole(r, id) /\ Complete(r[id])
  BY DEF Sound, Whole, After
<1>5. EntryFits(r, u, e)
  <2>1. e.change = "added" /\ e.id \in DOMAIN r => Postgres /\ e.stamped
    BY <1>1, <1>3 DEF After
  <2>2. QED
    BY <1>3, <1>4, <2>1, EntryStays DEF After
<1>6. Evolves(r, q, {e.id}) /\ \A id \in DOMAIN q : Complete(q[id])
  BY <1>1, <1>2, <1>4, <1>5, ExecuteEvolves
<1>7. Evolves(r, q, Ids(w))
  BY <1>1, <1>3, <1>6 DEF Evolves, Ids
<1>8. Evolves(rows, q, Ids(w))
  BY <1>4, <1>6, <1>7, EvolvesOn DEF After
<1>9. ASSUME e.change = "added"
      PROVE  /\ Sound(q) /\ e.id \in DOMAIN q /\ q[e.id].kind = e.kind
             /\ e.kind # "auditLog" => Owned(q, H, e.id)
  <2>1. Belongs(rows, H, e) /\ e.kind \in Kind
    BY <1>1, <1>3, <1>9 DEF Fits, EntryFits, IsEntry
  <2>2. Belongs(r, H, e)
    BY <2>1, BelongsStays DEF After
  <2>3. ASSUME NEW c \in DOMAIN RefersTo(e.kind)
        PROVE  (c = "groupId" /\ e.fields[c] = Nil) \/ Refers(r, H, e, c)
    <3>1. CASE c = "groupId" /\ e.fields[c] = Nil
      BY <3>1
    <3>2. CASE Refers(rows, H, e, c)
      BY <1>4, <2>1, <3>2, RefersStays DEF After
    <3>3. CASE \E j \in 1 .. k : /\ w[j].change = "added" /\ w[j].id = e.fields[c]
                                 /\ w[j].kind = RefersTo(e.kind)[c]
      <4>1. PICK j \in 1 .. k : /\ w[j].change = "added" /\ w[j].id = e.fields[c]
                                /\ w[j].kind = RefersTo(e.kind)[c]
        BY <3>3
      <4>2. j \in 1 .. Len(w) /\ j <= k
        BY <4>1
      <4>3. w[j].kind # "auditLog"
        BY <2>1, <4>1, References
      <4>4. QED
        BY <4>1, <4>2, <4>3 DEF After, Refers
    <3>4. (k + 1) - 1 = k
      OBVIOUS
    <3>5. QED
      BY <1>1, <1>3, <1>9, <3>1, <3>2, <3>3, <3>4 DEF Fits
  <2>4. QED
    BY <1>1, <1>2, <1>5, <1>9, <2>2, <2>3, InsertionSound DEF After
<1>10. ASSUME e.change # "added" PROVE Sound(q)
  <2>1. e.id \in DOMAIN r
    BY <1>5, <1>10 DEF EntryFits, IsEntry
  <2>2. DOMAIN q \subseteq DOMAIN r
    BY <1>6, <2>1 DEF Evolves
  <2>3. QED
    BY <1>6, <2>2, SoundStays DEF After
<1>11. ASSUME NEW i \in 1 .. Len(w), w[i].change = "added"
       PROVE  /\ i <= k + 1 => /\ w[i].id \in DOMAIN q /\ q[w[i].id].kind = w[i].kind
                               /\ w[i].kind # "auditLog" => Owned(q, H, w[i].id)
              /\ i > k + 1 /\ w[i].id \in DOMAIN q => Postgres /\ w[i].stamped
  <2>1. CASE i = k + 1
    BY <1>1, <1>9, <1>11, <2>1
  <2>2. CASE i <= k
    <3>1. /\ w[i].id \in DOMAIN r /\ r[w[i].id].kind = w[i].kind
          /\ w[i].kind # "auditLog" => Owned(r, H, w[i].id)
      BY <1>11, <2>2 DEF After
    <3>2. w[i].id \in DOMAIN q /\ q[w[i].id].kind = w[i].kind
      BY <1>6, <3>1 DEF Evolves, Keeps
    <3>3. w[i].kind # "auditLog" => Owned(q, H, w[i].id)
      BY <1>4, <1>6, <3>1, OwnedStays
    <3>4. QED
      BY <2>2, <3>2, <3>3
  <2>3. CASE i > k + 1
    <3>1. w[i].id # e.id
      BY <1>1, <1>3, <2>3 DEF WorkFits, Tracker
    <3>2. w[i].id \in DOMAIN q => w[i].id \in DOMAIN r
      BY <1>6, <3>1 DEF Evolves
    <3>3. QED
      BY <1>11, <2>3, <3>2 DEF After
  <2>4. QED
    BY <2>1, <2>2, <2>3
<1>12. Sound(q)
  BY <1>9, <1>10
<1>13. QED
  BY <1>1, <1>2, <1>8, <1>11, <1>12 DEF After

\* The unique columns of rows that evolve by an update or a deletion stay distinct.
LEMMA DistinctStays ==
  ASSUME NEW rows, NEW r, NEW new, Evolves(rows, r, new), DOMAIN r \subseteq DOMAIN rows,
         Postgres, Distinct(rows), \A id \in DOMAIN rows : Complete(rows[id]),
         \A id \in DOMAIN r : Complete(r[id])
  PROVE  Distinct(r)
<1> SUFFICES ASSUME NEW id \in DOMAIN r, NEW other \in DOMAIN r, NEW columns \in TableOf[r[id].kind].unique,
                    r[id].live, r[other].live, r[other].kind = r[id].kind,
                    \A c \in columns : r[other].fields[c] = r[id].fields[c],
                    \A c \in columns \intersect DOMAIN RefersTo(r[id].kind) : r[id].fields[c] # Nil
             PROVE  other = id
  BY DEF Distinct
<1>1. /\ id \in DOMAIN rows /\ other \in DOMAIN rows /\ Keeps(rows, r, id) /\ Keeps(rows, r, other)
  BY DEF Evolves
<1>2. rows[id].live /\ rows[other].live /\ rows[id].kind = r[id].kind /\ rows[other].kind = r[id].kind
  BY <1>1 DEF Keeps
<1>3. \A c \in columns : rows[id].fields[c] = r[id].fields[c] /\ rows[other].fields[c] = r[other].fields[c]
  BY <1>1, <1>2 DEF Keeps, IsFixed
<1>4. QED
  BY <1>1, <1>2, <1>3 DEF Distinct

\* So do those of an insertion that does not conflict.
LEMMA DistinctAdded ==
  ASSUME NEW rows, NEW e, Postgres, Distinct(rows), e.kind \in Kind, DOMAIN e.fields = Fields(e.kind),
         ~Conflicts(rows, e), NEW r, e.id \notin DOMAIN rows, DOMAIN r = DOMAIN rows \union {e.id},
         \A id \in DOMAIN rows : r[id] = rows[id], r[e.id] = Row(e.kind, Stored(e))
  PROVE  Distinct(r)
<1> SUFFICES ASSUME NEW id \in DOMAIN r, NEW other \in DOMAIN r, NEW columns \in TableOf[r[id].kind].unique,
                    r[id].live, r[other].live, r[other].kind = r[id].kind,
                    \A c \in columns : r[other].fields[c] = r[id].fields[c],
                    \A c \in columns \intersect DOMAIN RefersTo(r[id].kind) : r[id].fields[c] # Nil
             PROVE  other = id
  BY DEF Distinct
<1>1. r[e.id].kind = e.kind /\ r[e.id].fields = Stored(e)
  BY DEF Row
<1>2. \A cs \in TableOf[e.kind].unique : \A c \in cs : Stored(e)[c] = e.fields[c]
  BY FixedFields, FixedInserted DEF Stored
<1>3. CASE id \in DOMAIN rows /\ other \in DOMAIN rows
  BY <1>3 DEF Distinct
<1>4. CASE id = e.id /\ other \in DOMAIN rows
  <2>1. columns \in TableOf[e.kind].unique /\ other \in DOMAIN rows \ {e.id}
    BY <1>1, <1>4
  <2>2. rows[other].live /\ rows[other].kind = e.kind
    BY <1>1, <1>4
  <2>3. \A c \in columns : rows[other].fields[c] = e.fields[c]
    BY <1>1, <1>2, <1>4, <2>1
  <2>4. \A c \in columns \intersect DOMAIN RefersTo(e.kind) : e.fields[c] # Nil
    BY <1>1, <1>2, <1>4, <2>1
  <2>5. QED
    BY <2>1, <2>2, <2>3, <2>4 DEF Conflicts
<1>5. CASE other = e.id /\ id \in DOMAIN rows
  <2>1. columns \in TableOf[e.kind].unique /\ id \in DOMAIN rows \ {e.id}
    BY <1>1, <1>5
  <2>2. rows[id].live /\ rows[id].kind = e.kind
    BY <1>1, <1>5
  <2>3. \A c \in columns : rows[id].fields[c] = e.fields[c]
    BY <1>1, <1>2, <1>5, <2>1
  <2>4. \A c \in columns \intersect DOMAIN RefersTo(e.kind) : e.fields[c] # Nil
    BY <1>1, <1>2, <1>5, <2>1, <2>2, <2>3
  <2>5. QED
    BY <2>1, <2>2, <2>3, <2>4 DEF Conflicts
<1>6. QED
  BY <1>3, <1>4, <1>5

\* One more statement: its own effect is there, and those of the earlier ones have stayed.
LEMMA EffectsOne ==
  ASSUME NEW rows, NEW u, NEW H, NEW w, WorkFits(rows, u, H, w), Sound(rows), BackendOK,
         NEW k \in 0 .. Len(w), k < Len(w), NEW r, After(rows, H, w, r, k), Effects(rows, w, r, k),
         Executable(r, w[k + 1])
  PROVE  Effects(rows, w, Execute(r, w[k + 1]), k + 1)
<1>1. PICK e : e = w[k + 1]
  OBVIOUS
<1>2. PICK q : q = Execute(r, e)
  OBVIOUS
<1>3. k + 1 \in 1 .. Len(w) /\ EntryFits(rows, u, e) /\ e.kind \in Kind /\ e.stamped \in BOOLEAN
  BY <1>1 DEF WorkFits, Tracker, Fits, EntryFits, IsEntry
<1>4. /\ \A id \in DOMAIN rows : Complete(rows[id])
      /\ \A id \in DOMAIN r : Complete(r[id])
  BY DEF Sound, Whole, After
<1>5. \A i \in 1 .. k : i \in 1 .. Len(w) /\ w[i].id # e.id
  BY <1>1, <1>3 DEF WorkFits, Tracker
<1>6. EntryFits(r, u, e)
  <2>1. e.change = "added" /\ e.id \in DOMAIN r => Postgres /\ e.stamped
    BY <1>1, <1>3 DEF After
  <2>2. QED
    BY <1>3, <1>4, <2>1, EntryStays DEF After
<1>7. e.id \in DOMAIN rows => r[e.id] = rows[e.id] /\ e.id \in DOMAIN r
  BY <1>5 DEF Effects, After, Evolves, Keeps
<1>8. Evolves(r, q, {e.id}) /\ \A id \in DOMAIN q : Complete(q[id])
  BY <1>2, <1>4, <1>6, <1>1, ExecuteEvolves
<1>9. /\ \A id \in DOMAIN r \ {e.id} : id \in DOMAIN q /\ q[id] = r[id]
      /\ Effected(rows, q, e)
      /\ Postgres /\ Distinct(r) => Distinct(q)
  <2>1. CASE e.change = "added"
    <3>1. /\ DOMAIN e.fields = Fields(e.kind) /\ (e.id \in DOMAIN r => Postgres /\ e.stamped)
      BY <1>6, <2>1 DEF EntryFits, IsEntry
    <3>2. /\ e.id \notin DOMAIN r /\ DOMAIN q = DOMAIN r \union {e.id}
          /\ \A id \in DOMAIN r : q[id] = r[id]
          /\ q[e.id] = Row(e.kind, Stored(e)) /\ (Postgres => ~Conflicts(r, e))
      <4>1. Executable(r, e)
        BY <1>1
      <4>2. /\ e.id \notin DOMAIN r /\ DOMAIN Execute(r, e) = DOMAIN r \union {e.id}
            /\ \A id \in DOMAIN r : Execute(r, e)[id] = r[id]
            /\ Execute(r, e)[e.id] = Row(e.kind, Stored(e))
            /\ Postgres => ~Dangles(r, e) /\ ~Conflicts(r, e)
        BY <1>3, <2>1, <3>1, <4>1, ExecuteAdded
      <4>3. QED
        BY <1>2, <4>2
    <3>3. ~(Postgres /\ e.stamped)
      BY <1>1, <2>1 DEF Executable, Postgres
    <3>4. Postgres /\ Distinct(r) => Distinct(q)
      BY <1>3, <3>1, <3>2, DistinctAdded
    <3>5. Effected(rows, q, e)
      BY <1>7, <2>1, <3>2, <3>3 DEF Effected
    <3>6. QED
      BY <3>2, <3>4, <3>5
  <2>2. CASE e.change = "updated"
    <3>1. e.id \in DOMAIN rows /\ e.id \in DOMAIN r /\ r[e.id].kind = e.kind
      BY <1>3, <1>6, <2>2 DEF EntryFits, IsEntry
    <3>2. /\ DOMAIN q = DOMAIN r /\ \A id \in DOMAIN r \ {e.id} : q[id] = r[id]
          /\ \A c \in Fields(e.kind) \ e.changed : q[e.id].fields[c] = r[e.id].fields[c]
          /\ r[e.id].live => q[e.id].live
          /\ Postgres /\ e.changed # {} => q[e.id] = Updated(r[e.id], e) /\ r[e.id].version = e.version
      BY <1>1, <1>2, <1>4, <2>2, <3>1, ExecuteUpdated
    <3>3. Effected(rows, q, e)
      BY <1>7, <2>2, <3>1, <3>2 DEF Effected
    <3>4. Postgres /\ Distinct(r) => Distinct(q)
      BY <1>4, <1>8, <3>2, DistinctStays
    <3>5. QED
      BY <3>2, <3>3, <3>4
  <2>3. CASE e.change = "deleted"
    <3>1. e.id \in DOMAIN rows /\ e.id \in DOMAIN r
      BY <1>3, <1>6, <2>3 DEF EntryFits, IsEntry
    <3>2. /\ DOMAIN q = DOMAIN r /\ \A id \in DOMAIN r \ {e.id} : q[id] = r[id]
          /\ q[e.id].fields = r[e.id].fields /\ ~q[e.id].live
      <4>1. PICK row : row = r[e.id]
        OBVIOUS
      <4>2. Complete(row)
        BY <1>4, <3>1, <4>1
      <4>3. /\ DOMAIN q = DOMAIN r /\ \A id \in DOMAIN r \ {e.id} : q[id] = r[id]
            /\ q[e.id] = [kind |-> row.kind, fields |-> row.fields, version |-> row.version, live |-> FALSE]
        BY <1>2, <2>3, <3>1, <4>1, <4>2, ExecuteDeleted
      <4>4. QED
        BY <4>1, <4>3
    <3>3. Effected(rows, q, e)
      BY <1>7, <2>3, <3>1, <3>2 DEF Effected
    <3>4. Postgres /\ Distinct(r) => Distinct(q)
      BY <1>4, <1>8, <3>2, DistinctStays
    <3>5. QED
      BY <3>2, <3>3, <3>4
  <2>4. QED
    BY <1>6, <2>1, <2>2, <2>3 DEF EntryFits, IsEntry
<1>10. ASSUME NEW id \in DOMAIN rows, \A i \in 1 .. k + 1 : w[i].id # id
       PROVE  q[id] = rows[id]
  <2>1. id # e.id /\ \A i \in 1 .. k : w[i].id # id
    BY <1>1, <1>10
  <2>2. r[id] = rows[id] /\ id \in DOMAIN r
    BY <2>1 DEF Effects, After, Evolves, Keeps
  <2>3. QED
    BY <1>9, <2>1, <2>2
<1>11. ASSUME NEW i \in 1 .. k + 1 PROVE Effected(rows, q, w[i])
  <2>1. CASE i = k + 1
    BY <1>1, <1>9, <2>1
  <2>2. CASE i \in 1 .. k
    <3>1. Effected(rows, r, w[i]) /\ w[i].id # e.id
      BY <1>5, <2>2 DEF Effects
    <3>2. w[i].id \in DOMAIN r
      BY <3>1 DEF Effected
    <3>3. q[w[i].id] = r[w[i].id] /\ w[i].id \in DOMAIN q
      BY <1>9, <3>1, <3>2
    <3>4. QED
      BY <3>1, <3>3 DEF Effected
  <2>3. QED
    BY <2>1, <2>2
<1>12. Postgres /\ Distinct(rows) => Distinct(q)
  BY <1>9 DEF Effects
<1>13. ASSUME NEW id \in DOMAIN q \ DOMAIN rows PROVE \E i \in 1 .. k + 1 : w[i].id = id
  <2>1. id \in DOMAIN r \/ id = e.id
    BY <1>8 DEF Evolves
  <2>2. CASE id = e.id
    <3>1. k + 1 \in 1 .. k + 1
      OBVIOUS
    <3>2. QED
      BY <1>1, <2>2, <3>1
  <2>3. CASE id \in DOMAIN r
    <3>1. PICK i \in 1 .. k : w[i].id = id
      BY <1>13, <2>3 DEF Effects
    <3>2. i \in 1 .. k + 1
      OBVIOUS
    <3>3. QED
      BY <3>1, <3>2
  <2>4. QED
    BY <2>1, <2>2, <2>3
<1>14. QED
  BY <1>1, <1>2, <1>10, <1>11, <1>12, <1>13 DEF Effects

\* SaveChanges executes the entries up to the first that fails, and the rows stay sound.
LEMMA SavedWork ==
  ASSUME NEW rows, NEW u, NEW H, NEW w, WorkFits(rows, u, H, w), Sound(rows), BackendOK
  PROVE  LET s == Saved(rows, w) IN
         /\ s.ok \in BOOLEAN /\ s.done \in 0 .. Len(w) /\ (s.ok <=> s.done = Len(w))
         /\ ~s.ok => ~Executable(s.rows, w[s.done + 1])
         /\ After(rows, H, w, s.rows, s.done) /\ Effects(rows, w, s.rows, s.done)
<1>1. Len(w) \in Nat
  BY DEF WorkFits, Tracker
<1>2. PICK f : Runs(f, rows, w, Len(w)) /\ Saved(rows, w) = f[Len(w)]
  BY <1>1, SavedRuns
<1>3. f[0] = Begin(rows) /\ \A n \in 1 .. Len(w) : f[n] = Step(f[n - 1], w, n)
  BY <1>1, <1>2 DEF Runs
<1> DEFINE P(n) == LET s == f[n] IN
              /\ s.ok \in BOOLEAN /\ s.done \in 0 .. n /\ (s.ok <=> s.done = n)
              /\ ~s.ok => ~Executable(s.rows, w[s.done + 1])
              /\ After(rows, H, w, s.rows, s.done) /\ Effects(rows, w, s.rows, s.done)
<1>4. P(0)
  <2>1. \A id \in DOMAIN rows : Complete(rows[id])
    BY DEF Sound, Whole
  <2>2. Evolves(rows, rows, Ids(w))
    BY <2>1, EvolvesNot
  <2>3. After(rows, H, w, rows, 0)
    BY <2>2 DEF After, WorkFits, Fits, EntryFits
  <2>4. Effects(rows, w, rows, 0)
    BY DEF Effects
  <2>5. QED
    BY <1>3, <2>3, <2>4 DEF Begin
<1>5. ASSUME NEW n \in 1 .. Len(w), P(n - 1) PROVE P(n)
  <2>1. PICK s : s = f[n - 1]
    OBVIOUS
  <2>2. /\ s.ok \in BOOLEAN /\ s.done \in 0 .. n - 1 /\ (s.ok <=> s.done = n - 1)
        /\ ~s.ok => ~Executable(s.rows, w[s.done + 1])
        /\ After(rows, H, w, s.rows, s.done) /\ Effects(rows, w, s.rows, s.done)
    BY <1>5, <2>1
  <2>3. CASE s.ok /\ Executable(s.rows, w[n])
    <3>1. f[n] = [rows |-> Execute(s.rows, w[n]), ok |-> TRUE, done |-> n]
      BY <1>3, <2>1, <2>3 DEF Step
    <3>2. n - 1 \in 0 .. Len(w) /\ n - 1 < Len(w) /\ (n - 1) + 1 = n
      BY <1>1
    <3>3. s.done = n - 1
      BY <2>2, <2>3
    <3>4. After(rows, H, w, Execute(s.rows, w[n]), n)
      BY <2>2, <2>3, <3>2, <3>3, AfterOne
    <3>5. Effects(rows, w, Execute(s.rows, w[n]), n)
      BY <2>2, <2>3, <3>2, <3>3, EffectsOne
    <3>6. QED
      BY <1>1, <3>1, <3>4, <3>5
  <2>4. CASE ~(s.ok /\ Executable(s.rows, w[n]))
    <3>1. f[n] = [rows |-> s.rows, ok |-> FALSE, done |-> s.done]
      BY <1>3, <2>1, <2>4 DEF Step
    <3>2. ~Executable(s.rows, w[s.done + 1])
      BY <1>1, <2>2, <2>4
    <3>3. s.done \in 0 .. n /\ s.done # n
      BY <1>1, <2>2
    <3>4. QED
      BY <2>2, <3>1, <3>2, <3>3
  <2>5. QED
    BY <2>3, <2>4
<1> HIDE DEF P
<1>6. P(Len(w))
  <2> DEFINE T == {n \in 0 .. Len(w) : ~P(n)}
  <2>1. T = {}
    <3> SUFFICES ASSUME T # {} PROVE FALSE
      OBVIOUS
    <3>1. T \subseteq Nat
      BY <1>1
    <3>2. PICK m \in T : \A n \in T : m <= n
      BY <3>1, Least
    <3>3. m \in 1 .. Len(w)
      BY <1>1, <1>4, <3>2
    <3>4. m - 1 \notin T /\ m - 1 \in 0 .. Len(w)
      BY <1>1, <3>2, <3>3
    <3>5. QED
      BY <1>5, <3>3, <3>4
  <2>2. QED
    BY <1>1, <2>1
<1>7. QED
  BY <1>2, <1>6 DEF P

-----------------------------------------------------------------------------
(* What the handlers track.                                                *)

\* What a lookup in a virtual server finds.
LEMMA LookedUp ==
  ASSUME NEW kind, NEW filter, NEW x \in First(kind, filter), x # Nil
  PROVE  /\ x \in DOMAIN db /\ db[x].kind = kind /\ db[x].live
         /\ \A c \in DOMAIN filter \intersect Where(backend, kind) :
               Holds(c, filter[c], x, db[x].fields)
BY DEF First, Select, SelectOn, Rows

\* The kinds that are looked up by their virtual server have it as a column.
LEMMA Searched ==
  ASSUME NEW kind \in {"project", "role", "resourceServer", "application", "user", "passwordRule"},
         BackendOK
  PROVE  /\ kind \in Kind /\ kind # "virtualServer" /\ kind # "auditLog"
         /\ "virtualServerId" \in Fields(kind) /\ "virtualServerId" \in Where(backend, kind)
<1>1. kind \in Kind /\ kind # "virtualServer" /\ kind # "auditLog"
  BY Kinds
<1>2. "virtualServerId" \in Fields(kind)
  <2> USE DEF Fields, EntityOf, Entity
  <2>1. CASE kind = "project"
    BY <2>1 DEF Project_entity
  <2>2. CASE kind = "role"
    BY <2>2 DEF Role_entity
  <2>3. CASE kind = "resourceServer"
    BY <2>3 DEF ResourceServer_entity
  <2>4. CASE kind = "application"
    BY <2>4 DEF Application_entity
  <2>5. CASE kind = "user"
    BY <2>5 DEF User_entity
  <2>6. CASE kind = "passwordRule"
    BY <2>6 DEF PasswordRule_entity
  <2>7. QED
    BY <2>1, <2>2, <2>3, <2>4, <2>5, <2>6
<1>3. "virtualServerId" \in Where(backend, kind)
  <2> USE DEF Where, ReadOf, Read, ReadAs, MatchesOf, Matches
  <2>1. CASE kind = "project"
    BY <2>1 DEF Project_read, Project_memory
  <2>2. CASE kind = "role"
    BY <2>2 DEF Role_read, Role_memory
  <2>3. CASE kind = "resourceServer"
    BY <2>3 DEF ResourceServer_read, ResourceServer_memory
  <2>4. CASE kind = "application"
    BY <2>4 DEF Application_read, Application_memory
  <2>5. CASE kind = "user"
    BY <2>5 DEF User_read, User_memory
  <2>6. CASE kind = "passwordRule"
    BY <2>6 DEF PasswordRule_read, PasswordRule_memory
  <2>7. QED
    BY <2>1, <2>2, <2>3, <2>4, <2>5, <2>6
<1>4. QED
  BY <1>1, <1>2, <1>3

\* What is looked up with the virtual server of the request belongs to that server.
LEMMA FoundInServer ==
  ASSUME NEW u, BackendOK, NEW filter, "virtualServerId" \in DOMAIN filter,
         filter["virtualServerId"] = Server(u),
         NEW kind \in {"project", "role", "resourceServer", "application", "user", "passwordRule"},
         NEW x \in First(kind, filter), x # Nil
  PROVE  /\ x \in DOMAIN db /\ db[x].kind = kind /\ db[x].live
         /\ db[x].fields.virtualServerId = Server(u) /\ Owned(db, Server(u), x)
<1>1. x \in DOMAIN db /\ db[x].kind = kind /\ db[x].live
      /\ Holds("virtualServerId", Server(u), x, db[x].fields)
  BY LookedUp, Searched
<1>2. db[x].fields.virtualServerId = Server(u)
  BY <1>1 DEF Holds
<1>3. QED
  BY <1>1, <1>2, Searched DEF Owned, ServerIn

\* The filter, or the values, of a row of the virtual server of the request,
LEMMA WithinServer ==
  ASSUME NEW u, NEW values
  PROVE  /\ DOMAIN InServer(u, values) = {"virtualServerId"} \union DOMAIN values
         /\ InServer(u, values)["virtualServerId"] = Server(u)
         /\ \A c \in DOMAIN values \ {"virtualServerId"} : InServer(u, values)[c] = values[c]
BY DEF InServer, ++

\* and of a row of a project of it.
LEMMA WithinProject ==
  ASSUME NEW u, NEW q, NEW values
  PROVE  /\ DOMAIN InProject(u, q, values) = {"virtualServerId", "projectId"} \union DOMAIN values
         /\ InProject(u, q, values)["virtualServerId"] = Server(u)
         /\ InProject(u, q, values)["projectId"] = q
<1>1. PICK s : s = InServer(u, [projectId |-> q])
  OBVIOUS
<1>2. /\ DOMAIN s = {"virtualServerId", "projectId"} /\ s["virtualServerId"] = Server(u)
      /\ s["projectId"] = q
  BY <1>1 DEF InServer, ++
<1>3. InProject(u, q, values) = s ++ values
  BY <1>1 DEF InProject
<1>4. QED
  BY <1>2, <1>3 DEF ++

LEMMA GivenInProject ==
  ASSUME NEW u, NEW q, NEW values, NEW c \in DOMAIN values, c \notin {"virtualServerId", "projectId"}
  PROVE  InProject(u, q, values)[c] = values[c]
<1>1. PICK s : s = InServer(u, [projectId |-> q])
  OBVIOUS
<1>2. DOMAIN s = {"virtualServerId", "projectId"}
  BY <1>1 DEF InServer, ++
<1>3. InProject(u, q, values) = s ++ values
  BY <1>1 DEF InProject
<1>4. QED
  BY <1>2, <1>3 DEF ++

\* The tables that the rows the commands insert refer to.
LEMMA ReferencesOf ==
  /\ RefersTo("project") = [virtualServerId |-> "virtualServer"]
  /\ RefersTo("role") = [virtualServerId |-> "virtualServer", projectId |-> "project"]
  /\ RefersTo("resourceServer") = [virtualServerId |-> "virtualServer", projectId |-> "project"]
  /\ RefersTo("application") = [virtualServerId |-> "virtualServer", projectId |-> "project"]
  /\ RefersTo("scope") = [virtualServerId |-> "virtualServer", projectId |-> "project",
                          resourceServerId |-> "resourceServer"]
  /\ RefersTo("user") = [virtualServerId |-> "virtualServer"]
  /\ RefersTo("passwordRule") = [virtualServerId |-> "virtualServer"]
  /\ RefersTo("credential") = [userId |-> "user"]
  /\ RefersTo("auditLog") = [userId |-> "user"]
  /\ RefersTo("appUserMetadata") = [applicationId |-> "application", userId |-> "user"]
  /\ RefersTo("assignment") = [userId |-> "user", roleId |-> "role", groupId |-> "group"]
  /\ RefersTo("template") = [virtualServerId |-> "virtualServer", fileId |-> "file"]
  /\ DOMAIN RefersTo("outboxMessage") = {} /\ DOMAIN RefersTo("file") = {}
  /\ DOMAIN RefersTo("virtualServer") = {}
BY DEF RefersTo, TableOf, Table, Project_table, Role_table, ResourceServer_table, Application_table,
   Scope_table, User_table, PasswordRule_table, Credential_table, AuditLog_table,
   AppUserMetadata_table, Assignment_table, Template_table, OutboxMessage_table, File_table,
   VirtualServer_table

\* A new entity has the fields of its kind.
LEMMA NewFields ==
  ASSUME NEW kind, NEW values, DOMAIN values \subseteq Fields(kind),
         EntityOf[kind].given \subseteq DOMAIN values
  PROVE  /\ DOMAIN New(kind, values) = Fields(kind)
         /\ \A c \in DOMAIN values : New(kind, values)[c] = values[c]
BY DEF New, Fields, ++

\* An application of which the values give no algorithm has none.
LEMMA DefaultAlgorithm ==
  ASSUME NEW values, "signingAlgorithm" \notin DOMAIN values
  PROVE  New("application", values).signingAlgorithm = Nothing
BY DEF New, ++, EntityOf, Entity, Application_entity

\* Of the kinds that make nobody an administrator, a request may change what is of its server.
LEMMA PlainChange ==
  ASSUME NEW rows, NEW H, NEW id \in DOMAIN rows, Owned(rows, H, id), NEW fields,
         rows[id].kind \notin {"auditLog", "assignment", "role", "application"}
  PROVE  MayChange(rows, H, id, fields)
BY DEF MayChange

\* The empty tracker fits,
LEMMA NoWork == ASSUME NEW rows, NEW u, NEW H PROVE WorkFits(rows, u, H, <<>>)
BY DEF WorkFits, Tracker

\* and one entry that belongs to H, with what it refers to.
LEMMA OneWork ==
  ASSUME NEW rows, NEW u, NEW H, NEW e, EntryFits(rows, u, e),
         e.change = "added" =>
            /\ Belongs(rows, H, e) /\ GrantsNothing(rows, u, e)
            /\ \A c \in DOMAIN RefersTo(e.kind) :
                  (c = "groupId" /\ e.fields[c] = Nil) \/ Refers(rows, H, e, c),
         e.change = "updated" => MayChange(rows, H, e.id, e.changed),
         e.change = "deleted" => MayChange(rows, H, e.id, SystemFields)
  PROVE  WorkFits(rows, u, H, <<e>>)
<1>1. PICK w : w = <<e>>
  OBVIOUS
<1>2. Len(w) = 1 /\ w[1] = e /\ w = [i \in 1 .. 1 |-> w[i]]
  BY <1>1
<1>3. Tracker(w)
  BY <1>2 DEF Tracker
<1>4. Fits(rows, u, H, w, 1)
  BY <1>2 DEF Fits
<1>5. QED
  BY <1>1, <1>2, <1>3, <1>4 DEF WorkFits

\* A handler that tracks one row to insert, one to delete,
LEMMA InsertionFits ==
  ASSUME NEW u, Ready(u), NEW name, name # "auditLog",
         NEW kind \in Kind, kind \notin {"auditLog", "virtualServer"}, NEW values, Proper(u, kind, values),
         kind = "application" => Call(u).op \in LateFailures \union {"CreateApplication"},
         kind = "application" /\ Postgres /\ Current(u) => Signs(New(kind, values), Home(u))
  PROVE  Legit(u, <<>>, <<Insertion(New1(u, name), kind, values)>>)
<1>1. PICK e : e = Insertion(New1(u, name), kind, values)
  OBVIOUS
<1>2. /\ e.change = "added" /\ e.kind = kind /\ e.id = <<u, name>> /\ e.fields = New(kind, values)
      /\ e.stamped = FALSE /\ IsEntry(e)
  BY <1>1 DEF Insertion, Entry, New1, IsEntry
<1>3. DOMAIN e.fields = Fields(kind) /\ \A c \in DOMAIN values : e.fields[c] = values[c]
  BY <1>2, NewFields DEF Proper
<1>4. e.id # Nil /\ e.id[1] = u /\ e.id \notin DOMAIN db /\ e.id # New1(u, "auditLog")
  BY <1>2 DEF Ready, Nil, New1
<1>5. EntryFits(db, u, e)
  BY <1>2, <1>3, <1>4 DEF EntryFits
<1>6. Belongs(db, Home(u), e)
  BY <1>2, <1>3 DEF Belongs, Proper
<1>7. \A c \in DOMAIN RefersTo(e.kind) :
         (c = "groupId" /\ e.fields[c] = Nil) \/ Refers(db, Home(u), e, c)
  BY <1>2, <1>3 DEF Refers, Proper
<1>8. GrantsNothing(db, u, e)
  <2>1. "projectId" \in DOMAIN RefersTo("role") /\ "roleId" \in DOMAIN RefersTo("assignment")
    BY ReferencesOf
  <2>2. QED
    BY <1>2, <1>3, <2>1 DEF GrantsNothing, Proper
<1>9. WorkFits(db, u, Home(u), <<e>>)
  BY <1>2, <1>5, <1>6, <1>7, <1>8, OneWork
<1>10. Len(<<e>>) = 1 /\ <<e>>[1] = e
  OBVIOUS
<1>11. ASSUME Postgres, Current(u) PROVE Careful(db, <<e>>, 1)
  <2>1. CASE kind = "application"
    <3>1. e.fields.virtualServerId = Home(u)
      BY <1>2, <1>3, <2>1, Searched DEF Proper, Ready
    <3>2. QED
      BY <1>2, <1>10, <1>11, <2>1, <3>1 DEF Careful, Signs
  <2>2. CASE kind # "application"
    BY <1>2, <1>10, <2>2 DEF Careful
  <2>3. QED
    BY <2>1, <2>2
<1>12. QED
  BY <1>1, <1>2, <1>4, <1>9, <1>10, <1>11 DEF Legit, MaySet

\* A handler that tracks the deletion of a row that is deleted at all.
LEMMA DeletionFits ==
  ASSUME NEW u, Ready(u), NEW kind \in Removed, NEW id \in DOMAIN db, db[id].kind = kind,
         MayChange(db, Home(u), id, SystemFields)
  PROVE  Legit(u, <<>>, <<Deletion(kind, id)>>)
<1>1. PICK e : e = Deletion(kind, id)
  OBVIOUS
<1>2. /\ e.change = "deleted" /\ e.kind = kind /\ e.id = id /\ e.stamped = FALSE
      /\ kind \in Kind /\ IsEntry(e)
  BY <1>1, Kinds DEF Deletion, Entry, IsEntry, Removed
<1>3. EntryFits(db, u, e)
  BY <1>2 DEF EntryFits
<1>4. id # New1(u, "auditLog") /\ kind # "auditLog"
  BY DEF Ready, New1, Removed
<1>5. WorkFits(db, u, Home(u), <<e>>)
  BY <1>2, <1>3, OneWork
<1>6. Len(<<e>>) = 1 /\ <<e>>[1] = e
  OBVIOUS
<1>7. Careful(db, <<e>>, 1)
  BY <1>2, <1>6 DEF Careful
<1>8. QED
  BY <1>1, <1>2, <1>4, <1>5, <1>6, <1>7 DEF Legit, MaySet

\* Only applications can be set to be the system's.
LEMMA OnlyApplications ==
  ASSUME NEW kind \in Kind, kind # "application"
  PROVE  "systemApplication" \notin SettersOf[kind]
BY Kinds DEF SettersOf, AppUserMetadata_setters, Credential_setters, Group_setters,
   PasswordRule_setters, Project_setters, ResourceServer_setters, Scope_setters, Role_setters,
   Session_setters, User_setters, VirtualServer_setters

\* An update of a row, as it was read when it was no newer than it is now.
LEMMA UpdateFits ==
  ASSUME NEW u, Ready(u), NEW id \in DOMAIN db, NEW row, Complete(row), row.kind = db[id].kind,
         row.version <= db[id].version,
         Postgres /\ row.version = db[id].version => row.fields = db[id].fields,
         NEW values, DOMAIN values \subseteq SettersOf[row.kind],
         MayChange(db, Home(u), id, DOMAIN values), NEW set, MaySet(u, set),
         Postgres /\ Current(u) => Suits(db, id, values ++ row.fields, DOMAIN values)
  PROVE  Legit(u, set, <<UpdateOf(id, row, values)>>)
<1>1. PICK e : e = UpdateOf(id, row, values)
  OBVIOUS
<1>2. /\ e.change = "updated" /\ e.kind = row.kind /\ e.id = id /\ e.fields = values ++ row.fields
      /\ e.version = row.version /\ e.stamped = FALSE /\ IsEntry(e)
      /\ e.changed = Tracked(row.kind, row.fields, values)
  BY <1>1 DEF UpdateOf, Entry, IsEntry, Complete
<1>3. DOMAIN e.fields = Fields(e.kind)
  <2>1. row.kind \in Kind /\ DOMAIN row.fields = Fields(row.kind)
    BY DEF Complete
  <2>2. SettersOf[row.kind] \subseteq Fields(row.kind)
    BY <2>1, Settable
  <2>3. QED
    BY <1>2, <2>1, <2>2 DEF ++
<1>4. MayChange(db, Home(u), id, e.changed) /\ row.kind # "auditLog" /\ "systemApplication" \notin e.changed
  <2>1. e.changed \subseteq DOMAIN values
    BY <1>2 DEF Tracked
  <2>2. row.kind # "application" => "systemApplication" \notin SettersOf[row.kind]
    BY OnlyApplications DEF Complete
  <2>3. e.changed \subseteq SettersOf[row.kind]
    BY <1>2 DEF Tracked
  <2>4. MayChange(db, Home(u), id, e.changed)
    BY <2>1, MayChangeLess
  <2>5. db[id].kind # "auditLog"
    BY DEF MayChange
  <2>6. row.kind = "application" => "systemApplication" \notin e.changed
    BY <2>4 DEF MayChange
  <2>7. QED
    BY <2>2, <2>3, <2>6, <2>4, <2>5
<1>5. ASSUME NEW c \in Fields(e.kind) \ e.changed PROVE e.fields[c] = row.fields[c]
  <2>1. c \in DOMAIN row.fields /\ row.kind = e.kind
    BY <1>2 DEF Complete
  <2>2. c \in DOMAIN values => values[c] = row.fields[c]
    BY <1>2, <2>1 DEF Tracked
  <2>3. QED
    BY <1>2, <2>1, <2>2 DEF ++
<1>6. EntryFits(db, u, e)
  BY <1>2, <1>3, <1>4, <1>5 DEF EntryFits, Complete
<1>7. id # New1(u, "auditLog")
  BY DEF Ready, New1
<1>8. WorkFits(db, u, Home(u), <<e>>)
  BY <1>2, <1>6, <1>4, OneWork
<1>9. Len(<<e>>) = 1 /\ <<e>>[1] = e
  OBVIOUS
<1>10. ASSUME Postgres, Current(u) PROVE Careful(db, <<e>>, 1)
  <2>1. e.changed \subseteq DOMAIN values
    BY <1>2 DEF Tracked
  <2>2. Suits(db, e.id, e.fields, e.changed)
    BY <1>2, <1>10, <2>1 DEF Suits
  <2>3. QED
    BY <1>2, <1>9, <2>2 DEF Careful
<1>11. QED
  BY <1>1, <1>2, <1>7, <1>8, <1>9, <1>4, <1>10 DEF Legit

\* A handler that tracks nothing.
LEMMA NothingTracked ==
  ASSUME NEW u, NEW set, MaySet(u, set)
  PROVE  Legit(u, set, <<>>)
BY NoWork DEF Legit

\* The two ways in which most handlers end.
LEMMA Responded ==
  ASSUME NEW u, NEW ok \in BOOLEAN, NEW work, Respond(u, ok, work),
         ok => Legit(u, <<>>, work) /\ Len(work) <= 1
  PROVE  Handled(u)
<1>1. CASE ok
  <2>1. Returns(u, <<>>, work)
    BY <1>1 DEF Respond, Returns
  <2>2. QED
    BY <1>1, <2>1 DEF Handled
<1>2. CASE ~ok
  <2>1. Refuses(u, <<>>, <<>>)
    BY <1>2 DEF Respond, Refuses
  <2>2. Legit(u, <<>>, <<>>)
    BY NothingTracked DEF MaySet
  <2>3. QED
    BY <2>1, <2>2 DEF Handled
<1>3. QED
  BY <1>1, <1>2

\* A handler that sets fields of a row it has looked up and tracks the update, or has found none.
LEMMA SetResponds ==
  ASSUME NEW u, Ready(u), NEW id, NEW values, Set(u, id, values),
         id # Nil => /\ id \in DOMAIN db /\ DOMAIN values \subseteq SettersOf[db[id].kind]
                     /\ MayChange(db, Home(u), id, DOMAIN values)
                     /\ db[id].kind \notin {"application", "virtualServer"}
  PROVE  Handled(u)
<1>1. CASE id = Nil
  <2>1. Refuses(u, <<>>, <<>>)
    BY <1>1 DEF Set, Refuses
  <2>2. Legit(u, <<>>, <<>>)
    BY NothingTracked DEF MaySet
  <2>3. QED
    BY <2>1, <2>2 DEF Handled
<1>2. CASE id # Nil
  <2>1. PICK work : work = <<UpdateOf(id, db[id], values)>>
    OBVIOUS
  <2>2. PICK set : set = Only(id, values)
    OBVIOUS
  <2>3. Returns(u, set, work)
    BY <1>2, <2>1, <2>2 DEF Set, Returns
  <2>4. Complete(db[id])
    BY <1>2 DEF Ready, Sound, Whole
  <2>5. db[id].version <= db[id].version
    BY <2>4 DEF Complete
  <2>6. DOMAIN set = {id} /\ set[id] = values
    BY <2>2 DEF Only
  <2>7. MaySet(u, set)
    BY <1>2, <2>6 DEF MaySet
  <2>8. Legit(u, set, work)
    <3>1. Suits(db, id, values ++ db[id].fields, DOMAIN values)
      BY <1>2 DEF Suits
    <3>2. QED
      BY <1>2, <2>1, <2>4, <2>5, <2>7, <3>1, UpdateFits
  <2>9. Len(work) <= 1
    BY <2>1
  <2>10. QED
    BY <2>3, <2>8, <2>9 DEF Handled
<1>3. QED
  BY <1>1, <1>2

-----------------------------------------------------------------------------
(* The handlers.                                                           *)

\* All requests but those of the system user are addressed to a virtual server.
LEMMA Addressed ==
  ASSUME NEW u, Ready(u), Call(u).op # "SetPassword"
  PROVE  /\ Seen(u) /\ Server(u) \in DOMAIN db /\ db[Server(u)].kind = "virtualServer"
         /\ Owned(db, Server(u), Server(u))
         /\ Call(u).op # "CreateVirtualServer" => Home(u) = Server(u)
         /\ Call(u).by # "system"
<1>1. Call(u).by # "system"
  BY CallsAssumption DEF Ready
<1>2. Seen(u) /\ Server(u) \in DOMAIN db /\ db[Server(u)].kind = "virtualServer"
  BY <1>1 DEF Ready, Seen
<1>3. Owned(db, Server(u), Server(u))
  BY <1>2 DEF Owned, ServerIn
<1>4. QED
  BY <1>1, <1>2, <1>3 DEF Home

\* The fields that a handler gives, and what the kinds have.
LEMMA GivenByHandler ==
  /\ \A kind \in {"project", "user", "passwordRule"} :
        /\ kind \in Kind /\ "virtualServerId" \in Fields(kind)
        /\ EntityOf[kind].given \intersect ByHandler = {"virtualServerId"}
  /\ \A kind \in {"role", "resourceServer", "application"} :
        /\ kind \in Kind /\ {"virtualServerId", "projectId"} \subseteq Fields(kind)
        /\ EntityOf[kind].given \intersect ByHandler = {"virtualServerId", "projectId"}
  /\ "scope" \in Kind /\ ByHandler \subseteq Fields("scope")
<1> USE DEF EntityOf, Entity, Fields, ByHandler
<1>1. /\ "virtualServerId" \in Fields("project")
      /\ EntityOf["project"].given \intersect ByHandler = {"virtualServerId"}
  BY DEF Project_entity
<1>2. /\ "virtualServerId" \in Fields("user")
      /\ EntityOf["user"].given \intersect ByHandler = {"virtualServerId"}
  BY DEF User_entity
<1>3. /\ "virtualServerId" \in Fields("passwordRule")
      /\ EntityOf["passwordRule"].given \intersect ByHandler = {"virtualServerId"}
  BY DEF PasswordRule_entity
<1>4. /\ {"virtualServerId", "projectId"} \subseteq Fields("role")
      /\ EntityOf["role"].given \intersect ByHandler = {"virtualServerId", "projectId"}
  BY DEF Role_entity
<1>5. /\ {"virtualServerId", "projectId"} \subseteq Fields("resourceServer")
      /\ EntityOf["resourceServer"].given \intersect ByHandler = {"virtualServerId", "projectId"}
  BY DEF ResourceServer_entity
<1>6. /\ {"virtualServerId", "projectId"} \subseteq Fields("application")
      /\ EntityOf["application"].given \intersect ByHandler = {"virtualServerId", "projectId"}
  BY DEF Application_entity
<1>7. ByHandler \subseteq Fields("scope")
  BY DEF Scope_entity
<1> HIDE DEF EntityOf, Entity, Fields, ByHandler
<1>8. QED
  BY Kinds, <1>1, <1>2, <1>3, <1>4, <1>5, <1>6, <1>7

\* The values a command gives to a row of its virtual server are those the row needs,
LEMMA ProperInServer ==
  ASSUME NEW u, Ready(u), NEW kind \in {"project", "user", "passwordRule"}, NEW values,
         Gives(values, kind, ByHandler), Call(u).op \notin {"SetPassword", "CreateVirtualServer"}
  PROVE  Proper(u, kind, InServer(u, values))
<1>1. PICK v : v = InServer(u, values)
  OBVIOUS
<1>2. DOMAIN v = {"virtualServerId"} \union DOMAIN values /\ v["virtualServerId"] = Server(u)
  BY <1>1, WithinServer
<1>3. DOMAIN v \subseteq Fields(kind) /\ EntityOf[kind].given \subseteq DOMAIN v
  BY <1>2, GivenByHandler DEF Gives
<1>4. /\ Server(u) \in DOMAIN db /\ db[Server(u)].kind = "virtualServer"
      /\ Owned(db, Server(u), Server(u)) /\ Home(u) = Server(u)
  BY Addressed
<1>5. ASSUME NEW c \in DOMAIN RefersTo(kind)
      PROVE  c = "virtualServerId" /\ RefersTo(kind)[c] = "virtualServer"
  <2>1. RefersTo(kind) = [virtualServerId |-> "virtualServer"]
    BY ReferencesOf
  <2>2. QED
    BY <2>1
<1>6. QED
  BY <1>1, <1>2, <1>3, <1>4, <1>5 DEF Proper

\* and so are those it gives to a row of a project.
LEMMA ProperInProject ==
  ASSUME NEW u, Ready(u), NEW kind \in {"role", "resourceServer", "application"}, NEW values,
         Gives(values, kind, ByHandler), Call(u).op \notin {"SetPassword", "CreateVirtualServer"},
         NEW p, p \in DOMAIN db, db[p].kind = "project", Owned(db, Server(u), p),
         kind = "role" => ~db[p].fields.systemProject
  PROVE  Proper(u, kind, InProject(u, p, values))
<1>1. PICK v : v = InProject(u, p, values)
  OBVIOUS
<1>2. /\ DOMAIN v = {"virtualServerId", "projectId"} \union DOMAIN values
      /\ v["virtualServerId"] = Server(u) /\ v["projectId"] = p
  BY <1>1, WithinProject
<1>3. DOMAIN v \subseteq Fields(kind) /\ EntityOf[kind].given \subseteq DOMAIN v
  BY <1>2, GivenByHandler DEF Gives
<1>4. /\ Server(u) \in DOMAIN db /\ db[Server(u)].kind = "virtualServer"
      /\ Owned(db, Server(u), Server(u)) /\ Home(u) = Server(u)
  BY Addressed
<1>5. ASSUME NEW c \in DOMAIN RefersTo(kind)
      PROVE  \/ c = "virtualServerId" /\ RefersTo(kind)[c] = "virtualServer"
             \/ c = "projectId" /\ RefersTo(kind)[c] = "project"
  <2>1. RefersTo(kind) = [virtualServerId |-> "virtualServer", projectId |-> "project"]
    BY ReferencesOf
  <2>2. QED
    BY <2>1
<1>6. kind = "role" => MayHold(db, u, p)
  BY DEF MayHold
<1>7. QED
  BY <1>1, <1>2, <1>3, <1>4, <1>5, <1>6 DEF Proper

\* The project of a call, a row of it, and a user.
LEMMA FoundProject ==
  ASSUME NEW u, BackendOK, NEW p \in Project(u), p # Nil
  PROVE  p \in DOMAIN db /\ db[p].kind = "project" /\ Owned(db, Server(u), p)
<1>1. PICK filter : filter = InServer(u, [slug |-> Call(u).project])
  OBVIOUS
<1>2. "virtualServerId" \in DOMAIN filter /\ filter["virtualServerId"] = Server(u)
  BY <1>1, WithinServer
<1>3. p \in First("project", filter)
  BY <1>1 DEF Project
<1>4. QED
  BY <1>2, <1>3, FoundInServer

\* A role, resource server or application that is looked up in a project is of that project.
LEMMA FoundTarget ==
  ASSUME NEW u, BackendOK, NEW p, NEW kind \in {"role", "resourceServer", "application"},
         NEW x \in Target(u, kind, p), x # Nil
  PROVE  /\ p # Nil /\ x \in DOMAIN db /\ db[x].kind = kind /\ Owned(db, Server(u), x)
         /\ db[x].fields.projectId = p /\ db[x].fields.virtualServerId = Server(u)
<1>1. PICK values : values = [id |-> Call(u).on]
  OBVIOUS
<1>2. PICK filter : filter = InProject(u, p, values)
  OBVIOUS
<1>3. /\ DOMAIN filter = {"virtualServerId", "projectId"} \union DOMAIN values
      /\ filter["virtualServerId"] = Server(u) /\ filter["projectId"] = p
  BY <1>2, WithinProject
<1>4. p # Nil /\ x \in First(kind, filter)
  BY <1>1, <1>2 DEF Target
<1>5. /\ x \in DOMAIN db /\ db[x].kind = kind /\ Owned(db, Server(u), x)
      /\ db[x].fields.virtualServerId = Server(u)
  BY <1>3, <1>4, FoundInServer
<1>6. "projectId" \in Where(backend, kind)
  <2> USE DEF Where, ReadOf, Read, ReadAs, MatchesOf, Matches
  <2>1. CASE kind = "role"
    BY <2>1 DEF Role_read, Role_memory
  <2>2. CASE kind = "resourceServer"
    BY <2>2 DEF ResourceServer_read, ResourceServer_memory
  <2>3. CASE kind = "application"
    BY <2>3 DEF Application_read, Application_memory
  <2>4. QED
    BY <2>1, <2>2, <2>3
<1>7. Holds("projectId", p, x, db[x].fields)
  BY <1>3, <1>4, <1>6, LookedUp
<1>8. db[x].fields.projectId = p
  BY <1>7 DEF Holds
<1>9. QED
  BY <1>4, <1>5, <1>8

\* A row that is looked up in the virtual server of the request is of it.
LEMMA FoundUser ==
  ASSUME NEW u, BackendOK, NEW kind \in {"user", "application", "passwordRule"}, NEW values,
         NEW x \in First(kind, InServer(u, values)), x # Nil
  PROVE  x \in DOMAIN db /\ db[x].kind = kind /\ Owned(db, Server(u), x)
<1>1. PICK filter : filter = InServer(u, values)
  OBVIOUS
<1>2. "virtualServerId" \in DOMAIN filter /\ filter["virtualServerId"] = Server(u)
  BY <1>1, WithinServer
<1>3. QED
  BY <1>1, <1>2, FoundInServer

\* The fields the commands set have setters.
LEMMA Setters ==
  /\ "metadata" \in SettersOf["user"] /\ "metadata" \in SettersOf["appUserMetadata"]
  /\ "details" \in SettersOf["passwordRule"]
  /\ {"type", "details"} \subseteq SettersOf["credential"]
BY DEF SettersOf, User_setters, AppUserMetadata_setters, PasswordRule_setters, Credential_setters

\* The handler of CreateProject sets and tracks only what a request may.
LEMMA CreateProjectHandled ==
  ASSUME NEW u, Ready(u), CreateProject(u)
  PROVE  Handled(u)
<1>1. Call(u).op = "CreateProject" /\ Gives(Values(u), "project", ByHandler)
  BY CallsAssumption DEF CreateProject, Handles, MadeBy, Ready, Values
<1>2. PICK work : work = <<Insertion(New1(u, "project"), "project", InServer(u, Values(u)))>>
  OBVIOUS
<1>3. Proper(u, "project", InServer(u, Values(u)))
  BY <1>1, ProperInServer
<1>4. Legit(u, <<>>, work) /\ Len(work) <= 1
  <2>1. "project" \in Kind
    BY Kinds
  <2>2. Legit(u, <<>>, work)
    BY <1>2, <1>3, <2>1, InsertionFits
  <2>3. QED
    BY <1>2, <2>2
<1>5. Respond(u, TRUE, work)
  BY <1>2 DEF CreateProject
<1>6. QED
  BY <1>4, <1>5, Responded

\* The handler of PatchProject sets and tracks only what a request may.
LEMMA PatchProjectHandled ==
  ASSUME NEW u, Ready(u), PatchProject(u)
  PROVE  Handled(u)
<1>1. DOMAIN Values(u) \subseteq SettersOf["project"]
  BY CallsAssumption DEF PatchProject, Handles, SetBy, Ready, Values
<1>2. PICK p \in Project(u) : Set(u, p, Values(u))
  BY DEF PatchProject
<1>3. p # Nil => p \in DOMAIN db /\ db[p].kind = "project" /\ Owned(db, Home(u), p)
  BY FoundProject, Addressed DEF PatchProject, Handles, Ready
<1>4. p # Nil => MayChange(db, Home(u), p, DOMAIN Values(u))
  BY <1>3, PlainChange
<1>5. QED
  BY <1>1, <1>2, <1>3, <1>4, SetResponds

\* The handler of AssignRoleToUser sets and tracks only what a request may.
LEMMA AssignRoleToUserHandled ==
  ASSUME NEW u, Ready(u), AssignRoleToUser(u)
  PROVE  Handled(u)
<1>1. PICK p \in Project(u) : \E r \in Target(u, "role", p) :
           \E user \in First("user", InServer(u, [id |-> Values(u).userId])) :
             Respond(u, Open(u, p) /\ r # Nil /\ user # Nil,
                     <<Insertion(New1(u, "assignment"), "assignment",
                                 [userId |-> user, roleId |-> r, groupId |-> Nil])>>)
  BY DEF AssignRoleToUser
<1>2. PICK r \in Target(u, "role", p), user \in First("user", InServer(u, [id |-> Values(u).userId])) :
           Respond(u, Open(u, p) /\ r # Nil /\ user # Nil,
                   <<Insertion(New1(u, "assignment"), "assignment",
                               [userId |-> user, roleId |-> r, groupId |-> Nil])>>)
  BY <1>1
<1>3. PICK values : values = [userId |-> user, roleId |-> r, groupId |-> Nil]
  OBVIOUS
<1>4. PICK work : work = <<Insertion(New1(u, "assignment"), "assignment", values)>>
  OBVIOUS
<1>5. PICK ok \in BOOLEAN : ok <=> Open(u, p) /\ r # Nil /\ user # Nil
  OBVIOUS
<1>6. Respond(u, ok, work)
  BY <1>2, <1>3, <1>4, <1>5 DEF Respond, Return
<1>7. ASSUME ok PROVE Legit(u, <<>>, work) /\ Len(work) <= 1
  <2>1. r \in DOMAIN db /\ db[r].kind = "role" /\ Owned(db, Server(u), r) /\ db[r].fields.projectId = p
    BY <1>5, <1>7, FoundTarget DEF Ready
  <2>2. user \in DOMAIN db /\ db[user].kind = "user" /\ Owned(db, Server(u), user)
    BY <1>5, <1>7, FoundUser DEF Ready
  <2>3. Home(u) = Server(u) /\ Call(u).by # "system"
    BY Addressed DEF AssignRoleToUser, Handles
  <2>4. MayGrant(db, u, r)
    BY <1>5, <1>7, <2>1, <2>3 DEF MayGrant, Open
  <2>5. Fields("assignment") = {"userId", "roleId", "groupId"}
        /\ EntityOf["assignment"].given = {"userId", "roleId", "groupId"} /\ "assignment" \in Kind
    BY Kinds DEF Fields, EntityOf, Entity, Assignment_entity, NoFields
  <2>6. RefersTo("assignment") = [userId |-> "user", roleId |-> "role", groupId |-> "group"]
    BY ReferencesOf
  <2>7. Proper(u, "assignment", values)
    BY <1>3, <2>1, <2>2, <2>3, <2>4, <2>5, <2>6 DEF Proper
  <2>8. QED
    BY <1>4, <2>5, <2>7, InsertionFits
<1>8. QED
  BY <1>6, <1>7, Responded

\* A handler that inserts one row, or refuses.
LEMMA InsertResponds ==
  ASSUME NEW u, Ready(u), NEW ok \in BOOLEAN, NEW name, name # "auditLog",
         NEW kind \in Kind, kind \notin {"auditLog", "virtualServer"}, NEW values,
         kind = "application" => Call(u).op = "CreateApplication",
         ok => Proper(u, kind, values),
         kind = "application" /\ ok /\ Postgres /\ Current(u) => Signs(New(kind, values), Home(u)),
         Respond(u, ok, <<Insertion(New1(u, name), kind, values)>>)
  PROVE  Handled(u)
<1>1. PICK work : work = <<Insertion(New1(u, name), kind, values)>>
  OBVIOUS
<1>2. ok => Legit(u, <<>>, work)
  BY <1>1, InsertionFits
<1>3. Len(work) <= 1
  BY <1>1
<1>4. Respond(u, ok, work)
  BY <1>1
<1>5. QED
  BY <1>2, <1>3, <1>4, Responded

\* A handler that deletes one row, or finds none, or refuses.
LEMMA DeleteResponds ==
  ASSUME NEW u, Ready(u), NEW ok \in BOOLEAN, NEW kind \in Removed, NEW id,
         ok /\ id # Nil => id \in DOMAIN db /\ db[id].kind = kind /\ MayChange(db, Home(u), id, SystemFields),
         Respond(u, ok, IF id = Nil THEN <<>> ELSE <<Deletion(kind, id)>>)
  PROVE  Handled(u)
<1>1. PICK work : work = IF id = Nil THEN <<>> ELSE <<Deletion(kind, id)>>
  OBVIOUS
<1>2. CASE id = Nil
  <2>1. work = <<>>
    BY <1>1, <1>2
  <2>2. Legit(u, <<>>, work) /\ Len(work) <= 1
    BY <2>1, NothingTracked DEF MaySet
  <2>3. QED
    BY <1>1, <2>2, Responded
<1>3. CASE id # Nil
  <2>1. work = <<Deletion(kind, id)>>
    BY <1>1, <1>3
  <2>2. ok => Legit(u, <<>>, work) /\ Len(work) <= 1
    BY <1>3, <2>1, DeletionFits
  <2>3. QED
    BY <1>1, <2>2, Responded
<1>4. QED
  BY <1>2, <1>3

\* The handler of CreateRole sets and tracks only what a request may.
LEMMA CreateRoleHandled ==
  ASSUME NEW u, Ready(u), CreateRole(u)
  PROVE  Handled(u)
<1>1. /\ Call(u).op = "CreateRole" /\ Gives(Values(u), "role", ByHandler)
  BY CallsAssumption DEF CreateRole, Handles, MadeBy, Ready, Values
<1>2. PICK p \in Project(u) :
         Respond(u, Open(u, p), <<Insertion(New1(u, "role"), "role", InProject(u, p, Values(u)))>>)
  BY DEF CreateRole
<1>3. PICK ok \in BOOLEAN : ok <=> Open(u, p)
  OBVIOUS
<1>4. Respond(u, ok, <<Insertion(New1(u, "role"), "role", InProject(u, p, Values(u)))>>)
  BY <1>2, <1>3 DEF Respond, Return
<1>5. ASSUME ok PROVE Proper(u, "role", InProject(u, p, Values(u)))
  <2>1. p \in DOMAIN db /\ db[p].kind = "project" /\ Owned(db, Server(u), p)
    BY <1>3, <1>5, FoundProject DEF Open, Ready
  <2>2. ~db[p].fields.systemProject
    BY <1>1, <1>3, <1>5, Addressed DEF Open
  <2>3. QED
    BY <1>1, <2>1, <2>2, ProperInProject
<1>6. QED
  BY <1>4, <1>5, InsertResponds, GivenByHandler

\* A role of an open project may be changed.
LEMMA OpenRole ==
  ASSUME NEW u, Ready(u), Call(u).op \notin {"SetPassword", "CreateVirtualServer"}, NEW p, Open(u, p),
         NEW r \in Target(u, "role", p), r # Nil, NEW fields
  PROVE  r \in DOMAIN db /\ db[r].kind = "role" /\ MayChange(db, Home(u), r, fields)
<1>1. /\ r \in DOMAIN db /\ db[r].kind = "role" /\ Owned(db, Server(u), r)
      /\ db[r].fields.projectId = p
  BY FoundTarget DEF Ready
<1>2. Home(u) = Server(u) /\ Call(u).by # "system"
  BY Addressed
<1>3. ~db[p].fields.systemProject
  BY <1>2 DEF Open
<1>4. QED
  BY <1>1, <1>2, <1>3 DEF MayChange

\* The handler of PatchRole sets and tracks only what a request may.
LEMMA PatchRoleHandled ==
  ASSUME NEW u, Ready(u), PatchRole(u)
  PROVE  Handled(u)
<1>1. DOMAIN Values(u) \subseteq SettersOf["role"]
  BY CallsAssumption DEF PatchRole, Handles, SetBy, Ready, Values
<1>2. PICK p \in Project(u) : \E r \in Target(u, "role", p) : Set(u, IF Open(u, p) THEN r ELSE Nil, Values(u))
  BY DEF PatchRole
<1>3. PICK r \in Target(u, "role", p) : Set(u, IF Open(u, p) THEN r ELSE Nil, Values(u))
  BY <1>2
<1>4. PICK id : id = IF Open(u, p) THEN r ELSE Nil
  OBVIOUS
<1>5. id # Nil => /\ id \in DOMAIN db /\ db[id].kind = "role"
                  /\ MayChange(db, Home(u), id, DOMAIN Values(u))
  BY <1>4, OpenRole DEF PatchRole, Handles
<1>6. QED
  BY <1>1, <1>3, <1>4, <1>5, SetResponds

\* The handler of DeleteRole sets and tracks only what a request may.
LEMMA DeleteRoleHandled ==
  ASSUME NEW u, Ready(u), DeleteRole(u)
  PROVE  Handled(u)
<1>1. PICK p \in Project(u) : \E r \in Target(u, "role", p) :
         Respond(u, Open(u, p), IF r = Nil THEN <<>> ELSE <<Deletion("role", r)>>)
  BY DEF DeleteRole
<1>2. PICK r \in Target(u, "role", p) :
         Respond(u, Open(u, p), IF r = Nil THEN <<>> ELSE <<Deletion("role", r)>>)
  BY <1>1
<1>3. PICK ok \in BOOLEAN : ok <=> Open(u, p)
  OBVIOUS
<1>4. Respond(u, ok, IF r = Nil THEN <<>> ELSE <<Deletion("role", r)>>)
  BY <1>2, <1>3 DEF Respond, Return
<1>5. ok /\ r # Nil => r \in DOMAIN db /\ db[r].kind = "role" /\ MayChange(db, Home(u), r, SystemFields)
  BY <1>3, OpenRole DEF DeleteRole, Handles
<1>6. "role" \in Removed
  BY DEF Removed
<1>7. QED
  BY <1>4, <1>5, <1>6, DeleteResponds

\* The handler of CreateResourceServer sets and tracks only what a request may.
LEMMA CreateResourceServerHandled ==
  ASSUME NEW u, Ready(u), CreateResourceServer(u)
  PROVE  Handled(u)
<1>1. /\ Call(u).op = "CreateResourceServer" /\ Gives(Values(u), "resourceServer", ByHandler)
  BY CallsAssumption DEF CreateResourceServer, Handles, MadeBy, Ready, Values
<1>2. PICK p \in Project(u) :
         Respond(u, Open(u, p), <<Insertion(New1(u, "resourceServer"), "resourceServer",
                                            InProject(u, p, Values(u)))>>)
  BY DEF CreateResourceServer
<1>3. PICK ok \in BOOLEAN : ok <=> Open(u, p)
  OBVIOUS
<1>4. Respond(u, ok, <<Insertion(New1(u, "resourceServer"), "resourceServer",
                                 InProject(u, p, Values(u)))>>)
  BY <1>2, <1>3 DEF Respond, Return
<1>5. ASSUME ok PROVE Proper(u, "resourceServer", InProject(u, p, Values(u)))
  <2>1. p \in DOMAIN db /\ db[p].kind = "project" /\ Owned(db, Server(u), p)
    BY <1>3, <1>5, FoundProject DEF Open, Ready
  <2>2. QED
    BY <1>1, <2>1, ProperInProject
<1>6. QED
  BY <1>4, <1>5, InsertResponds, GivenByHandler

\* The handler of PatchResourceServer sets and tracks only what a request may.
LEMMA PatchResourceServerHandled ==
  ASSUME NEW u, Ready(u), PatchResourceServer(u)
  PROVE  Handled(u)
<1>1. DOMAIN Values(u) \subseteq SettersOf["resourceServer"]
  BY CallsAssumption DEF PatchResourceServer, Handles, SetBy, Ready, Values
<1>2. PICK p \in Project(u) : \E s \in Target(u, "resourceServer", p) : Set(u, s, Values(u))
  BY DEF PatchResourceServer
<1>3. PICK s \in Target(u, "resourceServer", p) : Set(u, s, Values(u))
  BY <1>2
<1>4. s # Nil => s \in DOMAIN db /\ db[s].kind = "resourceServer" /\ Owned(db, Home(u), s)
  BY FoundTarget, Addressed DEF PatchResourceServer, Handles, Ready
<1>5. s # Nil => MayChange(db, Home(u), s, DOMAIN Values(u))
  BY <1>4, PlainChange
<1>6. QED
  BY <1>1, <1>3, <1>4, <1>5, SetResponds

\* The handler of CreateResourceServerScope sets and tracks only what a request may.
LEMMA CreateResourceServerScopeHandled ==
  ASSUME NEW u, Ready(u), CreateResourceServerScope(u)
  PROVE  Handled(u)
<1>1. /\ Call(u).op = "CreateResourceServerScope" /\ Gives(Values(u), "scope", ByHandler)
  BY CallsAssumption DEF CreateResourceServerScope, Handles, MadeBy, Ready, Values
<1>2. PICK p \in Project(u) : \E s \in Target(u, "resourceServer", p) :
         Respond(u, s # Nil, <<Insertion(New1(u, "scope"), "scope",
                                         InProject(u, p, [resourceServerId |-> s] ++ Values(u)))>>)
  BY DEF CreateResourceServerScope
<1>3. PICK s \in Target(u, "resourceServer", p) :
         Respond(u, s # Nil, <<Insertion(New1(u, "scope"), "scope",
                                         InProject(u, p, [resourceServerId |-> s] ++ Values(u)))>>)
  BY <1>2
<1>4. PICK ok \in BOOLEAN : ok <=> s # Nil
  OBVIOUS
<1>5. PICK values : values = InProject(u, p, [resourceServerId |-> s] ++ Values(u))
  OBVIOUS
<1>6. Respond(u, ok, <<Insertion(New1(u, "scope"), "scope", values)>>)
  BY <1>3, <1>4, <1>5 DEF Respond, Return
<1>7. ASSUME ok PROVE Proper(u, "scope", values)
  <2>1. /\ p # Nil /\ s \in DOMAIN db /\ db[s].kind = "resourceServer" /\ Owned(db, Server(u), s)
        /\ db[s].fields.projectId = p
    BY <1>4, <1>7, FoundTarget DEF Ready
  <2>2. p \in DOMAIN db /\ db[p].kind = "project" /\ Owned(db, Server(u), p)
    BY <2>1, FoundProject DEF Ready
  <2>3. /\ Server(u) \in DOMAIN db /\ db[Server(u)].kind = "virtualServer"
        /\ Owned(db, Server(u), Server(u)) /\ Home(u) = Server(u)
    BY <1>1, Addressed
  <2>4. PICK given : given = [resourceServerId |-> s] ++ Values(u)
    OBVIOUS
  <2>5. DOMAIN given = {"resourceServerId"} \union DOMAIN Values(u) /\ given["resourceServerId"] = s
    BY <2>4 DEF ++
  <2>6. PICK within : within = InServer(u, [projectId |-> p])
    OBVIOUS
  <2>7. /\ DOMAIN within = {"virtualServerId", "projectId"}
        /\ within["virtualServerId"] = Server(u) /\ within["projectId"] = p
    BY <2>6 DEF InServer, ++
  <2>8. values = within ++ given
    BY <1>5, <2>4, <2>6 DEF InProject
  <2>9. /\ DOMAIN values = {"virtualServerId", "projectId", "resourceServerId"} \union DOMAIN Values(u)
        /\ values["virtualServerId"] = Server(u) /\ values["projectId"] = p
        /\ values["resourceServerId"] = s
    BY <2>5, <2>7, <2>8 DEF ++
  <2>10. DOMAIN values \subseteq Fields("scope") /\ EntityOf["scope"].given \subseteq DOMAIN values
    BY <1>1, <2>9, GivenByHandler DEF Gives, ByHandler
  <2>11. RefersTo("scope") = [virtualServerId |-> "virtualServer", projectId |-> "project",
                              resourceServerId |-> "resourceServer"]
    BY ReferencesOf
  <2>12. QED
    BY <2>1, <2>2, <2>3, <2>9, <2>10, <2>11 DEF Proper
<1>8. QED
  BY <1>6, <1>7, InsertResponds, GivenByHandler

\* The handler of CreateApplication sets and tracks only what a request may.
LEMMA CreateApplicationHandled ==
  ASSUME NEW u, Ready(u), CreateApplication(u)
  PROVE  Handled(u)
<1>1. /\ Call(u).op = "CreateApplication" /\ Gives(Values(u), "application", ByHandler)
  BY CallsAssumption DEF CreateApplication, Handles, MadeBy, Ready, Values
<1>2. PICK p \in Project(u) :
         LET alg == Values(u).signingAlgorithm IN
         Respond(u, Open(u, p) /\ (alg # Nothing => alg \in Algorithms(ServerRow(u).fields)),
                 <<Insertion(New1(u, "application"), "application", InProject(u, p, Values(u)))>>)
  BY DEF CreateApplication
<1>3. PICK ok \in BOOLEAN :
         ok <=> /\ Open(u, p)
                /\ Values(u).signingAlgorithm # Nothing =>
                      Values(u).signingAlgorithm \in Algorithms(ServerRow(u).fields)
  OBVIOUS
<1>4. Respond(u, ok, <<Insertion(New1(u, "application"), "application", InProject(u, p, Values(u)))>>)
  BY <1>2, <1>3 DEF Respond, Return
<1>5. ASSUME ok PROVE Proper(u, "application", InProject(u, p, Values(u)))
  <2>1. p \in DOMAIN db /\ db[p].kind = "project" /\ Owned(db, Server(u), p)
    BY <1>3, <1>5, FoundProject DEF Open, Ready
  <2>2. QED
    BY <1>1, <2>1, ProperInProject
<1>6. ASSUME ok, Postgres, Current(u)
      PROVE  Signs(New("application", InProject(u, p, Values(u))), Home(u))
  <2>1. PICK v : v = InProject(u, p, Values(u))
    OBVIOUS
  <2>2. PICK fields : fields = New("application", v)
    OBVIOUS
  <2>3. Home(u) = Server(u) /\ ServerRow(u) = db[Server(u)]
    BY <1>1, <1>6, Addressed DEF ServerRow, Current
  <2>4. DOMAIN v = {"virtualServerId", "projectId"} \union DOMAIN Values(u)
        /\ ("signingAlgorithm" \in DOMAIN Values(u) => v["signingAlgorithm"] = Values(u)["signingAlgorithm"])
    BY <2>1, WithinProject, GivenInProject
  <2>5. CASE "signingAlgorithm" \in DOMAIN Values(u)
    <3>1. fields.signingAlgorithm = Values(u).signingAlgorithm
      BY <2>2, <2>4, <2>5 DEF New, ++
    <3>2. QED
      BY <1>3, <1>6, <2>1, <2>2, <2>3, <3>1 DEF Signs
  <2>6. CASE "signingAlgorithm" \notin DOMAIN Values(u)
    <3>1. fields.signingAlgorithm = Nothing
      BY <2>2, <2>4, <2>6, DefaultAlgorithm
    <3>2. QED
      BY <2>1, <2>2, <3>1 DEF Signs
  <2>7. QED
    BY <2>5, <2>6
<1>7. QED
  BY <1>1, <1>4, <1>5, <1>6, InsertResponds, GivenByHandler

\* The handler of DeleteApplication sets and tracks only what a request may.
LEMMA DeleteApplicationHandled ==
  ASSUME NEW u, Ready(u), DeleteApplication(u)
  PROVE  Handled(u)
<1>1. PICK p \in Project(u) : \E a \in Target(u, "application", p) :
         Respond(u, p # Nil /\ (a # Nil => ~db[a].fields.systemApplication),
                 IF a = Nil THEN <<>> ELSE <<Deletion("application", a)>>)
  BY DEF DeleteApplication
<1>2. PICK a \in Target(u, "application", p) :
         Respond(u, p # Nil /\ (a # Nil => ~db[a].fields.systemApplication),
                 IF a = Nil THEN <<>> ELSE <<Deletion("application", a)>>)
  BY <1>1
<1>3. PICK ok \in BOOLEAN : ok <=> p # Nil /\ (a # Nil => ~db[a].fields.systemApplication)
  OBVIOUS
<1>4. Respond(u, ok, IF a = Nil THEN <<>> ELSE <<Deletion("application", a)>>)
  BY <1>2, <1>3 DEF Respond, Return
<1>5. ok /\ a # Nil => /\ a \in DOMAIN db /\ db[a].kind = "application"
                     /\ MayChange(db, Home(u), a, SystemFields)
  <2>1. a # Nil => a \in DOMAIN db /\ db[a].kind = "application" /\ Owned(db, Home(u), a)
    BY FoundTarget, Addressed DEF DeleteApplication, Handles, Ready
  <2>2. QED
    BY <1>3, <2>1 DEF MayChange, SystemFields
<1>6. "application" \in Removed
  BY DEF Removed
<1>7. QED
  BY <1>4, <1>5, <1>6, DeleteResponds

\* The handler of PatchApplication sets and tracks only what a request may.
LEMMA PatchApplicationHandled ==
  ASSUME NEW u, Ready(u), PatchApplication(u)
  PROVE  Handled(u)
<1>1. DOMAIN Values(u) \subseteq SettersOf["application"] /\ DOMAIN Values(u) \subseteq Range(PatchOrder)
  BY CallsAssumption DEF PatchApplication, Handles, SetBy, Ready, Values
<1>2. Call(u).op \notin LateFailures
  BY DEF PatchApplication, Handles, LateFailures
<1>3. PICK p \in Project(u) : \E a \in Target(u, "application", p) :
          IF a = Nil THEN Respond(u, FALSE, <<>>)
          ELSE LET refused == {i \in Given(u) : RefusedBy(u, a, PatchOrder[i])}
                   set == {PatchOrder[i] : i \in {j \in Given(u) : \A r \in refused : j < r}} IN
               /\ Return(u, refused = {}, Only(a, Restrict(Values(u), set)),
                         IF refused = {} THEN <<UpdateOf(a, db[a], Values(u))>> ELSE <<>>)
               /\ UNCHANGED <<keys, faults>>
  BY DEF PatchApplication
<1>4. PICK a \in Target(u, "application", p) :
          IF a = Nil THEN Respond(u, FALSE, <<>>)
          ELSE LET refused == {i \in Given(u) : RefusedBy(u, a, PatchOrder[i])}
                   set == {PatchOrder[i] : i \in {j \in Given(u) : \A r \in refused : j < r}} IN
               /\ Return(u, refused = {}, Only(a, Restrict(Values(u), set)),
                         IF refused = {} THEN <<UpdateOf(a, db[a], Values(u))>> ELSE <<>>)
               /\ UNCHANGED <<keys, faults>>
  BY <1>3
<1>5. CASE a = Nil
  <2>1. Respond(u, FALSE, <<>>)
    BY <1>4, <1>5
  <2>2. QED
    BY <2>1, Responded
<1>6. CASE a # Nil
  <2>1. PICK refused : refused = {i \in Given(u) : RefusedBy(u, a, PatchOrder[i])}
    OBVIOUS
  <2>2. PICK fields : fields = {PatchOrder[i] : i \in {j \in Given(u) : \A r \in refused : j < r}}
    OBVIOUS
  <2>3. PICK set : set = Only(a, Restrict(Values(u), fields))
    OBVIOUS
  <2>4. PICK work : work = IF refused = {} THEN <<UpdateOf(a, db[a], Values(u))>> ELSE <<>>
    OBVIOUS
  <2>5. PICK ok \in BOOLEAN : ok <=> refused = {}
    OBVIOUS
  <2>6. Return(u, refused = {}, set, work)
    BY <1>4, <1>6, <2>1, <2>2, <2>3, <2>4
  <2>7. Return(u, ok, set, work)
    BY <2>5, <2>6 DEF Return
  <2>8. fields \subseteq DOMAIN Values(u)
    BY <2>2 DEF Given
  <2>9. DOMAIN set = {a} /\ DOMAIN set[a] = fields
    BY <2>3 DEF Only, Restrict
  <2>10. a \in DOMAIN db /\ db[a].kind = "application" /\ Owned(db, Home(u), a)
    BY <1>6, FoundTarget, Addressed DEF PatchApplication, Handles, Ready
  <2>11. "systemApplication" \notin DOMAIN Values(u)
    BY <1>1 DEF Range, PatchOrder
  <2>12. ASSUME db[a].fields.systemApplication, NEW c \in DOMAIN Values(u) \intersect SystemFields
        PROVE  \E i \in refused : PatchOrder[i] = c
    <3>1. PICK i \in DOMAIN PatchOrder : PatchOrder[i] = c
      BY <1>1, <2>12 DEF Range
    <3>2. i \in Given(u) /\ RefusedBy(u, a, PatchOrder[i])
      BY <2>12, <3>1 DEF Given, RefusedBy
    <3>3. QED
      BY <2>1, <3>1, <3>2
  <2>13. db[a].fields.systemApplication => fields \intersect SystemFields = {}
    <3>1. ASSUME db[a].fields.systemApplication, NEW c \in fields \intersect SystemFields PROVE FALSE
      <4>1. PICK i \in Given(u) : c = PatchOrder[i] /\ \A r \in refused : i < r
        BY <2>2, <3>1
      <4>2. PICK r \in refused : PatchOrder[r] = c
        BY <2>8, <2>12, <3>1
      <4>3. i \in 1 .. 7 /\ r \in 1 .. 7
        BY <2>1 DEF Given, PatchOrder
      <4>4. i # r
        BY <4>1, <4>2, <4>3
      <4>5. PatchOrder[i] # PatchOrder[r]
        BY <4>3, <4>4 DEF PatchOrder
      <4>6. QED
        BY <4>1, <4>2, <4>5
    <3>2. QED
      BY <3>1
  <2>14. MayChange(db, Home(u), a, fields)
    BY <2>8, <2>10, <2>11, <2>13 DEF MayChange
  <2>15. MaySet(u, set)
    BY <1>1, <2>8, <2>9, <2>10, <2>14 DEF MaySet
  <2>16. CASE ok
    <3>1. Complete(db[a])
      BY <2>10 DEF Ready, Sound, Whole
    <3>2. db[a].version <= db[a].version
      BY <3>1 DEF Complete
    <3>3. work = <<UpdateOf(a, db[a], Values(u))>>
      BY <2>4, <2>5, <2>16
    <3>4. MayChange(db, Home(u), a, DOMAIN Values(u))
      <4>1. refused = {}
        BY <2>5, <2>16
      <4>2. db[a].fields.systemApplication => DOMAIN Values(u) \intersect SystemFields = {}
        BY <2>12, <4>1
      <4>3. QED
        BY <2>10, <2>11, <4>2 DEF MayChange
    <3>5. ASSUME Postgres, Current(u) PROVE Suits(db, a, Values(u) ++ db[a].fields, DOMAIN Values(u))
      <4>1. PICK fields1 : fields1 = Values(u) ++ db[a].fields
        OBVIOUS
      <4>2. ASSUME "signingAlgorithm" \in DOMAIN Values(u)
            PROVE  fields1.signingAlgorithm \in Algorithms(db[Server(u)].fields)
        <5>1. 7 \in Given(u) /\ PatchOrder[7] = "signingAlgorithm"
          BY <4>2 DEF Given, PatchOrder
        <5>2. ~RefusedBy(u, a, "signingAlgorithm")
          BY <2>1, <2>5, <2>16, <5>1
        <5>3. Values(u)["signingAlgorithm"] \in Algorithms(ServerRow(u).fields)
          BY <5>2 DEF RefusedBy
        <5>4. fields1.signingAlgorithm = Values(u)["signingAlgorithm"]
          BY <4>1, <4>2 DEF ++
        <5>5. Call(u).by # "system"
          BY Addressed DEF PatchApplication, Handles
        <5>6. QED
          BY <3>5, <5>3, <5>4, <5>5 DEF ServerRow, Current
      <4>3. db[a].fields.virtualServerId = Server(u)
        BY <1>6, FoundTarget DEF Ready
      <4>4. QED
        BY <2>10, <4>1, <4>2, <4>3 DEF Suits
    <3>6. Legit(u, set, work)
      BY <1>1, <2>10, <2>15, <3>1, <3>2, <3>3, <3>4, <3>5, UpdateFits
    <3>7. Returns(u, set, work)
      BY <2>7, <2>16 DEF Returns
    <3>8. Len(work) <= 1
      BY <3>3
    <3>9. QED
      BY <3>6, <3>7, <3>8 DEF Handled
  <2>17. CASE ~ok
    <3>1. work = <<>>
      BY <2>4, <2>5, <2>17
    <3>2. Legit(u, set, work)
      BY <2>15, <3>1, NothingTracked
    <3>3. Refuses(u, set, work)
      BY <2>7, <2>17 DEF Refuses
    <3>4. QED
      BY <3>1, <3>2, <3>3 DEF Handled
  <2>18. QED
    BY <2>16, <2>17
<1>7. QED
  BY <1>5, <1>6

\* The handler of PatchVirtualServer sets and tracks only what a request may.
LEMMA PatchVirtualServerHandled ==
  ASSUME NEW u, Ready(u), PatchVirtualServer(u)
  PROVE  Handled(u)
<1>1. DOMAIN Values(u) \subseteq SettersOf["virtualServer"] /\ Call(u).op = "PatchVirtualServer"
  BY CallsAssumption DEF PatchVirtualServer, Handles, SetBy, Ready, Values
<1>2. Call(u).op \in LateFailures
  BY <1>1 DEF LateFailures
<1>3. PICK s : s = Server(u)
  OBVIOUS
<1>4. /\ Seen(u) /\ s \in DOMAIN db /\ db[s].kind = "virtualServer"
      /\ Owned(db, s, s) /\ Home(u) = s
  BY <1>1, <1>3, Addressed
<1>5. PICK row : row = ServerRow(u)
  OBVIOUS
<1>6. /\ Complete(row) /\ row.kind = "virtualServer" /\ row.version <= db[s].version
      /\ Postgres /\ row.version = db[s].version => row.fields = db[s].fields
  <2>1. Complete(db[s])
    BY <1>4 DEF Ready, Sound, Whole
  <2>2. CASE Postgres
    BY <1>3, <1>4, <1>5, <2>2 DEF Seen, ServerRow
  <2>3. CASE ~Postgres
    BY <1>3, <1>4, <1>5, <2>1, <2>3 DEF ServerRow, Complete
  <2>4. QED
    BY <2>2, <2>3
<1>7. PICK set : set = Only(s, Values(u))
  OBVIOUS
<1>8. \E ok \in BOOLEAN, allowed \in BOOLEAN :
         /\ Return(u, ok, set, IF allowed THEN <<UpdateOf(s, row, Values(u))>> ELSE <<>>)
         /\ allowed => Suits(db, s, Values(u) ++ row.fields, DOMAIN Values(u))
  <2> DEFINE fields == Values(u) ++ ServerRow(u).fields
             algorithms == {"primarySigningAlgorithm", "additionalSigningAlgorithms"}
                              \intersect DOMAIN Values(u)
             used == {db[a].fields.signingAlgorithm : a \in
                        Select("application", [virtualServerId |-> Server(u)])} \ {Nothing}
             allowed == algorithms # {} => used \subseteq Algorithms(fields)
  <2>1. PICK all \in BOOLEAN : all <=> allowed
    OBVIOUS
  <2>2. PICK ok \in {allowed} \union {FALSE} :
           Return(u, ok, Only(Server(u), Values(u)),
                  IF allowed THEN <<UpdateOf(Server(u), ServerRow(u), Values(u))>> ELSE <<>>)
    BY DEF PatchVirtualServer
  <2> HIDE DEF allowed
  <2>3. Return(u, ok, set, IF all THEN <<UpdateOf(s, row, Values(u))>> ELSE <<>>)
    BY <1>3, <1>5, <1>7, <2>1, <2>2
  <2>4. ok \in BOOLEAN
    BY <2>1, <2>2 DEF allowed
  <2>5. ASSUME all PROVE Suits(db, s, Values(u) ++ row.fields, DOMAIN Values(u))
    <3>1. ASSUME AlgorithmFields \intersect DOMAIN Values(u) # {}, NEW a \in DOMAIN db,
                 db[a].kind = "application", db[a].live, db[a].fields.virtualServerId = s
          PROVE  db[a].fields.signingAlgorithm \in {Nothing} \union Algorithms(fields)
      <4>1. PICK filter : filter = [virtualServerId |-> s]
        OBVIOUS
      <4>2. DOMAIN filter = {"virtualServerId"} /\ filter["virtualServerId"] = s
        BY <4>1
      <4>3. a \in Select("application", filter)
        BY <3>1, <4>2 DEF Select, SelectOn, Rows, Holds
      <4>4. used \subseteq Algorithms(fields)
        BY <2>1, <2>5, <3>1 DEF allowed, AlgorithmFields
      <4>5. QED
        BY <1>3, <4>1, <4>3, <4>4
    <3>2. fields = Values(u) ++ row.fields
      BY <1>5
    <3>3. QED
      BY <1>4, <3>1, <3>2 DEF Suits
  <2>6. QED
    BY <2>3, <2>4, <2>5
<1>9. PICK ok \in BOOLEAN, allowed \in BOOLEAN :
         /\ Return(u, ok, set, IF allowed THEN <<UpdateOf(s, row, Values(u))>> ELSE <<>>)
         /\ allowed => Suits(db, s, Values(u) ++ row.fields, DOMAIN Values(u))
  BY <1>8
<1>10. PICK work : work = IF allowed THEN <<UpdateOf(s, row, Values(u))>> ELSE <<>>
  OBVIOUS
<1>11. DOMAIN set = {s} /\ set[s] = Values(u)
  BY <1>7 DEF Only
<1>12. MayChange(db, Home(u), s, DOMAIN Values(u))
  BY <1>4, PlainChange
<1>13. MaySet(u, set)
  BY <1>1, <1>4, <1>11, <1>12 DEF MaySet
<1>14. Legit(u, set, work)
  <2>1. CASE allowed
    BY <1>1, <1>4, <1>6, <1>9, <1>10, <1>13, <1>12, <2>1, UpdateFits
  <2>2. CASE ~allowed
    BY <1>10, <1>13, <2>2, NothingTracked
  <2>3. QED
    BY <2>1, <2>2
<1>15. Returns(u, set, work) \/ Refuses(u, set, work)
  BY <1>9, <1>10 DEF Returns, Refuses
<1>16. QED
  BY <1>2, <1>14, <1>15 DEF Handled

\* The handler of CreateServiceUser sets and tracks only what a request may.
LEMMA CreateServiceUserHandled ==
  ASSUME NEW u, Ready(u), CreateServiceUser(u)
  PROVE  Handled(u)
<1>1. Call(u).op = "CreateServiceUser" /\ Gives(Values(u), "user", ByHandler)
  BY CallsAssumption DEF CreateServiceUser, Handles, MadeBy, Ready, Values
<1>2. Proper(u, "user", InServer(u, Values(u)))
  BY <1>1, ProperInServer
<1>3. Respond(u, TRUE, <<Insertion(New1(u, "user"), "user", InServer(u, Values(u)))>>)
  BY DEF CreateServiceUser
<1>4. QED
  BY <1>2, <1>3, InsertResponds, GivenByHandler

\* The handler of CreatePasswordRule sets and tracks only what a request may.
LEMMA CreatePasswordRuleHandled ==
  ASSUME NEW u, Ready(u), CreatePasswordRule(u)
  PROVE  Handled(u)
<1>1. Call(u).op = "CreatePasswordRule" /\ Gives(Values(u), "passwordRule", ByHandler)
  BY CallsAssumption DEF CreatePasswordRule, Handles, MadeBy, Ready, Values
<1>2. Proper(u, "passwordRule", InServer(u, Values(u)))
  BY <1>1, ProperInServer
<1>3. PICK ok \in BOOLEAN : ok <=> RuleOf(u) = {Nil}
  OBVIOUS
<1>4. Respond(u, ok, <<Insertion(New1(u, "passwordRule"), "passwordRule", InServer(u, Values(u)))>>)
  BY <1>3 DEF CreatePasswordRule, Respond, Return
<1>5. QED
  BY <1>2, <1>4, InsertResponds, GivenByHandler

\* The handler of UpdatePasswordRule sets and tracks only what a request may.
LEMMA UpdatePasswordRuleHandled ==
  ASSUME NEW u, Ready(u), UpdatePasswordRule(u)
  PROVE  Handled(u)
<1>1. PICK r \in RuleOf(u) :
         Set(u, IF Readable("passwordRule") THEN r ELSE Nil, [details |-> Values(u).details])
  BY DEF UpdatePasswordRule
<1>2. PICK id : id = IF Readable("passwordRule") THEN r ELSE Nil
  OBVIOUS
<1>3. PICK values : values = [details |-> Values(u).details]
  OBVIOUS
<1>4. id # Nil => id \in DOMAIN db /\ db[id].kind = "passwordRule" /\ Owned(db, Home(u), id)
  BY <1>2, FoundUser, Addressed DEF RuleOf, UpdatePasswordRule, Handles, Ready
<1>5. id # Nil => MayChange(db, Home(u), id, DOMAIN values)
  BY <1>4, PlainChange
<1>6. DOMAIN values \subseteq SettersOf["passwordRule"]
  BY <1>3, Setters
<1>7. QED
  BY <1>1, <1>2, <1>3, <1>4, <1>6, <1>5, SetResponds

\* The lookups of a user and of an application in the virtual server.
LEMMA ServiceUserFound ==
  ASSUME NEW u, BackendOK, NEW user \in ServiceUser(u), user # Nil
  PROVE  user \in DOMAIN db /\ db[user].kind = "user" /\ Owned(db, Server(u), user)
BY FoundUser DEF ServiceUser

\* The user of a call on metadata,
LEMMA UserFound ==
  ASSUME NEW u, BackendOK, NEW user \in UserOf(u), user # Nil
  PROVE  user \in DOMAIN db /\ db[user].kind = "user" /\ Owned(db, Server(u), user)
BY FoundUser DEF UserOf

\* and its application.
LEMMA ApplicationFound ==
  ASSUME NEW u, BackendOK, NEW a \in ApplicationOf(u), a # Nil
  PROVE  a \in DOMAIN db /\ db[a].kind = "application" /\ Owned(db, Server(u), a)
BY FoundUser DEF ApplicationOf

\* The credentials of a user of the virtual server of the request.
LEMMA ProperCredential ==
  ASSUME NEW u, NEW user, user \in DOMAIN db, db[user].kind = "user", Owned(db, Home(u), user),
         NEW values, DOMAIN values = {"userId", "type", "details"}, values["userId"] = user
  PROVE  "credential" \in Kind /\ Proper(u, "credential", values)
<1>1. "credential" \in Kind /\ Fields("credential") = {"userId", "type", "details"}
      /\ EntityOf["credential"].given = {"userId", "type", "details"}
  BY Kinds DEF Fields, EntityOf, Entity, Credential_entity, NoFields
<1>2. RefersTo("credential") = [userId |-> "user"]
  BY ReferencesOf
<1>3. QED
  BY <1>1, <1>2 DEF Proper

\* What is found of a user of a virtual server is of that server.
LEMMA FoundOfUser ==
  ASSUME BackendOK, NEW kind \in {"credential", "appUserMetadata"}, NEW filter,
         "userId" \in DOMAIN filter, NEW user, filter["userId"] = user,
         user \in DOMAIN db, db[user].kind = "user", NEW H, Owned(db, H, user),
         NEW x \in First(kind, filter), x # Nil
  PROVE  /\ x \in DOMAIN db /\ db[x].kind = kind
         /\ \A fields : MayChange(db, H, x, fields)
<1>1. /\ "userId" \in Where(backend, kind) /\ "userId" \in Fields(kind)
      /\ "virtualServerId" \notin Fields(kind)
  <2> USE DEF Where, ReadOf, Read, ReadAs, MatchesOf, Matches, Fields, EntityOf, Entity, NoFields
  <2>1. CASE kind = "credential"
    BY <2>1 DEF Credential_read, Credential_memory, Credential_entity
  <2>2. CASE kind = "appUserMetadata"
    BY <2>2 DEF AppUserMetadata_read, AppUserMetadata_memory, AppUserMetadata_entity
  <2>3. QED
    BY <2>1, <2>2
<1>2. x \in DOMAIN db /\ db[x].kind = kind /\ Holds("userId", user, x, db[x].fields)
  BY <1>1, LookedUp
<1>3. db[x].fields.userId = user
  BY <1>2 DEF Holds
<1>4. Owned(db, H, x)
  BY <1>1, <1>2, <1>3 DEF Owned, ServerIn
<1>5. QED
  BY <1>2, <1>4, PlainChange

\* The handler of AssociateServiceUserPublicKey sets and tracks only what a request may.
LEMMA AssociateServiceUserPublicKeyHandled ==
  ASSUME NEW u, Ready(u), AssociateServiceUserPublicKey(u)
  PROVE  Handled(u)
<1>1. PICK user \in ServiceUser(u) :
         Respond(u, user # Nil, <<KeyCredential(New1(u, "credential"), user, Values(u).key)>>)
  BY DEF AssociateServiceUserPublicKey
<1>2. PICK ok \in BOOLEAN : ok <=> user # Nil
  OBVIOUS
<1>3. PICK values : values = [userId |-> user, type |-> "service_user_key", details |-> Values(u).key]
  OBVIOUS
<1>4. Respond(u, ok, <<Insertion(New1(u, "credential"), "credential", values)>>)
  BY <1>1, <1>2, <1>3 DEF Respond, Return, KeyCredential
<1>5. Home(u) = Server(u)
  BY Addressed DEF AssociateServiceUserPublicKey, Handles
<1>6. "credential" \in Kind
  BY Kinds
<1>7. ok => Proper(u, "credential", values)
  BY <1>2, <1>3, <1>5, ServiceUserFound, ProperCredential DEF Ready
<1>8. QED
  BY <1>4, <1>6, <1>7, InsertResponds

\* The handler of RemoveServiceUserPublicKey sets and tracks only what a request may.
LEMMA RemoveServiceUserPublicKeyHandled ==
  ASSUME NEW u, Ready(u), RemoveServiceUserPublicKey(u)
  PROVE  Handled(u)
<1>1. PICK user \in ServiceUser(u) :
          \E c \in IF user = Nil THEN {Nil}
                   ELSE First("credential", [userId |-> user, type |-> "service_user_key",
                                             detailKid |-> Values(u).key]) :
             Respond(u, c # Nil, <<Deletion("credential", c)>>)
  BY DEF RemoveServiceUserPublicKey
<1>2. PICK filter : filter = [userId |-> user, type |-> "service_user_key",
                              detailKid |-> Values(u).key]
  OBVIOUS
<1>3. PICK c \in IF user = Nil THEN {Nil} ELSE First("credential", filter) :
         Respond(u, c # Nil, <<Deletion("credential", c)>>)
  BY <1>1, <1>2
<1>4. PICK ok \in BOOLEAN : ok <=> c # Nil
  OBVIOUS
<1>5. PICK work : work = <<Deletion("credential", c)>>
  OBVIOUS
<1>6. Respond(u, ok, work)
  BY <1>3, <1>4, <1>5 DEF Respond, Return
<1>7. ASSUME ok PROVE Legit(u, <<>>, work)
  <2>1. c # Nil /\ c \in First("credential", filter)
    BY <1>3, <1>4, <1>7
  <2>2. user \in DOMAIN db /\ db[user].kind = "user" /\ Owned(db, Home(u), user)
    <3>1. user # Nil
      BY <1>3, <1>4, <1>7
    <3>2. QED
      BY <3>1, ServiceUserFound, Addressed DEF RemoveServiceUserPublicKey, Handles, Ready
  <2>3. c \in DOMAIN db /\ db[c].kind = "credential" /\ MayChange(db, Home(u), c, SystemFields)
    <3>1. "userId" \in DOMAIN filter /\ filter["userId"] = user
      BY <1>2
    <3>2. QED
      BY <2>1, <2>2, <3>1, FoundOfUser DEF Ready
  <2>4. "credential" \in Removed
    BY DEF Removed
  <2>5. QED
    BY <1>5, <2>3, <2>4, DeletionFits
<1>8. Len(work) <= 1
  BY <1>5
<1>9. QED
  BY <1>6, <1>7, <1>8, Responded

\* The handler of SetPassword sets and tracks only what a request may.
LEMMA SetPasswordHandled ==
  ASSUME NEW u, Ready(u), SetPassword(u)
  PROVE  Handled(u)
<1>1. PICK user : user = Call(u).on
  OBVIOUS
<1>2. Call(u).op = "SetPassword" /\ user \in DOMAIN InitialRows /\ InitialRows[user].kind = "user"
  BY <1>1, CallsAssumption DEF SetPassword, Handles, Ready, IsUser
<1>3. user \in DOMAIN db /\ db[user].kind = "user" /\ Owned(db, Home(u), user)
  <2>1. Keeps(InitialRows, db, user)
    BY <1>2 DEF Ready
  <2>2. IsFixed("user", "virtualServerId")
    BY DEF IsFixed, RefersTo, TableOf, User_table, Table
  <2>3. db[user].fields.virtualServerId = Home(u)
    BY <1>1, <1>2, <2>1, <2>2 DEF Keeps, Home
  <2>4. "virtualServerId" \in Fields("user")
    BY DEF Fields, EntityOf, User_entity, Entity
  <2>5. QED
    BY <1>2, <2>1, <2>3, <2>4 DEF Keeps, Owned, ServerIn
<1>4. PICK details : details = PasswordDetails(u)
  OBVIOUS
<1>5. DOMAIN details = {"type", "details"}
  BY <1>4 DEF PasswordDetails
<1>6. PICK filter : filter = [userId |-> user, type |-> "password"]
  OBVIOUS
<1>7. PICK c \in First("credential", filter) :
         IF c = Nil
         THEN Respond(u, TRUE, <<Insertion(New1(u, "credential"), "credential",
                                           [userId |-> user] ++ details)>>)
         ELSE Set(u, c, details)
  BY <1>1, <1>4, <1>6 DEF SetPassword
<1>8. CASE c = Nil
  <2>1. PICK values : values = [userId |-> user] ++ details
    OBVIOUS
  <2>2. DOMAIN values = {"userId", "type", "details"} /\ values["userId"] = user
    BY <1>5, <2>1 DEF ++
  <2>3. "credential" \in Kind /\ Proper(u, "credential", values)
    BY <1>3, <2>2, ProperCredential
  <2>4. Respond(u, TRUE, <<Insertion(New1(u, "credential"), "credential", values)>>)
    BY <1>7, <1>8, <2>1
  <2>5. QED
    BY <2>3, <2>4, InsertResponds
<1>9. CASE c # Nil
  <2>1. Set(u, c, details)
    BY <1>7, <1>9
  <2>2. c \in DOMAIN db /\ db[c].kind = "credential" /\ MayChange(db, Home(u), c, DOMAIN details)
    <3>1. "userId" \in DOMAIN filter /\ filter["userId"] = user
      BY <1>6
    <3>2. QED
      BY <1>3, <1>7, <1>9, <3>1, FoundOfUser DEF Ready
  <2>3. QED
    BY <1>5, <2>1, <2>2, Setters, SetResponds
<1>10. QED
  BY <1>8, <1>9

\* The metadata of a user has a setter, that of a user in an application too.
LEMMA MetadataSettable ==
  ASSUME NEW u
  PROVE  /\ DOMAIN Metadata(u) = {"metadata"}
         /\ DOMAIN Metadata(u) \subseteq SettersOf["user"]
         /\ DOMAIN Metadata(u) \subseteq SettersOf["appUserMetadata"]
BY Setters DEF Metadata

\* The handler of UpdateUserMetadata sets and tracks only what a request may.
LEMMA UpdateUserMetadataHandled ==
  ASSUME NEW u, Ready(u), UpdateUserMetadata(u) \/ PatchUserMetadata(u)
  PROVE  Handled(u)
<1>1. PICK user \in UserOf(u) : Set(u, user, Metadata(u))
  BY DEF UpdateUserMetadata, PatchUserMetadata
<1>2. user # Nil => user \in DOMAIN db /\ db[user].kind = "user" /\ Owned(db, Home(u), user)
  BY UserFound, Addressed DEF UpdateUserMetadata, PatchUserMetadata, Handles, Ready
<1>3. user # Nil => MayChange(db, Home(u), user, DOMAIN Metadata(u))
  BY <1>2, PlainChange
<1>4. QED
  BY <1>1, <1>2, <1>3, MetadataSettable, SetResponds

\* The metadata of a user of the virtual server for an application.
LEMMA MetadataFound ==
  ASSUME NEW u, Ready(u), Call(u).op \notin {"SetPassword", "CreateVirtualServer"},
         NEW user \in UserOf(u), NEW a, NEW m \in MetadataOf(user, a), m # Nil
  PROVE  /\ m \in DOMAIN db /\ db[m].kind = "appUserMetadata"
         /\ MayChange(db, Home(u), m, DOMAIN Metadata(u))
<1>1. PICK filter : filter = [applicationId |-> a, userId |-> user]
  OBVIOUS
<1>2. user # Nil /\ m \in First("appUserMetadata", filter)
  BY <1>1 DEF MetadataOf
<1>3. user \in DOMAIN db /\ db[user].kind = "user" /\ Owned(db, Home(u), user)
  BY <1>2, UserFound, Addressed DEF Ready
<1>4. "userId" \in DOMAIN filter /\ filter["userId"] = user
  BY <1>1
<1>5. QED
  BY <1>2, <1>3, <1>4, FoundOfUser DEF Ready

\* The handler of UpdateUserAppMetadata sets and tracks only what a request may.
LEMMA UpdateUserAppMetadataHandled ==
  ASSUME NEW u, Ready(u), UpdateUserAppMetadata(u)
  PROVE  Handled(u)
<1>1. PICK user \in UserOf(u) : \E a \in ApplicationOf(u) : \E m \in MetadataOf(user, a) :
          IF m # Nil THEN Set(u, m, Metadata(u))
          ELSE Respond(u, user # Nil /\ a # Nil,
                       <<Insertion(New1(u, "appUserMetadata"), "appUserMetadata",
                                   [userId |-> user, applicationId |-> a] ++ Metadata(u))>>)
  BY DEF UpdateUserAppMetadata
<1>2. PICK a, m :
         /\ a \in ApplicationOf(u) /\ m \in MetadataOf(user, a)
         /\ IF m # Nil THEN Set(u, m, Metadata(u))
            ELSE Respond(u, user # Nil /\ a # Nil,
                         <<Insertion(New1(u, "appUserMetadata"), "appUserMetadata",
                                     [userId |-> user, applicationId |-> a] ++ Metadata(u))>>)
  BY <1>1
<1>3. m # Nil => /\ m \in DOMAIN db /\ db[m].kind = "appUserMetadata"
                 /\ MayChange(db, Home(u), m, DOMAIN Metadata(u))
  BY <1>2, MetadataFound DEF UpdateUserAppMetadata, Handles
<1>4. CASE m # Nil
  <2>1. Set(u, m, Metadata(u))
    BY <1>2, <1>4
  <2>2. QED
    BY <1>3, <1>4, <2>1, MetadataSettable, SetResponds
<1>5. CASE m = Nil
  <2>1. PICK ok \in BOOLEAN : ok <=> user # Nil /\ a # Nil
    OBVIOUS
  <2>2. PICK values : values = [userId |-> user, applicationId |-> a] ++ Metadata(u)
    OBVIOUS
  <2>3. Respond(u, ok, <<Insertion(New1(u, "appUserMetadata"), "appUserMetadata", values)>>)
    BY <1>2, <1>5, <2>1, <2>2 DEF Respond, Return
  <2>4. Home(u) = Server(u)
    BY Addressed DEF UpdateUserAppMetadata, Handles
  <2>5. /\ "appUserMetadata" \in Kind
        /\ Fields("appUserMetadata") = {"applicationId", "userId", "metadata"}
        /\ EntityOf["appUserMetadata"].given = {"applicationId", "userId", "metadata"}
    BY Kinds DEF Fields, EntityOf, Entity, AppUserMetadata_entity, NoFields
  <2>6. RefersTo("appUserMetadata") = [applicationId |-> "application", userId |-> "user"]
    BY ReferencesOf
  <2>7. /\ DOMAIN values = {"applicationId", "userId", "metadata"}
        /\ values["applicationId"] = a /\ values["userId"] = user
    BY <2>2 DEF ++, Metadata
  <2>8. ASSUME ok PROVE Proper(u, "appUserMetadata", values)
    <3>1. user \in DOMAIN db /\ db[user].kind = "user" /\ Owned(db, Server(u), user)
      BY <2>1, <2>8, UserFound DEF Ready
    <3>2. a \in DOMAIN db /\ db[a].kind = "application" /\ Owned(db, Server(u), a)
      BY <1>2, <2>1, <2>8, ApplicationFound DEF Ready
    <3>3. QED
      BY <2>4, <2>5, <2>6, <2>7, <3>1, <3>2 DEF Proper
  <2>9. QED
    BY <2>3, <2>5, <2>8, InsertResponds
<1>6. QED
  BY <1>4, <1>5

\* The handler of PatchUserAppMetadata sets and tracks only what a request may.
LEMMA PatchUserAppMetadataHandled ==
  ASSUME NEW u, Ready(u), PatchUserAppMetadata(u)
  PROVE  Handled(u)
<1>1. PICK user, a, m : user \in UserOf(u) /\ m \in MetadataOf(user, a) /\ Set(u, m, Metadata(u))
  BY DEF PatchUserAppMetadata
<1>2. m # Nil => /\ m \in DOMAIN db /\ db[m].kind = "appUserMetadata"
                 /\ MayChange(db, Home(u), m, DOMAIN Metadata(u))
  BY <1>1, MetadataFound DEF PatchUserAppMetadata, Handles
<1>3. QED
  BY <1>1, <1>2, MetadataSettable, SetResponds

-----------------------------------------------------------------------------
(* The handlers that track several rows.                                   *)

\* An insertion of fresh values fits the tracker.
LEMMA FreshFits ==
  ASSUME NEW u, NEW H, NEW w, NEW n, NEW id, NEW kind, NEW values,
         Fresh(u, H, w, n, id, kind, values), w[n] = Insertion(id, kind, values)
  PROVE  FitsWell(u, H, w, n)
<1>1. PICK e : e = w[n]
  OBVIOUS
<1>2. kind \in Kind
  BY DEF Fresh
<1>3. /\ e.change = "added" /\ e.kind = kind /\ e.id = id /\ e.fields = New(kind, values)
      /\ e.stamped = FALSE /\ IsEntry(e)
  BY <1>1, <1>2 DEF Insertion, Entry, IsEntry
<1>4. DOMAIN e.fields = Fields(kind) /\ \A c \in DOMAIN values : e.fields[c] = values[c]
  BY <1>3, NewFields DEF Fresh
<1>5. EntryFits(db, u, e)
  BY <1>3, <1>4 DEF EntryFits, Fresh
<1>6. Belongs(db, H, e)
  BY <1>3, <1>4 DEF Belongs, Fresh
<1>7. \A c \in DOMAIN RefersTo(e.kind) :
         \/ c = "groupId" /\ e.fields[c] = Nil
         \/ Refers(db, H, e, c)
         \/ Inserts(w, n, e.fields[c], RefersTo(e.kind)[c])
  BY <1>3, <1>4 DEF Refers, Fresh
<1>8. GrantsNothing(db, u, e)
  <2>1. "projectId" \in DOMAIN RefersTo("role") /\ "roleId" \in DOMAIN RefersTo("assignment")
    BY ReferencesOf
  <2>2. QED
    BY <1>3, <1>4, <2>1 DEF GrantsNothing, Fresh
<1>9. Fits(db, u, H, w, n)
  BY <1>1, <1>3, <1>5, <1>6, <1>7, <1>8 DEF Fits, Inserts
<1>10. e.kind = "application" => e.fields.signingAlgorithm = Nothing
  BY <1>3, DefaultAlgorithm DEF Fresh
<1>11. QED
  BY <1>1, <1>3, <1>9, <1>10 DEF FitsWell, Fresh

\* A tracker whose entries fit well is one that a handler may fill.
LEMMA LegitWork ==
  ASSUME NEW u, NEW w, FitWell(u, Home(u), w), Call(u).op \in LateFailures
  PROVE  Legit(u, <<>>, w)
<1>1. WorkFits(db, u, Home(u), w)
  BY DEF WorkFits, FitWell, FitsWell
<1>2. \A i \in 1 .. Len(w) : Careful(db, w, i)
  BY DEF FitWell, FitsWell, Careful
<1>3. QED
  BY <1>1, <1>2 DEF Legit, FitWell, FitsWell, MaySet

\* The handler of CreateUser sets and tracks only what a request may.
LEMMA CreateUserHandled ==
  ASSUME NEW u, Ready(u), CreateUser(u)
  PROVE  Handled(u)
<1>1. Call(u).op = "CreateUser" /\ Gives(Values(u), "user", ByHandler)
  BY CallsAssumption DEF CreateUser, Handles, MadeBy, Ready, Values
<1>2. Call(u).op \in LateFailures
  BY <1>1 DEF LateFailures
<1>3. PICK id : id = New1(u, "user")
  OBVIOUS
<1>4. PICK values : values = InServer(u, Values(u))
  OBVIOUS
<1>5. PICK user : user = Insertion(id, "user", values)
  OBVIOUS
<1>6. PICK content : content = [type |-> "send_email", details |-> user.id]
  OBVIOUS
<1>7. PICK mail : mail = Insertion(New1(u, "outboxMessage"), "outboxMessage", content)
  OBVIOUS
<1>8. \E ok \in BOOLEAN, both \in BOOLEAN : Return(u, ok, <<>>, IF both THEN <<user, mail>> ELSE <<user>>)
  <2> DEFINE template == Select("template", InServer(u, [templateType |-> "email_verification"])) # {}
             silent == Values(u).emailVerified
  <2>1. PICK ok \in BOOLEAN : ok <=> silent \/ template
    OBVIOUS
  <2>2. PICK both \in BOOLEAN : both <=> ~silent /\ template
    OBVIOUS
  <2>3. Return(u, silent \/ template, <<>>, IF ~silent /\ template THEN <<user, mail>> ELSE <<user>>)
    BY <1>3, <1>4, <1>5, <1>6, <1>7 DEF CreateUser
  <2> HIDE DEF template, silent
  <2>4. Return(u, ok, <<>>, IF both THEN <<user, mail>> ELSE <<user>>)
    BY <2>1, <2>2, <2>3 DEF Return
  <2>5. QED
    BY <2>4
<1>9. PICK ok \in BOOLEAN, both \in BOOLEAN : Return(u, ok, <<>>, IF both THEN <<user, mail>> ELSE <<user>>)
  BY <1>8
<1>10. Proper(u, "user", values)
  BY <1>1, <1>4, ProperInServer
<1>11. "user" \in Kind /\ "outboxMessage" \in Kind
  BY Kinds
<1>12. id # Nil /\ id[1] = u /\ id \notin DOMAIN db /\ id # New1(u, "auditLog")
  BY <1>3 DEF New1, Nil, Ready
<1>13. PICK work : work = IF both THEN <<user, mail>> ELSE <<user>>
  OBVIOUS
<1>14. user.id = id /\ user.kind = "user"
  BY <1>5 DEF Insertion, Entry
<1>15. PICK box : box = New1(u, "outboxMessage")
  OBVIOUS
<1>16. /\ box # Nil /\ box[1] = u /\ box \notin DOMAIN db /\ box # New1(u, "auditLog")
       /\ box # id
  BY <1>3, <1>15 DEF New1, Nil, Ready
<1>17. mail.id = box /\ mail.kind = "outboxMessage"
  BY <1>7, <1>15 DEF Insertion, Entry
<1>18. Len(work) \in {1, 2} /\ work[1] = user /\ (Len(work) = 2 => work[2] = mail)
  BY <1>13
<1>19. Tracker(work)
  <2>1. work = [i \in 1 .. Len(work) |-> work[i]]
    BY <1>13
  <2>2. QED
    BY <1>14, <1>16, <1>17, <1>18, <2>1 DEF Tracker
<1>20. FitsWell(u, Home(u), work, 1)
  <2>1. Fresh(u, Home(u), work, 1, id, "user", values)
    BY <1>10, <1>11, <1>12 DEF Fresh, Proper
  <2>2. QED
    BY <1>5, <1>18, <2>1, FreshFits
<1>21. ASSUME Len(work) = 2 PROVE FitsWell(u, Home(u), work, 2)
  <2>1. /\ Fields("outboxMessage") = {"type", "details"}
        /\ EntityOf["outboxMessage"].given = {"type", "details"}
    BY DEF Fields, EntityOf, Entity, OutboxMessage_entity, NoFields
  <2>2. DOMAIN content = {"type", "details"} /\ DOMAIN RefersTo("outboxMessage") = {}
    BY <1>6, ReferencesOf
  <2>3. Fresh(u, Home(u), work, 2, box, "outboxMessage", content)
    BY <1>11, <1>16, <2>1, <2>2 DEF Fresh
  <2>4. QED
    BY <1>7, <1>15, <1>18, <1>21, <2>3, FreshFits
<1>22. ASSUME NEW i \in 1 .. Len(work) PROVE FitsWell(u, Home(u), work, i)
  <2>1. CASE i = 1
    BY <1>20, <2>1
  <2>2. CASE i # 1
    <3>1. PICK n : n = Len(work)
      OBVIOUS
    <3>2. n \in {1, 2} /\ i \in 1 .. n
      BY <1>18, <3>1
    <3>3. i = 2 /\ n = 2
      BY <3>2, <2>2
    <3>4. QED
      BY <1>21, <3>3, <3>1
  <2>3. QED
    BY <2>1, <2>2
<1>23. Legit(u, <<>>, work)
  BY <1>2, <1>19, <1>22, LegitWork DEF FitWell
<1>24. Returns(u, <<>>, work) \/ Refuses(u, <<>>, work)
  BY <1>9, <1>13 DEF Returns, Refuses
<1>25. QED
  BY <1>2, <1>23, <1>24 DEF Handled

-----------------------------------------------------------------------------
(* A new virtual server.                                                   *)

LEMMA Joined ==
  ASSUME NEW S, NEW s \in Seq(S), NEW t \in Seq(S), NEW v \in Seq(S), Len(v) = Len(s) + Len(t),
         \A i \in 1 .. Len(s) : v[i] = s[i], \A i \in 1 .. Len(t) : v[Len(s) + i] = t[i]
  PROVE  s \o t = v
<1>1. s \o t \in Seq(S) /\ Len(s \o t) = Len(s) + Len(t)
  BY ConcatProperties
<1>2. ASSUME NEW i \in 1 .. Len(v) PROVE (s \o t)[i] = v[i]
  <2>1. (s \o t)[i] = IF i <= Len(s) THEN s[i] ELSE t[i - Len(s)]
    BY <1>1, ConcatProperties
  <2>2. Len(s) \in Nat /\ Len(t) \in Nat
    OBVIOUS
  <2>3. CASE i <= Len(s)
    BY <2>1, <2>2, <2>3
  <2>4. CASE ~(i <= Len(s))
    <3>1. i - Len(s) \in 1 .. Len(t) /\ Len(s) + (i - Len(s)) = i
      BY <2>2, <2>4
    <3>2. QED
      BY <2>1, <2>4, <3>1
  <2>5. QED
    BY <2>3, <2>4
<1>3. QED
  BY <1>1, <1>2, SeqEqual

\* What is tracked for a virtual server before its users, as one tuple.
LEMMA AllJoined ==
  ASSUME NEW v, Len(v) = 10, v = [i \in 1 .. 10 |-> v[i]]
  PROVE  <<v[1]>> \o ((<<v[2], v[3]>> \o <<v[4], v[5], v[6]>>) \o <<v[7], v[8], v[9], v[10]>>) = v
<1>1. PICK S : S = {v[1], v[2], v[3], v[4], v[5], v[6], v[7], v[8], v[9], v[10]}
  OBVIOUS
<1>2. PICK a : a = <<v[2], v[3]>>
  OBVIOUS
<1>3. PICK b : b = <<v[4], v[5], v[6]>>
  OBVIOUS
<1>4. PICK c : c = <<v[7], v[8], v[9], v[10]>>
  OBVIOUS
<1>5. PICK ab : ab = <<v[2], v[3], v[4], v[5], v[6]>>
  OBVIOUS
<1>6. PICK abc : abc = <<v[2], v[3], v[4], v[5], v[6], v[7], v[8], v[9], v[10]>>
  OBVIOUS
<1>7. PICK f : f = <<v[1]>>
  OBVIOUS
<1>8. \A i \in 1 .. 10 : v[i] \in S
  BY <1>1
<1>9. /\ a \in Seq(S) /\ b \in Seq(S) /\ c \in Seq(S) /\ ab \in Seq(S) /\ f \in Seq(S)
      /\ Len(a) = 2 /\ Len(b) = 3 /\ Len(c) = 4 /\ Len(ab) = 5 /\ Len(f) = 1
  BY <1>1, <1>2, <1>3, <1>4, <1>5, <1>7
<1>10. abc \in Seq(S) /\ Len(abc) = 9
  BY <1>1, <1>6
<1>11. v \in Seq(S)
  <2>1. v \in [1 .. 10 -> S]
    BY <1>8
  <2>2. QED
    BY <2>1
<1>12. a \o b = ab
  <2>1. Len(ab) = Len(a) + Len(b)
    BY <1>9
  <2>2. \A i \in 1 .. Len(a) : ab[i] = a[i]
    BY <1>2, <1>5
  <2>3. \A i \in 1 .. 3 : ab[2 + i] = b[i]
    BY <1>3, <1>5
  <2>4. \A i \in 1 .. Len(b) : ab[Len(a) + i] = b[i]
    BY <1>9, <2>3
  <2>5. QED
    BY <1>9, <2>1, <2>2, <2>4, Joined, Zenon
<1>13. ab \o c = abc
  <2>1. Len(abc) = Len(ab) + Len(c)
    BY <1>9, <1>10
  <2>2. \A i \in 1 .. Len(ab) : abc[i] = ab[i]
    BY <1>5, <1>6
  <2>3. \A i \in 1 .. 4 : abc[5 + i] = c[i]
    BY <1>4, <1>6
  <2>4. \A i \in 1 .. Len(c) : abc[Len(ab) + i] = c[i]
    BY <1>9, <2>3
  <2>5. QED
    BY <1>9, <1>10, <2>1, <2>2, <2>4, Joined, Zenon
<1>14. f \o abc = v
  <2>1. Len(v) = Len(f) + Len(abc)
    BY <1>9, <1>10, <1>11
  <2>2. \A i \in 1 .. Len(f) : v[i] = f[i]
    BY <1>7
  <2>3. \A i \in 1 .. 9 : v[1 + i] = abc[i]
    BY <1>6
  <2>4. \A i \in 1 .. Len(abc) : v[Len(f) + i] = abc[i]
    BY <1>9, <1>10, <2>3
  <2>5. QED
    BY <1>9, <1>10, <1>11, <2>1, <2>2, <2>4, Joined, Zenon
<1>15. f \o ((a \o b) \o c) = v
  BY <1>12, <1>13, <1>14
<1>16. QED
  BY <1>2, <1>3, <1>4, <1>7, <1>15

\* The fields of the rows that come with a virtual server.
LEMMA FieldsOf ==
  /\ EntityOf["file"].given = {"name", "mimeType", "content"}
  /\ EntityOf["template"].given = {"virtualServerId", "fileId", "type"}
  /\ EntityOf["project"].given = {"virtualServerId", "slug", "name", "description"}
  /\ EntityOf["application"].given =
        {"virtualServerId", "projectId", "name", "displayName", "type", "redirectUris"}
  /\ EntityOf["role"].given = {"virtualServerId", "projectId", "name", "description"}
  /\ EntityOf["resourceServer"].given = {"virtualServerId", "projectId", "slug", "name", "description"}
  /\ EntityOf["user"].given = {"username", "displayName", "primaryEmail", "virtualServerId"}
  /\ EntityOf["credential"].given = {"userId", "type", "details"}
  /\ EntityOf["assignment"].given = {"userId", "roleId", "groupId"}
  /\ {"virtualServerId", "slug", "name", "description", "systemProject"} \subseteq Fields("project")
  /\ {"virtualServerId", "projectId", "name", "displayName", "type", "redirectUris",
      "postLogoutRedirectUris", "hashedSecret", "systemApplication"} \subseteq Fields("application")
  /\ {"username", "displayName", "primaryEmail", "virtualServerId", "emailVerified", "serviceUser"}
        \subseteq Fields("user")
  /\ Fields("file") = EntityOf["file"].given /\ Fields("template") = EntityOf["template"].given
  /\ Fields("role") = EntityOf["role"].given
  /\ Fields("resourceServer") = EntityOf["resourceServer"].given
  /\ Fields("credential") = EntityOf["credential"].given
  /\ Fields("assignment") = EntityOf["assignment"].given
  /\ "virtualServerId" \notin Fields("virtualServer")
<1> USE DEF Fields, EntityOf, Entity
<1>1. /\ EntityOf["file"].given = {"name", "mimeType", "content"}
      /\ Fields("file") = EntityOf["file"].given
  BY DEF File_entity, NoFields
<1>2. /\ EntityOf["template"].given = {"virtualServerId", "fileId", "type"}
      /\ Fields("template") = EntityOf["template"].given
  BY DEF Template_entity, NoFields
<1>3. /\ EntityOf["project"].given = {"virtualServerId", "slug", "name", "description"}
      /\ Fields("project") = {"virtualServerId", "slug", "name", "description", "systemProject"}
  BY DEF Project_entity
<1>4. /\ EntityOf["application"].given =
            {"virtualServerId", "projectId", "name", "displayName", "type", "redirectUris"}
      /\ {"virtualServerId", "projectId", "name", "displayName", "type", "redirectUris",
          "postLogoutRedirectUris", "hashedSecret", "systemApplication"} \subseteq Fields("application")
  BY DEF Application_entity
<1>5. /\ EntityOf["role"].given = {"virtualServerId", "projectId", "name", "description"}
      /\ Fields("role") = EntityOf["role"].given
  BY DEF Role_entity, NoFields
<1>6. /\ EntityOf["resourceServer"].given = {"virtualServerId", "projectId", "slug", "name", "description"}
      /\ Fields("resourceServer") = EntityOf["resourceServer"].given
  BY DEF ResourceServer_entity, NoFields
<1>7. /\ EntityOf["user"].given = {"username", "displayName", "primaryEmail", "virtualServerId"}
      /\ {"username", "displayName", "primaryEmail", "virtualServerId", "emailVerified", "serviceUser"}
            \subseteq Fields("user")
  BY DEF User_entity
<1>8. /\ EntityOf["credential"].given = {"userId", "type", "details"}
      /\ Fields("credential") = EntityOf["credential"].given
  BY DEF Credential_entity, NoFields
<1>9. /\ EntityOf["assignment"].given = {"userId", "roleId", "groupId"}
      /\ Fields("assignment") = EntityOf["assignment"].given
  BY DEF Assignment_entity, NoFields
<1>10. "virtualServerId" \notin Fields("virtualServer")
  BY DEF VirtualServer_entity
<1> HIDE DEF Fields, EntityOf, Entity
<1>11. QED
  BY <1>1, <1>2, <1>3, <1>4, <1>5, <1>6, <1>7, <1>8, <1>9, <1>10

\* An earlier insertion is one of those before the entry.
LEMMA InsertedAt ==
  ASSUME NEW w, NEW j \in Nat, NEW n \in Nat, 1 <= j, j < n, w[j].change = "added"
  PROVE  Inserts(w, n, w[j].id, w[j].kind)
<1>1. j \in 1 .. n - 1
  OBVIOUS
<1>2. QED
  BY <1>1 DEF Inserts

\* What is inserted has the values it was given.
LEMMA InsertionAdds ==
  ASSUME NEW w, NEW i \in 1 .. Len(w), NEW id, NEW kind, NEW given, w[i] = Insertion(id, kind, given),
         DOMAIN given \subseteq Fields(kind), EntityOf[kind].given \subseteq DOMAIN given,
         NEW values, \A c \in DOMAIN values : c \in DOMAIN given /\ given[c] = values[c]
  PROVE  Adds(w, id, kind, values)
<1>1. w[i].change = "added" /\ w[i].id = id /\ w[i].kind = kind /\ w[i].fields = New(kind, given)
  BY DEF Insertion, Entry
<1>2. \A c \in DOMAIN values : w[i].fields[c] = values[c]
  BY <1>1, NewFields
<1>3. QED
  BY <1>1, <1>2 DEF Adds

\* A row of a project that is tracked before it.
LEMMA FreshInProject ==
  ASSUME NEW u, NEW H, NEW w, NEW n, NEW id, NEW kind \in {"application", "role", "resourceServer"},
         NEW p, NEW within, within = [virtualServerId |-> H, projectId |-> p], NEW values,
         id # Nil /\ id[1] = u /\ id \notin DOMAIN db /\ id # New1(u, "auditLog"),
         DOMAIN values \subseteq Fields(kind) \ {"virtualServerId", "projectId"},
         EntityOf[kind].given \subseteq DOMAIN values \union {"virtualServerId", "projectId"},
         "signingAlgorithm" \notin DOMAIN values,
         Inserts(w, n, H, "virtualServer"), Inserts(w, n, p, "project"), p \notin DOMAIN db, p[1] = u
  PROVE  Fresh(u, H, w, n, id, kind, values ++ within)
<1>1. PICK v : v = values ++ within
  OBVIOUS
<1>2. /\ DOMAIN within = {"virtualServerId", "projectId"}
      /\ within["virtualServerId"] = H /\ within["projectId"] = p
  OBVIOUS
<1>3. /\ DOMAIN v = DOMAIN values \union {"virtualServerId", "projectId"}
      /\ v["virtualServerId"] = H /\ v["projectId"] = p
  BY <1>1, <1>2 DEF ++
<1>4. kind \in Kind /\ kind \notin {"auditLog", "scope", "virtualServer"}
  BY Kinds
<1>5. RefersTo(kind) = [virtualServerId |-> "virtualServer", projectId |-> "project"]
  BY ReferencesOf
<1>6. {"virtualServerId", "projectId"} \subseteq Fields(kind)
  BY FieldsOf
<1>7. \A c \in DOMAIN RefersTo(kind) :
         c \in DOMAIN v /\ Inserts(w, n, v[c], RefersTo(kind)[c])
  BY <1>3, <1>5
<1>8. MayHold(db, u, p)
  BY DEF MayHold
<1>9. QED
  BY <1>1, <1>3, <1>4, <1>6, <1>7, <1>8 DEF Fresh

\* The unique columns of the rows that come with a virtual server.
LEMMA UniqueOf ==
  /\ TableOf["file"].unique = {} /\ TableOf["template"].unique = {}
  /\ TableOf["role"].unique = {} /\ TableOf["credential"].unique = {}
  /\ TableOf["project"].unique = {{"virtualServerId", "slug"}}
  /\ TableOf["application"].unique = {{"name", "virtualServerId"}}
  /\ TableOf["resourceServer"].unique = {{"projectId", "slug"}}
  /\ TableOf["user"].unique = {{"username", "virtualServerId"}}
  /\ TableOf["assignment"].unique = {{"userId", "roleId", "groupId"}}
BY DEF TableOf, Table, File_table, Template_table, Role_table, Credential_table, Project_table,
   Application_table, ResourceServer_table, User_table, Assignment_table

LEMMA TiedAttached ==
  ASSUME NEW w, NEW n, NEW id, NEW kind, NEW values, Tied(w, n, kind, values),
         w[n] = Insertion(id, kind, values)
  PROVE  w[n].change = "added" /\ ~w[n].stamped /\ Attached(w, n)
<1>1. PICK e : e = w[n]
  OBVIOUS
<1>2. e.change = "added" /\ e.stamped = FALSE /\ e.kind = kind /\ e.fields = New(kind, values)
  BY <1>1 DEF Insertion, Entry
<1>3. \A c \in DOMAIN values : e.fields[c] = values[c]
  BY <1>2, NewFields DEF Tied
<1>4. \A c \in DOMAIN RefersTo(kind) :
         e.fields[c] = Nil \/ Inserts(w, n, e.fields[c], RefersTo(kind)[c])
  BY <1>3 DEF Tied
<1>5. ASSUME NEW columns \in TableOf[kind].unique
      PROVE  \E c \in columns \intersect DOMAIN RefersTo(kind) :
                \/ e.fields[c] = Nil
                \/ \A j \in 1 .. n - 1 :
                      w[j].kind = kind => \E d \in columns : w[j].fields[d] # e.fields[d]
  BY <1>3 DEF Tied
<1>6. QED
  BY <1>1, <1>2, <1>4, <1>5 DEF Attached

\* What comes with a virtual server besides its users fits, and depends on its row only.
LEMMA ServerBaseFits ==
  ASSUME NEW u, NEW H, H = New1(u, "virtualServer"), H \notin DOMAIN db, \A id \in DOMAIN db : id[1] # u,
         NEW e1, NEW values, e1 = Insertion(H, "virtualServer", values),
         Gives(values, "virtualServer", {})
  PROVE  \E work : BaseTracked(u, H, e1, values, work)
<1>1. PICK w1 : w1 = [virtualServerId |-> H, projectId |-> Default(u, "project")]
  OBVIOUS
<1>2. PICK w2 : w2 = [virtualServerId |-> H, projectId |-> <<u, "project">>]
  OBVIOUS
<1>3. PICK i2, i3, i4, i5, i6, i7, i8, i9, i10 :
        /\ i2 = Default(u, "file") /\ i3 = Default(u, "template") /\ i4 = Default(u, "project")
        /\ i5 = Default(u, "application") /\ i6 = Default(u, "role") /\ i7 = <<u, "project">>
        /\ i8 = New1(u, "application") /\ i9 = New1(u, "role") /\ i10 = New1(u, "resourceServer")
  OBVIOUS
<1>12. PICK v2 : v2 = [name |-> "email_verification_template", mimeType |-> "text/plain", content |-> "t"]
  OBVIOUS
<1>13. PICK v3 : v3 = [virtualServerId |-> H, fileId |-> i2, type |-> "email_verification"]
  OBVIOUS
<1>14. PICK v4 : v4 = [virtualServerId |-> H, slug |-> "system", name |-> "System", description |-> Blank,
                       systemProject |-> TRUE]
  OBVIOUS
<1>15. PICK v5 : v5 = [name |-> "admin-ui", displayName |-> "Admin Application", type |-> "public",
                       redirectUris |-> {"auth"}, postLogoutRedirectUris |-> {"logout"},
                       hashedSecret |-> "generated", systemApplication |-> TRUE] ++ w1
  OBVIOUS
<1>16. PICK v6 : v6 = [name |-> "admin", description |-> Blank] ++ w1
  OBVIOUS
<1>17. PICK v7 : v7 = [virtualServerId |-> H, slug |-> "p", name |-> "p", description |-> Blank]
  OBVIOUS
<1>18. PICK v8 : v8 = [name |-> "app", displayName |-> Blank, type |-> "public", redirectUris |-> {}] ++ w2
  OBVIOUS
<1>19. PICK v9 : v9 = [name |-> "r", description |-> Blank] ++ w2
  OBVIOUS
<1>20. PICK v10 : v10 = [slug |-> "rs", name |-> "rs", description |-> Blank] ++ w2
  OBVIOUS
<1>21. PICK e2 : e2 = Insertion(i2, "file", v2)
  OBVIOUS
<1>22. PICK e3 : e3 = Insertion(i3, "template", v3)
  OBVIOUS
<1>23. PICK e4 : e4 = Insertion(i4, "project", v4)
  OBVIOUS
<1>24. PICK e5 : e5 = Insertion(i5, "application", v5)
  OBVIOUS
<1>25. PICK e6 : e6 = Insertion(i6, "role", v6)
  OBVIOUS
<1>26. PICK e7 : e7 = Insertion(i7, "project", v7)
  OBVIOUS
<1>27. PICK e8 : e8 = Insertion(i8, "application", v8)
  OBVIOUS
<1>28. PICK e9 : e9 = Insertion(i9, "role", v9)
  OBVIOUS
<1>29. PICK e10 : e10 = Insertion(i10, "resourceServer", v10)
  OBVIOUS
<1>30. DefaultTemplates(u, H) = <<e2, e3>>
  BY <1>3, <1>12, <1>13, <1>21, <1>22 DEF DefaultTemplates
<1>31. /\ SystemProjectOf(u, H) = e4 /\ DefaultApplications(u, w1) = e5
      /\ DefaultAdminRoles(u, w1) = e6
  BY <1>1, <1>3, <1>14, <1>15, <1>16, <1>23, <1>24, <1>25
  DEF SystemProjectOf, DefaultApplications, DefaultAdminRoles
<1>32. RequestedProject(u, H) = <<e7, e8, e9, e10>>
  BY <1>2, <1>3, <1>17, <1>18, <1>19, <1>20, <1>26, <1>27, <1>28, <1>29 DEF RequestedProject
<1>33. ServerBase(u, H) = (<<e2, e3>> \o <<e4, e5, e6>>) \o <<e7, e8, e9, e10>>
  BY <1>30, <1>31, <1>32, <1>1 DEF ServerBase
<1>34. PICK work : work = <<e1, e2, e3, e4, e5, e6, e7, e8, e9, e10>>
  OBVIOUS
<1>35. Len(work) = 10
  BY <1>34
<1>36. work = [i \in 1 .. 10 |-> work[i]]
  BY <1>34
<1>37. work[1] = e1 /\ work[2] = e2 /\ work[3] = e3 /\ work[4] = e4 /\ work[5] = e5
  BY <1>34
<1>38. work[6] = e6 /\ work[7] = e7 /\ work[8] = e8 /\ work[9] = e9 /\ work[10] = e10
  BY <1>34
<1>39. <<work[1]>> \o ((<<work[2], work[3]>> \o <<work[4], work[5], work[6]>>)
                             \o <<work[7], work[8], work[9], work[10]>>) = work
  BY <1>35, <1>36, AllJoined
<1>40. work = <<e1>> \o ServerBase(u, H)
  BY <1>39, <1>33, <1>37, <1>38
<1>41. \E S : <<e1>> \in Seq(S) /\ ServerBase(u, H) \in Seq(S)
  <2>1. PICK S : S = {e1, e2, e3, e4, e5, e6, e7, e8, e9, e10}
    OBVIOUS
  <2>2. /\ <<e2, e3>> \in Seq(S) /\ <<e4, e5, e6>> \in Seq(S) /\ <<e7, e8, e9, e10>> \in Seq(S)
        /\ <<e1>> \in Seq(S)
    BY <2>1
  <2>3. <<e2, e3>> \o <<e4, e5, e6>> \in Seq(S)
    BY <2>2, ConcatProperties
  <2>4. (<<e2, e3>> \o <<e4, e5, e6>>) \o <<e7, e8, e9, e10>> \in Seq(S)
    <3>1. PICK s, t : s = <<e2, e3>> \o <<e4, e5, e6>> /\ t = <<e7, e8, e9, e10>>
      OBVIOUS
    <3>2. s \in Seq(S) /\ t \in Seq(S)
      BY <2>2, <2>3, <3>1, Zenon
    <3>3. s \o t \in Seq(S)
      BY <3>2, ConcatProperties
    <3>4. QED
      BY <3>1, <3>3, Zenon
  <2>5. QED
    BY <1>33, <2>2, <2>4, Zenon
<1>45. \A id, kind, v : LET e == Insertion(id, kind, v) IN e.change = "added" /\ e.id = id /\ e.kind = kind
  BY DEF Insertion, Entry
<1>46. /\ e1.change = "added" /\ e1.id = H /\ e1.kind = "virtualServer"
       /\ e2.change = "added" /\ e2.id = i2 /\ e2.kind = "file"
       /\ e3.change = "added" /\ e3.id = i3 /\ e3.kind = "template"
       /\ e4.change = "added" /\ e4.id = i4 /\ e4.kind = "project"
       /\ e5.change = "added" /\ e5.id = i5 /\ e5.kind = "application"
       /\ e6.change = "added" /\ e6.id = i6 /\ e6.kind = "role"
       /\ e7.change = "added" /\ e7.id = i7 /\ e7.kind = "project"
       /\ e8.change = "added" /\ e8.id = i8 /\ e8.kind = "application"
       /\ e9.change = "added" /\ e9.id = i9 /\ e9.kind = "role"
       /\ e10.change = "added" /\ e10.id = i10 /\ e10.kind = "resourceServer"
  BY <1>45, <1>21, <1>22, <1>23, <1>24, <1>25, <1>26, <1>27, <1>28, <1>29
<1>55. \A id \in {i2, i3, i4, i5, i6, i7, i8, i9, i10} :
         id # Nil /\ id[1] = u /\ id \notin DOMAIN db /\ id # New1(u, "auditLog")
  BY <1>3 DEF New1, Default, Nil
<1>56. FitsWell(u, H, work, 1)
  <2>1. H # Nil /\ H[1] = u /\ H # New1(u, "auditLog")
    BY DEF New1, Nil
  <2>2. Fresh(u, H, work, 1, H, "virtualServer", values)
    BY <2>1, FieldsOf, ReferencesOf, Kinds DEF Fresh, Gives
  <2>3. QED
    BY <2>2, <1>37, <1>38, FreshFits
<1>57. FitsWell(u, H, work, 2)
  <2>2. Fresh(u, H, work, 2, i2, "file", v2)
    BY <1>55, <1>12, FieldsOf, ReferencesOf, Kinds DEF Fresh
  <2>3. QED
    BY <2>2, <1>21, <1>37, <1>38, FreshFits
<1>58. FitsWell(u, H, work, 3)
  <2>1. Inserts(work, 3, H, "virtualServer") /\ Inserts(work, 3, i2, "file")
    BY <1>37, <1>38, <1>46, InsertedAt
  <2>3. Fresh(u, H, work, 3, i3, "template", v3)
    BY <2>1, <1>55, <1>13, FieldsOf, ReferencesOf, Kinds DEF Fresh
  <2>4. QED
    BY <2>3, <1>22, <1>37, <1>38, FreshFits
<1>59. FitsWell(u, H, work, 4)
  <2>1. Inserts(work, 4, H, "virtualServer")
    BY <1>37, <1>38, <1>46, InsertedAt
  <2>3. Fresh(u, H, work, 4, i4, "project", v4)
    BY <2>1, <1>55, <1>14, FieldsOf, ReferencesOf, Kinds DEF Fresh
  <2>4. QED
    BY <2>3, <1>23, <1>37, <1>38, FreshFits
<1>60. FitsWell(u, H, work, 5)
  <2>1. PICK values5 : values5 = [name |-> "admin-ui", displayName |-> "Admin Application", type |-> "public",
                       redirectUris |-> {"auth"}, postLogoutRedirectUris |-> {"logout"},
                       hashedSecret |-> "generated", systemApplication |-> TRUE]
    OBVIOUS
  <2>2. w1 = [virtualServerId |-> H, projectId |-> i4] /\ i4 \notin DOMAIN db /\ i4[1] = u
    BY <1>1, <1>3, <1>55
  <2>3. /\ DOMAIN values5 \subseteq Fields("application") \ {"virtualServerId", "projectId"}
        /\ EntityOf["application"].given \subseteq DOMAIN values5 \union {"virtualServerId", "projectId"}
        /\ "signingAlgorithm" \notin DOMAIN values5
    BY <2>1, FieldsOf
  <2>4. Inserts(work, 5, H, "virtualServer") /\ Inserts(work, 5, i4, "project")
    BY <1>37, <1>38, <1>46, InsertedAt
  <2>6. Fresh(u, H, work, 5, i5, "application", values5 ++ w1)
    BY <2>2, <2>3, <2>4, <1>55, FreshInProject
  <2>7. QED
    BY <2>1, <2>6, <1>15, <1>24, <1>37, <1>38, FreshFits
<1>61. FitsWell(u, H, work, 6)
  <2>1. PICK values6 : values6 = [name |-> "admin", description |-> Blank]
    OBVIOUS
  <2>2. w1 = [virtualServerId |-> H, projectId |-> i4] /\ i4 \notin DOMAIN db /\ i4[1] = u
    BY <1>1, <1>3, <1>55
  <2>3. /\ DOMAIN values6 \subseteq Fields("role") \ {"virtualServerId", "projectId"}
        /\ EntityOf["role"].given \subseteq DOMAIN values6 \union {"virtualServerId", "projectId"}
        /\ "signingAlgorithm" \notin DOMAIN values6
    BY <2>1, FieldsOf
  <2>4. Inserts(work, 6, H, "virtualServer") /\ Inserts(work, 6, i4, "project")
    BY <1>37, <1>38, <1>46, InsertedAt
  <2>6. Fresh(u, H, work, 6, i6, "role", values6 ++ w1)
    BY <2>2, <2>3, <2>4, <1>55, FreshInProject
  <2>7. QED
    BY <2>1, <2>6, <1>16, <1>25, <1>37, <1>38, FreshFits
<1>62. FitsWell(u, H, work, 7)
  <2>1. Inserts(work, 7, H, "virtualServer")
    BY <1>37, <1>38, <1>46, InsertedAt
  <2>3. Fresh(u, H, work, 7, i7, "project", v7)
    BY <2>1, <1>55, <1>17, FieldsOf, ReferencesOf, Kinds DEF Fresh
  <2>4. QED
    BY <2>3, <1>26, <1>37, <1>38, FreshFits
<1>63. FitsWell(u, H, work, 8)
  <2>1. PICK values8 : values8 = [name |-> "app", displayName |-> Blank, type |-> "public", redirectUris |-> {}]
    OBVIOUS
  <2>2. w2 = [virtualServerId |-> H, projectId |-> i7] /\ i7 \notin DOMAIN db /\ i7[1] = u
    BY <1>2, <1>3, <1>55
  <2>3. /\ DOMAIN values8 \subseteq Fields("application") \ {"virtualServerId", "projectId"}
        /\ EntityOf["application"].given \subseteq DOMAIN values8 \union {"virtualServerId", "projectId"}
        /\ "signingAlgorithm" \notin DOMAIN values8
    BY <2>1, FieldsOf
  <2>4. Inserts(work, 8, H, "virtualServer") /\ Inserts(work, 8, i7, "project")
    BY <1>37, <1>38, <1>46, InsertedAt
  <2>6. Fresh(u, H, work, 8, i8, "application", values8 ++ w2)
    BY <2>2, <2>3, <2>4, <1>55, FreshInProject
  <2>7. QED
    BY <2>1, <2>6, <1>18, <1>27, <1>37, <1>38, FreshFits
<1>64. FitsWell(u, H, work, 9)
  <2>1. PICK values9 : values9 = [name |-> "r", description |-> Blank]
    OBVIOUS
  <2>2. w2 = [virtualServerId |-> H, projectId |-> i7] /\ i7 \notin DOMAIN db /\ i7[1] = u
    BY <1>2, <1>3, <1>55
  <2>3. /\ DOMAIN values9 \subseteq Fields("role") \ {"virtualServerId", "projectId"}
        /\ EntityOf["role"].given \subseteq DOMAIN values9 \union {"virtualServerId", "projectId"}
        /\ "signingAlgorithm" \notin DOMAIN values9
    BY <2>1, FieldsOf
  <2>4. Inserts(work, 9, H, "virtualServer") /\ Inserts(work, 9, i7, "project")
    BY <1>37, <1>38, <1>46, InsertedAt
  <2>6. Fresh(u, H, work, 9, i9, "role", values9 ++ w2)
    BY <2>2, <2>3, <2>4, <1>55, FreshInProject
  <2>7. QED
    BY <2>1, <2>6, <1>19, <1>28, <1>37, <1>38, FreshFits
<1>65. FitsWell(u, H, work, 10)
  <2>1. PICK values10 : values10 = [slug |-> "rs", name |-> "rs", description |-> Blank]
    OBVIOUS
  <2>2. w2 = [virtualServerId |-> H, projectId |-> i7] /\ i7 \notin DOMAIN db /\ i7[1] = u
    BY <1>2, <1>3, <1>55
  <2>3. /\ DOMAIN values10 \subseteq Fields("resourceServer") \ {"virtualServerId", "projectId"}
        /\ EntityOf["resourceServer"].given \subseteq DOMAIN values10 \union {"virtualServerId", "projectId"}
        /\ "signingAlgorithm" \notin DOMAIN values10
    BY <2>1, FieldsOf
  <2>4. Inserts(work, 10, H, "virtualServer") /\ Inserts(work, 10, i7, "project")
    BY <1>37, <1>38, <1>46, InsertedAt
  <2>6. Fresh(u, H, work, 10, i10, "resourceServer", values10 ++ w2)
    BY <2>2, <2>3, <2>4, <1>55, FreshInProject
  <2>7. QED
    BY <2>1, <2>6, <1>20, <1>29, <1>37, <1>38, FreshFits
<1>66. /\ work[1].id = H /\ work[2].id = i2 /\ work[3].id = i3 /\ work[4].id = i4 /\ work[5].id = i5
       /\ work[6].id = i6 /\ work[7].id = i7 /\ work[8].id = i8 /\ work[9].id = i9 /\ work[10].id = i10
  BY <1>37, <1>38, <1>46
<1>76. ASSUME NEW i \in 1 .. 10, NEW j \in 1 .. 10, i < j PROVE work[i].id # work[j].id
  <2>1. /\ H \notin {i2, i3, i4, i5, i6, i7, i8, i9, i10} /\ i2 \notin {i3, i4, i5, i6, i7, i8, i9, i10}
        /\ i3 \notin {i4, i5, i6, i7, i8, i9, i10} /\ i4 \notin {i5, i6, i7, i8, i9, i10}
        /\ i5 \notin {i6, i7, i8, i9, i10} /\ i6 \notin {i7, i8, i9, i10}
        /\ i7 \notin {i8, i9, i10} /\ i8 \notin {i9, i10} /\ i9 # i10
    BY <1>3 DEF New1, Default
  <2>2. i \in 1 .. 9
    BY <1>76
  <2>3. i = 1 \/ i = 2 \/ i = 3 \/ i = 4 \/ i = 5 \/ i = 6 \/ i = 7 \/ i = 8 \/ i = 9
    BY <2>2
  <2>4. j = 2 \/ j = 3 \/ j = 4 \/ j = 5 \/ j = 6 \/ j = 7 \/ j = 8 \/ j = 9 \/ j = 10
    BY <1>76
  <2>5. QED
    BY <1>76, <2>1, <2>3, <2>4, <1>66
<1>77. ASSUME NEW i \in 1 .. 10, NEW j \in 1 .. 10, work[i].id = work[j].id PROVE i = j
  <2>1. i < j \/ j < i \/ i = j
    OBVIOUS
  <2>2. QED
    BY <1>77, <1>76, <2>1
<1>78. Tracker(work)
  BY <1>35, <1>36, <1>77 DEF Tracker
<1>79. ASSUME NEW n \in 1 .. 10 PROVE FitsWell(u, H, work, n)
  <2>1. n = 1 \/ n = 2 \/ n = 3 \/ n = 4 \/ n = 5 \/ n = 6 \/ n = 7 \/ n = 8 \/ n = 9 \/ n = 10
    OBVIOUS
  <2>2. QED
    BY <2>1, <1>56, <1>57, <1>58, <1>59, <1>60, <1>61, <1>62, <1>63, <1>64, <1>65, Zenon
<1>80. FitWell(u, H, work)
  BY <1>35, <1>36, <1>78, <1>79 DEF FitWell
<1>81. PICK fields : fields = New("virtualServer", values)
  OBVIOUS
<1>82. Adds(work, H, "virtualServer", [name |-> fields.name])
  <2>1. work[1] = Insertion(H, "virtualServer", values) /\ 1 \in 1 .. Len(work)
    BY <1>35, <1>36, <1>37
  <2>2. work[1].change = "added" /\ work[1].id = H /\ work[1].kind = "virtualServer" /\ work[1].fields = fields
    BY <1>81, <2>1 DEF Insertion, Entry
  <2>3. QED
    BY <2>1, <2>2 DEF Adds
<1>83. Adds(work, i3, "template", [virtualServerId |-> H])
  <2>1. work[3] = Insertion(i3, "template", v3) /\ 3 \in 1 .. Len(work)
    BY <1>22, <1>35, <1>36, <1>37
  <2>2. DOMAIN v3 = {"virtualServerId", "fileId", "type"} /\ v3["virtualServerId"] = H
    BY <1>13
  <2>3. QED
    BY <2>1, <2>2, FieldsOf, InsertionAdds
<1>84. Adds(work, i4, "project", [virtualServerId |-> H, systemProject |-> TRUE])
  <2>1. work[4] = Insertion(i4, "project", v4) /\ 4 \in 1 .. Len(work)
    BY <1>23, <1>35, <1>36, <1>37
  <2>2. /\ DOMAIN v4 = {"virtualServerId", "slug", "name", "description", "systemProject"}
        /\ v4["virtualServerId"] = H /\ v4["systemProject"] = TRUE
    BY <1>14
  <2>3. PICK v : v = [virtualServerId |-> H, systemProject |-> TRUE]
    OBVIOUS
  <2>4. DOMAIN v = {"virtualServerId", "systemProject"} /\ v["virtualServerId"] = H /\ v["systemProject"] = TRUE
    BY <2>3
  <2>5. \A c \in DOMAIN v : c \in DOMAIN v4 /\ v4[c] = v[c]
    BY <2>2, <2>4
  <2>6. Adds(work, i4, "project", v)
    BY <2>1, <2>2, <2>5, FieldsOf, InsertionAdds
  <2>7. QED
    BY <2>3, <2>6
<1>85. Adds(work, i5, "application", [virtualServerId |-> H, projectId |-> i4, systemApplication |-> TRUE])
  <2>1. work[5] = Insertion(i5, "application", v5) /\ 5 \in 1 .. Len(work)
    BY <1>24, <1>35, <1>36, <1>37
  <2>2. /\ DOMAIN v5 = {"name", "displayName", "type", "redirectUris", "postLogoutRedirectUris", "hashedSecret",
                        "systemApplication", "virtualServerId", "projectId"}
        /\ v5["virtualServerId"] = H /\ v5["projectId"] = i4 /\ v5["systemApplication"] = TRUE
    BY <1>1, <1>3, <1>15 DEF ++
  <2>3. PICK v : v = [virtualServerId |-> H, projectId |-> i4, systemApplication |-> TRUE]
    OBVIOUS
  <2>4. /\ DOMAIN v = {"virtualServerId", "projectId", "systemApplication"}
        /\ v["virtualServerId"] = H /\ v["projectId"] = i4 /\ v["systemApplication"] = TRUE
    BY <2>3
  <2>5. \A c \in DOMAIN v : c \in DOMAIN v5 /\ v5[c] = v[c]
    BY <2>2, <2>4
  <2>6. Adds(work, i5, "application", v)
    BY <2>1, <2>2, <2>5, FieldsOf, InsertionAdds
  <2>7. QED
    BY <2>3, <2>6
<1>86. Adds(work, i6, "role", [virtualServerId |-> H, projectId |-> i4, name |-> "admin"])
  <2>1. work[6] = Insertion(i6, "role", v6) /\ 6 \in 1 .. Len(work)
    BY <1>25, <1>35, <1>36, <1>38
  <2>2. /\ DOMAIN v6 = {"name", "description", "virtualServerId", "projectId"}
        /\ v6["virtualServerId"] = H /\ v6["projectId"] = i4 /\ v6["name"] = "admin"
    BY <1>1, <1>3, <1>16 DEF ++
  <2>3. QED
    BY <2>1, <2>2, FieldsOf, InsertionAdds
<1>87. work[2].change = "added" /\ ~work[2].stamped /\ Attached(work, 2)
  <2>1. Tied(work, 2, "file", v2)
    BY <1>12, FieldsOf, ReferencesOf, UniqueOf DEF Tied
  <2>2. QED
    BY <2>1, <1>21, <1>37, TiedAttached
<1>88. work[3].change = "added" /\ ~work[3].stamped /\ Attached(work, 3)
  <2>1. Inserts(work, 3, H, "virtualServer") /\ Inserts(work, 3, i2, "file")
    BY <1>37, <1>38, <1>46, InsertedAt
  <2>2. Tied(work, 3, "template", v3)
    BY <2>1, <1>13, FieldsOf, ReferencesOf, UniqueOf DEF Tied
  <2>3. QED
    BY <2>2, <1>22, <1>37, TiedAttached
<1>89. work[4].change = "added" /\ ~work[4].stamped /\ Attached(work, 4)
  <2>1. Inserts(work, 4, H, "virtualServer")
    BY <1>37, <1>38, <1>46, InsertedAt
  <2>2. \A j \in 1 .. 3 : work[j].kind # "project"
    BY <1>37, <1>38, <1>46
  <2>3. Tied(work, 4, "project", v4)
    BY <2>1, <1>14, <2>2, FieldsOf, ReferencesOf, UniqueOf DEF Tied
  <2>4. QED
    BY <2>3, <1>23, <1>37, TiedAttached
<1>90. work[5].change = "added" /\ ~work[5].stamped /\ Attached(work, 5)
  <2>1. Inserts(work, 5, H, "virtualServer") /\ Inserts(work, 5, i4, "project")
    BY <1>37, <1>38, <1>46, InsertedAt
  <2>2. /\ DOMAIN v5 = {"name", "displayName", "type", "redirectUris", "postLogoutRedirectUris", "hashedSecret",
                        "systemApplication", "virtualServerId", "projectId"}
        /\ v5["virtualServerId"] = H /\ v5["projectId"] = i4 /\ v5["name"] = "admin-ui"
    BY <1>1, <1>3, <1>15 DEF ++
  <2>3. \A j \in 1 .. 4 : work[j].kind # "application"
    BY <1>37, <1>38, <1>46
  <2>4. Tied(work, 5, "application", v5)
    BY <2>1, <2>2, <2>3, FieldsOf, ReferencesOf, UniqueOf DEF Tied
  <2>5. QED
    BY <2>4, <1>24, <1>37, TiedAttached
<1>91. work[6].change = "added" /\ ~work[6].stamped /\ Attached(work, 6)
  <2>1. Inserts(work, 6, H, "virtualServer") /\ Inserts(work, 6, i4, "project")
    BY <1>37, <1>38, <1>46, InsertedAt
  <2>2. /\ DOMAIN v6 = {"name", "description", "virtualServerId", "projectId"}
        /\ v6["virtualServerId"] = H /\ v6["projectId"] = i4
    BY <1>1, <1>3, <1>16 DEF ++
  <2>3. Tied(work, 6, "role", v6)
    BY <2>1, <2>2, FieldsOf, ReferencesOf, UniqueOf DEF Tied
  <2>4. QED
    BY <2>3, <1>25, <1>38, TiedAttached
<1>92. work[7].change = "added" /\ ~work[7].stamped /\ Attached(work, 7)
  <2>1. Inserts(work, 7, H, "virtualServer")
    BY <1>37, <1>38, <1>46, InsertedAt
  <2>2. work[4].fields["slug"] = "system"
    <3>1. "slug" \in DOMAIN v4 /\ v4["slug"] = "system"
      BY <1>14
    <3>2. DOMAIN v4 \subseteq Fields("project") /\ EntityOf["project"].given \subseteq DOMAIN v4
      BY <1>14, FieldsOf
    <3>3. New("project", v4)["slug"] = "system"
      BY <3>1, <3>2, FieldsOf, NewFields
    <3>4. QED
      BY <3>3, <1>23, <1>37 DEF Insertion, Entry
  <2>3. \A j \in 1 .. 6 : work[j].kind = "project" => work[j].fields["slug"] # v7["slug"]
    BY <2>2, <1>17, <1>37, <1>38, <1>46
  <2>4. Tied(work, 7, "project", v7)
    BY <2>1, <1>17, <2>2, <2>3, FieldsOf, ReferencesOf, UniqueOf DEF Tied
  <2>5. QED
    BY <2>4, <1>26, <1>38, TiedAttached
<1>93. work[8].change = "added" /\ ~work[8].stamped /\ Attached(work, 8)
  <2>1. Inserts(work, 8, H, "virtualServer") /\ Inserts(work, 8, i7, "project")
    BY <1>37, <1>38, <1>46, InsertedAt
  <2>2. /\ DOMAIN v8 = {"name", "displayName", "type", "redirectUris", "virtualServerId", "projectId"}
        /\ v8["virtualServerId"] = H /\ v8["projectId"] = i7 /\ v8["name"] = "app"
    BY <1>2, <1>3, <1>18 DEF ++
  <2>3. work[5].fields["name"] = "admin-ui"
    <3>1. "name" \in DOMAIN v5 /\ v5["name"] = "admin-ui"
      BY <1>15, <1>1, <1>3 DEF ++
    <3>2. DOMAIN v5 = {"name", "displayName", "type", "redirectUris", "postLogoutRedirectUris", "hashedSecret",
                        "systemApplication", "virtualServerId", "projectId"}
      BY <1>1, <1>3, <1>15 DEF ++
    <3>3. New("application", v5)["name"] = "admin-ui"
      BY <3>1, <3>2, FieldsOf, NewFields
    <3>4. QED
      BY <3>3, <1>24, <1>37 DEF Insertion, Entry
  <2>4. \A j \in 1 .. 7 : work[j].kind = "application" => work[j].fields["name"] # v8["name"]
    BY <2>3, <2>2, <1>37, <1>38, <1>46
  <2>5. Tied(work, 8, "application", v8)
    BY <2>1, <2>2, <2>3, <2>4, FieldsOf, ReferencesOf, UniqueOf DEF Tied
  <2>6. QED
    BY <2>5, <1>27, <1>38, TiedAttached
<1>94. work[9].change = "added" /\ ~work[9].stamped /\ Attached(work, 9)
  <2>1. Inserts(work, 9, H, "virtualServer") /\ Inserts(work, 9, i7, "project")
    BY <1>37, <1>38, <1>46, InsertedAt
  <2>2. /\ DOMAIN v9 = {"name", "description", "virtualServerId", "projectId"}
        /\ v9["virtualServerId"] = H /\ v9["projectId"] = i7
    BY <1>2, <1>3, <1>19 DEF ++
  <2>3. Tied(work, 9, "role", v9)
    BY <2>1, <2>2, FieldsOf, ReferencesOf, UniqueOf DEF Tied
  <2>4. QED
    BY <2>3, <1>28, <1>38, TiedAttached
<1>95. work[10].change = "added" /\ ~work[10].stamped /\ Attached(work, 10)
  <2>1. Inserts(work, 10, H, "virtualServer") /\ Inserts(work, 10, i7, "project")
    BY <1>37, <1>38, <1>46, InsertedAt
  <2>2. /\ DOMAIN v10 = {"slug", "name", "description", "virtualServerId", "projectId"}
        /\ v10["virtualServerId"] = H /\ v10["projectId"] = i7 /\ v10["slug"] = "rs"
    BY <1>2, <1>3, <1>20 DEF ++
  <2>3. \A j \in 1 .. 9 : work[j].kind # "resourceServer"
    BY <1>37, <1>38, <1>46
  <2>4. Tied(work, 10, "resourceServer", v10)
    BY <2>1, <2>2, <2>3, FieldsOf, ReferencesOf, UniqueOf DEF Tied
  <2>5. QED
    BY <2>4, <1>29, <1>38, TiedAttached
<1>96. ASSUME NEW n \in 1 .. 10
       PROVE  work[n].change = "added" /\ ~work[n].stamped /\ (n > 1 => Attached(work, n))
  <2>1. work[1].change = "added" /\ ~work[1].stamped
    BY <1>37 DEF Insertion, Entry
  <2>2. n = 1 \/ n = 2 \/ n = 3 \/ n = 4 \/ n = 5 \/ n = 6 \/ n = 7 \/ n = 8 \/ n = 9 \/ n = 10
    OBVIOUS
  <2>3. CASE n = 1
    BY <2>1, <2>3
  <2>4. CASE n # 1
    BY <2>2, <2>4, <1>87, <1>88, <1>89, <1>90, <1>91, <1>92, <1>93, <1>94, <1>95, Zenon
  <2>5. QED
    BY <2>3, <2>4
<1>97. Linked(work)
  BY <1>35, <1>36, <1>96 DEF Linked
<1>98. ASSUME NEW n \in 1 .. 10 PROVE work[n].kind # "user" /\ work[n].id \in BaseIds(u)
  <2>1. BaseIds(u) = {H, i2, i3, i4, i5, i6, i7, i8, i9, i10}
    BY <1>3 DEF BaseIds
  <2>2. n = 1 \/ n = 2 \/ n = 3 \/ n = 4 \/ n = 5 \/ n = 6 \/ n = 7 \/ n = 8 \/ n = 9 \/ n = 10
    OBVIOUS
  <2>3. QED
    BY <2>1, <2>2, <1>37, <1>38, <1>46
<1>99. Inserts(work, 11, H, "virtualServer") /\ Inserts(work, 11, i6, "role") /\ Inserts(work, 11, i9, "role")
  BY <1>37, <1>38, <1>46, InsertedAt
<1>100. Tracks(work, u, fields, {})
  <2>1. ASSUME NEW id, NEW kind, NEW v, Needs(u, fields, {}, id, kind, v) PROVE Adds(work, id, kind, v)
    BY <2>1, <1>3, <1>82, <1>83, <1>84, <1>85, <1>86, Zenon DEF Needs
  <2>2. QED
    BY <2>1 DEF Tracks
<1>101. Inserts(work, 11, Default(u, "role"), "role") /\ Inserts(work, 11, New1(u, "role"), "role")
  BY <1>3, <1>99
<1>102. QED
  BY <1>35, <1>37, <1>40, <1>41, <1>80, <1>81, <1>97, <1>98, <1>99, <1>100, <1>101 DEF BaseTracked

\* An entry that fits depends on the entries before it only.
LEMMA FitsEarlier ==
  ASSUME NEW u, NEW H, NEW w, NEW n \in Nat, NEW y, \A i \in 1 .. n : y[i] = w[i], n >= 1
  PROVE  /\ FitsWell(u, H, w, n) => FitsWell(u, H, y, n)
         /\ Attached(w, n) => Attached(y, n)
<1>1. y[n] = w[n] /\ \A j \in 1 .. n - 1 : y[j] = w[j]
  OBVIOUS
<1>2. \A id, kind : Inserts(w, n, id, kind) => Inserts(y, n, id, kind)
  BY <1>1 DEF Inserts
<1>3. FitsWell(u, H, w, n) => FitsWell(u, H, y, n)
  BY <1>1 DEF FitsWell, Fits
<1>4. Attached(w, n) => Attached(y, n)
  BY <1>1, <1>2 DEF Attached
<1>5. QED
  BY <1>3, <1>4

\* A user with a credential and a role that are tracked after the rest fit as well.
LEMMA UserJoins ==
  ASSUME NEW u, NEW H, NEW w, NEW user, NEW cred, NEW given, NEW r, NEW v, NEW cv,
         Joins(u, H, w, user, cred, given, r, v, cv)
  PROVE  \E y : Longer(u, H, w, UserWork(user, cred, given, r, v, cv), y)
<1> USE DEF Joins
<1>29. PICK gv : gv = [userId |-> user, roleId |-> r, groupId |-> Nil]
  OBVIOUS
<1>30. PICK a, b, c : /\ a = Insertion(user, "user", v) /\ b = Insertion(cred, "credential", cv)
                     /\ c = Insertion(given, "assignment", gv)
  OBVIOUS
<1>1. PICK n : n = Len(w)
  OBVIOUS
<1>2. n \in Nat /\ n >= 1 /\ w = [i \in 1 .. n |-> w[i]]
  BY <1>1 DEF FitWell, Tracker
<1>3. PICK S : S = {w[i] : i \in 1 .. n} \union {a, b, c}
  OBVIOUS
<1>4. w \in Seq(S)
  <2>1. w \in [1 .. n -> S]
    BY <1>2, <1>3
  <2>2. QED
    BY <1>2, <2>1
<1>5. PICK t, y : t = <<a, b, c>> /\ y = w \o t
  OBVIOUS
<1>6. t \in Seq(S) /\ Len(t) = 3 /\ t[1] = a /\ t[2] = b /\ t[3] = c
  BY <1>3, <1>5
<1>7. y \in Seq(S) /\ Len(y) = n + 3
  BY <1>1, <1>4, <1>5, <1>6, ConcatProperties
<1>8. \A i \in 1 .. n + 3 : y[i] = IF i <= n THEN w[i] ELSE t[i - n]
  BY <1>1, <1>4, <1>5, <1>6, ConcatProperties
<1>9. \A i \in 1 .. n : y[i] = w[i]
  BY <1>2, <1>8
<1>10. y[n + 1] = a /\ y[n + 2] = b /\ y[n + 3] = c
  <2>1. ASSUME NEW k \in 1 .. 3 PROVE y[n + k] = t[k]
    <3>1. n + k \in 1 .. n + 3 /\ ~(n + k <= n) /\ (n + k) - n = k
      BY <1>2
    <3>2. QED
      BY <1>8, <3>1
  <2>2. y[n + 1] = t[1] /\ y[n + 2] = t[2] /\ y[n + 3] = t[3]
    BY <2>1
  <2>3. QED
    BY <1>6, <2>2
<1>11. /\ a.change = "added" /\ a.id = user /\ a.kind = "user" /\ a.fields = New("user", v)
       /\ b.change = "added" /\ b.id = cred /\ b.kind = "credential"
       /\ c.change = "added" /\ c.id = given /\ c.kind = "assignment"
  BY <1>30 DEF Insertion, Entry
<1>12. ASSUME NEW i \in 1 .. n + 3
       PROVE  i \in 1 .. n \/ i = n + 1 \/ i = n + 2 \/ i = n + 3
  BY <1>2
<1>13. \A i, j \in 1 .. n : y[i].id = y[j].id => i = j
  BY <1>1, <1>9 DEF FitWell, Tracker
<1>14. \A i \in 1 .. n : y[i].id # user /\ y[i].id # cred /\ y[i].id # given
  BY <1>1, <1>9
<1>15. ASSUME NEW i \in 1 .. n + 3, NEW j \in 1 .. n + 3, y[i].id = y[j].id PROVE i = j
  <2>1. CASE i \in 1 .. n
    BY <1>15, <2>1, <1>10, <1>11, <1>12, <1>13, <1>14
  <2>2. CASE i = n + 1
    BY <1>15, <2>2, <1>10, <1>11, <1>12, <1>14
  <2>3. CASE i = n + 2
    BY <1>15, <2>3, <1>10, <1>11, <1>12, <1>14
  <2>4. CASE i = n + 3
    BY <1>15, <2>4, <1>10, <1>11, <1>12, <1>14
  <2>5. QED
    BY <1>12, <2>1, <2>2, <2>3, <2>4
<1>16. Tracker(y)
  <2>1. y = [i \in 1 .. Len(y) |-> y[i]]
    BY <1>7
  <2>2. QED
    BY <1>2, <1>7, <1>15, <2>1 DEF Tracker
<1>17. /\ Inserts(y, n + 1, H, "virtualServer") /\ Inserts(y, n + 2, user, "user")
       /\ Inserts(y, n + 3, user, "user") /\ Inserts(y, n + 3, r, "role")
  <2>1. PICK j \in 1 .. n : w[j].change = "added" /\ w[j].id = H /\ w[j].kind = "virtualServer"
    BY <1>1, <1>2 DEF Inserts
  <2>2. PICK k \in 1 .. n : w[k].change = "added" /\ w[k].id = r /\ w[k].kind = "role"
    BY <1>1, <1>2 DEF Inserts
  <2>3. y[j] = w[j] /\ y[k] = w[k] /\ j \in 1 .. n + 1 - 1 /\ k \in 1 .. n + 3 - 1
    BY <1>2, <1>9
  <2>4. n + 1 \in 1 .. n + 2 - 1 /\ n + 1 \in 1 .. n + 3 - 1
    BY <1>2
  <2>5. y[j].change = "added" /\ y[j].id = H /\ y[j].kind = "virtualServer"
    BY <2>1, <2>3
  <2>6. y[k].change = "added" /\ y[k].id = r /\ y[k].kind = "role"
    BY <2>2, <2>3
  <2>7. y[n + 1].change = "added" /\ y[n + 1].id = user /\ y[n + 1].kind = "user"
    BY <1>10, <1>11
  <2>8. j < n + 1 /\ k < n + 3 /\ n + 1 < n + 2 /\ n + 1 < n + 3 /\ 1 <= j /\ 1 <= k /\ 1 <= n + 1
    BY <1>2
  <2>9. j \in Nat /\ k \in Nat /\ n + 1 \in Nat /\ n + 2 \in Nat /\ n + 3 \in Nat
    BY <1>2
  <2>10. /\ Inserts(y, n + 1, y[j].id, y[j].kind) /\ Inserts(y, n + 3, y[k].id, y[k].kind)
         /\ Inserts(y, n + 2, y[n + 1].id, y[n + 1].kind) /\ Inserts(y, n + 3, y[n + 1].id, y[n + 1].kind)
    BY <2>5, <2>6, <2>7, <2>8, <2>9, InsertedAt
  <2>11. QED
    BY <2>5, <2>6, <2>7, <2>10
<1>18. FitsWell(u, H, y, n + 1)
  <2>1. Fresh(u, H, y, n + 1, user, "user", v)
    BY <1>17, FieldsOf, ReferencesOf, Kinds DEF Fresh
  <2>2. QED
    BY <1>10, <1>30, <2>1, FreshFits
<1>19. FitsWell(u, H, y, n + 2)
  <2>1. Fresh(u, H, y, n + 2, cred, "credential", cv)
    BY <1>17, FieldsOf, ReferencesOf, Kinds DEF Fresh
  <2>2. QED
    BY <1>10, <1>30, <2>1, FreshFits
<1>20. DOMAIN gv = {"userId", "roleId", "groupId"} /\ gv["userId"] = user /\ gv["roleId"] = r /\ gv["groupId"] = Nil
  BY <1>29
<1>21. FitsWell(u, H, y, n + 3)
  <2>1. MayGrant(db, u, r)
    BY DEF MayGrant
  <2>2. Fresh(u, H, y, n + 3, given, "assignment", gv)
    BY <1>17, <1>20, <2>1, FieldsOf, ReferencesOf, Kinds DEF Fresh
  <2>3. QED
    BY <1>10, <1>30, <2>2, FreshFits
<1>22. ASSUME NEW i \in 1 .. n PROVE FitsWell(u, H, y, i) /\ (i > 1 => Attached(y, i))
  <2>1. FitsWell(u, H, w, i) /\ (i > 1 => Attached(w, i))
    BY <1>1 DEF FitWell, Linked
  <2>2. i \in Nat /\ i >= 1 /\ \A j \in 1 .. i : y[j] = w[j]
    BY <1>2, <1>9
  <2>3. QED
    BY <2>1, <2>2, FitsEarlier
<1>23. FitWell(u, H, y)
  BY <1>7, <1>12, <1>16, <1>18, <1>19, <1>21, <1>22 DEF FitWell
<1>24. y[n + 1].change = "added" /\ ~y[n + 1].stamped /\ Attached(y, n + 1)
  <2>1. \A j \in 1 .. (n + 1) - 1 : y[j].kind = "user" => y[j].fields["username"] # v["username"]
    <3>1. 1 .. (n + 1) - 1 = 1 .. n
      BY <1>2
    <3>2. QED
      BY <1>1, <1>9, <3>1
  <2>2. /\ {"username", "virtualServerId"} \subseteq DOMAIN v /\ DOMAIN RefersTo("user") = {"virtualServerId"}
        /\ RefersTo("user")["virtualServerId"] = "virtualServer"
    BY FieldsOf, ReferencesOf
  <2>3. \A c_1 \in DOMAIN RefersTo("user") :
           c_1 \in DOMAIN v /\ (v[c_1] = Nil \/ Inserts(y, n + 1, v[c_1], RefersTo("user")[c_1]))
    BY <1>17, <2>2
  <2>4. Tied(y, n + 1, "user", v)
    <3>1. "username" \in {"username", "virtualServerId"}
          /\ "virtualServerId" \in {"username", "virtualServerId"} \intersect DOMAIN RefersTo("user")
      BY <2>2
    <3>2. ASSUME NEW columns \in TableOf["user"].unique
          PROVE  /\ columns \subseteq DOMAIN v
                 /\ \E c_1 \in columns \intersect DOMAIN RefersTo("user") :
                       \/ v[c_1] = Nil
                       \/ \A j \in 1 .. (n + 1) - 1 :
                             y[j].kind = "user" => \E d \in columns : y[j].fields[d] # v[d]
      <4>1. columns = {"username", "virtualServerId"}
        BY UniqueOf
      <4>2. QED
        BY <2>1, <2>2, <3>1, <4>1
    <3>3. DOMAIN v \subseteq Fields("user") /\ EntityOf["user"].given \subseteq DOMAIN v
      OBVIOUS
    <3> HIDE DEF Joins
    <3>4. QED
      BY <2>3, <3>2, <3>3, Zenon DEF Tied
  <2>5. QED
    BY <1>10, <1>30, <2>4, TiedAttached
<1>25. y[n + 2].change = "added" /\ ~y[n + 2].stamped /\ Attached(y, n + 2)
  <2>1. Tied(y, n + 2, "credential", cv)
    BY <1>17, FieldsOf, ReferencesOf, UniqueOf DEF Tied
  <2>2. QED
    BY <1>10, <1>30, <2>1, TiedAttached
<1>26. y[n + 3].change = "added" /\ ~y[n + 3].stamped /\ Attached(y, n + 3)
  <2>1. Tied(y, n + 3, "assignment", gv)
    BY <1>17, <1>20, FieldsOf, ReferencesOf, UniqueOf DEF Tied
  <2>2. QED
    BY <1>10, <1>30, <2>1, TiedAttached
<1>27. Linked(y)
  <2>1. \A i \in 1 .. n : y[i].change = "added" /\ ~y[i].stamped
    BY <1>1, <1>9 DEF Linked
  <2>2. QED
    BY <1>7, <1>12, <1>22, <1>24, <1>25, <1>26, <2>1 DEF Linked
<1>28. t = UserWork(user, cred, given, r, v, cv)
  BY <1>5, <1>29, <1>30, Zenon DEF UserWork
<1>31. Longer(u, H, w, t, y)
  BY <1>1, <1>5, <1>6, <1>7, <1>9, <1>10, <1>23, <1>27 DEF Longer
<1>32. QED
  BY <1>28, <1>31, Zenon

\* What a tracker inserts, a longer one inserts too.
LEMMA StillAdds ==
  ASSUME NEW w, NEW y, Len(w) \in Nat, Len(y) \in Nat, Len(y) >= Len(w),
         \A i \in 1 .. Len(w) : y[i] = w[i], NEW id, NEW kind, NEW values
  PROVE  /\ Adds(w, id, kind, values) => Adds(y, id, kind, values)
         /\ Inserts(w, Len(w) + 1, id, kind) => Inserts(y, Len(y) + 1, id, kind)
<1>1. 1 .. Len(w) \subseteq 1 .. Len(y) /\ 1 .. Len(w) + 1 - 1 = 1 .. Len(w)
  OBVIOUS
<1>2. 1 .. Len(y) + 1 - 1 = 1 .. Len(y)
  OBVIOUS
<1>3. QED
  BY <1>1, <1>2 DEF Adds, Inserts

\* The users of a virtual server follow what it comes with: its administrator, if the request
\* names one.
LEMMA AdminJoins ==
  ASSUME NEW u, NEW H, H = New1(u, "virtualServer"), H \notin DOMAIN db, \A id \in DOMAIN db : id[1] # u,
         NEW e1, NEW values, e1 = Insertion(H, "virtualServer", values),
         Gives(values, "virtualServer", {})
  PROVE  \E y :
         /\ y = (<<e1>> \o ServerBase(u, H)) \o RequestedAdmin(u, H)
         /\ FitWell(u, H, y) /\ Linked(y) /\ Len(y) >= 1 /\ y[1] = e1
         /\ Tracks(y, u, New("virtualServer", values), Admins(u))
         /\ \A i \in 1 .. Len(y) :
               /\ y[i].id \in BaseIds(u) \union {New1(u, "user"), New1(u, "credential"),
                                                 <<u, "assignment", "user", "role">>}
               /\ y[i].kind = "user" => y[i].fields["username"] # "service"
         /\ Inserts(y, Len(y) + 1, H, "virtualServer") /\ Inserts(y, Len(y) + 1, New1(u, "role"), "role")
         /\ \E S : RequestedAdmin(u, H) \in Seq(S)
<1>1. PICK base : BaseTracked(u, H, e1, values, base)
  BY ServerBaseFits
<1>2. PICK r : r = Default(u, "role")
  OBVIOUS
<1>3. PICK user, cred, given : /\ user = New1(u, "user") /\ cred = New1(u, "credential")
                              /\ given = <<u, "assignment", "user", "role">>
  OBVIOUS
<1>4. PICK fields : fields = New("virtualServer", values)
  OBVIOUS
<1>5. Tracks(base, u, fields, {})
  BY <1>1, <1>4, Zenon DEF BaseTracked
<1>9. /\ FitWell(u, H, base) /\ Linked(base) /\ Len(base) = 10 /\ base[1] = e1
      /\ \A n \in 1 .. 10 : base[n].kind # "user" /\ base[n].id \in BaseIds(u)
      /\ Inserts(base, 11, H, "virtualServer") /\ Inserts(base, 11, Default(u, "role"), "role")
      /\ Inserts(base, 11, New1(u, "role"), "role")
  BY <1>1, Zenon DEF BaseTracked
<1>10. base = <<e1>> \o ServerBase(u, H) /\ \E S : <<e1>> \in Seq(S) /\ ServerBase(u, H) \in Seq(S)
  BY <1>1, Zenon DEF BaseTracked
<1>6. CASE ~Values(u).admin
  <2>1. RequestedAdmin(u, H) = <<>>
    BY <1>6 DEF RequestedAdmin
  <2>2. PICK S : <<e1>> \in Seq(S) /\ ServerBase(u, H) \in Seq(S)
    BY <1>10
  <2>3. base \in Seq(S)
    <3>1. <<e1>> \o ServerBase(u, H) \in Seq(S)
      BY <2>2, ConcatProperties
    <3>2. QED
      BY <1>10, <3>1, Zenon
  <2>4. base = base \o RequestedAdmin(u, H)
    BY <2>1, <2>3, ConcatEmptySeq
  <2>5. <<>> \in Seq(S)
    OBVIOUS
  <2>6. Admins(u) = {}
    BY <1>6 DEF Admins
  <2>7. Tracks(base, u, New("virtualServer", values), Admins(u))
    BY <1>4, <1>5, <2>6
  <2>8. \A i \in 1 .. Len(base) : base[i].id \in BaseIds(u) /\ base[i].kind # "user"
    BY <1>9
  <2>9. Inserts(base, Len(base) + 1, H, "virtualServer") /\ Inserts(base, Len(base) + 1, New1(u, "role"), "role")
    BY <1>9
  <2>10. base = (<<e1>> \o ServerBase(u, H)) \o RequestedAdmin(u, H)
    BY <1>10, <2>4, Zenon
  <2>11. \E T : RequestedAdmin(u, H) \in Seq(T)
    BY <2>1, <2>5
  <2>12. Len(base) >= 1
    BY <1>9
  <2>13. QED
    BY <1>9, <2>7, <2>8, <2>9, <2>10, <2>11, <2>12
<1>7. CASE Values(u).admin
  <2>1. PICK va : va = [username |-> "admin", displayName |-> "Admin", primaryEmail |-> "admin",
                        virtualServerId |-> H, emailVerified |-> TRUE]
    OBVIOUS
  <2>2. PICK vc : vc = [userId |-> user, type |-> "password", details |-> "hash"]
    OBVIOUS
  <2>3. PICK vg : vg = [userId |-> user, roleId |-> r, groupId |-> Nil]
    OBVIOUS
  <2>4. PICK a : a = Insertion(user, "user", va)
    OBVIOUS
  <2>5. PICK b : b = Insertion(cred, "credential", vc)
    OBVIOUS
  <2>6. PICK c : c = Insertion(given, "assignment", vg)
    OBVIOUS
  <2>7. Assignment(u, user, r) = c
    BY <1>2, <1>3, <2>3, <2>6 DEF Assignment, New1, Default, Last
  <2>8. RequestedAdmin(u, H) = <<a, b, c>>
    BY <1>2, <1>3, <1>7, <2>1, <2>2, <2>4, <2>5, <2>7 DEF RequestedAdmin
  <2>9. /\ DOMAIN va = {"username", "displayName", "primaryEmail", "virtualServerId", "emailVerified"}
        /\ va["virtualServerId"] = H /\ va["username"] = "admin"
    BY <2>1
  <2>10. DOMAIN va \subseteq Fields("user") /\ EntityOf["user"].given \subseteq DOMAIN va
    BY <2>9, FieldsOf
  <2>11. DOMAIN vc = {"userId", "type", "details"} /\ vc["userId"] = user
    BY <2>2
  <2>12. user # cred /\ user # given /\ cred # given
    BY <1>3 DEF New1
  <2>13. ASSUME NEW id \in {user, cred, given}
         PROVE  /\ id # Nil /\ id[1] = u /\ id \notin DOMAIN db /\ id # New1(u, "auditLog")
                /\ id \notin BaseIds(u)
    BY <1>3, <2>13 DEF New1, Nil, BaseIds, Default
  <2>14. \A id \in {user, cred, given} : \A i \in 1 .. Len(base) : base[i].id # id
    BY <1>9, <2>13
  <2>15. \A i \in 1 .. Len(base) : base[i].kind = "user" => base[i].fields["username"] # va["username"]
    BY <1>9
  <2>16. r \notin DOMAIN db /\ r[1] = u
    BY <1>2 DEF Default
  <2>17. Inserts(base, Len(base) + 1, r, "role") /\ Inserts(base, Len(base) + 1, H, "virtualServer")
    BY <1>9, <1>2
  <2>34. Joins(u, H, base, user, cred, given, r, va, vc)
    BY <1>9, <2>9, <2>10, <2>11, <2>12, <2>13, <2>14, <2>15, <2>16, <2>17 DEF Joins
  <2>35. PICK t : t = <<a, b, c>>
    OBVIOUS
  <2>36. t = UserWork(user, cred, given, r, va, vc) /\ t = RequestedAdmin(u, H)
    BY <2>3, <2>4, <2>5, <2>6, <2>8, <2>35, Zenon DEF UserWork
  <2>38. PICK y : Longer(u, H, base, UserWork(user, cred, given, r, va, vc), y)
    BY <2>34, UserJoins
  <2>37. Longer(u, H, base, t, y)
    BY <2>36, <2>38, Zenon
  <2>18. y = base \o RequestedAdmin(u, H)
    BY <2>36, <2>37, Zenon DEF Longer
  <2>19. /\ FitWell(u, H, y) /\ Linked(y) /\ Len(y) = 13
         /\ \A i \in 1 .. 10 : y[i] = base[i]
         /\ y[11] = a /\ y[12] = b /\ y[13] = c
    <3>1. t[1] = a /\ t[2] = b /\ t[3] = c
      BY <2>35
    <3>2. /\ FitWell(u, H, y) /\ Linked(y) /\ Len(y) = Len(base) + 3
          /\ \A i \in 1 .. Len(base) : y[i] = base[i]
          /\ y[Len(base) + 1] = t[1] /\ y[Len(base) + 2] = t[2] /\ y[Len(base) + 3] = t[3]
      BY <2>37, Zenon DEF Longer
    <3>3. QED
      BY <1>9, <3>1, <3>2
  <2>20. \A id, kind, v : /\ Adds(base, id, kind, v) => Adds(y, id, kind, v)
                          /\ Inserts(base, 11, id, kind) => Inserts(y, Len(y) + 1, id, kind)
    <3>1. /\ Len(base) \in Nat /\ Len(y) \in Nat /\ Len(y) >= Len(base) /\ Len(base) + 1 = 11
          /\ \A i \in 1 .. Len(base) : y[i] = base[i]
      BY <1>9, <2>19
    <3>2. QED
      BY <3>1, StillAdds
  <2>21. Adds(y, user, "user", [virtualServerId |-> H])
    <3>1. y[11] = Insertion(user, "user", va) /\ 11 \in 1 .. Len(y)
      BY <2>4, <2>19
    <3>2. QED
      BY <3>1, <2>9, <2>10, InsertionAdds
  <2>22. Adds(y, given, "assignment", [roleId |-> r, userId |-> user])
    <3>1. y[13] = Insertion(given, "assignment", vg) /\ 13 \in 1 .. Len(y)
      BY <2>6, <2>19
    <3>2. DOMAIN vg = {"userId", "roleId", "groupId"} /\ vg["userId"] = user /\ vg["roleId"] = r
      BY <2>3
    <3>3. QED
      BY <3>1, <3>2, FieldsOf, InsertionAdds
  <2>23. Tracks(y, u, fields, {user})
    <3>1. ASSUME NEW id, NEW kind, NEW v, Needs(u, fields, {user}, id, kind, v) PROVE Adds(y, id, kind, v)
      <4>1. CASE Needs(u, fields, {}, id, kind, v)
        BY <4>1, <1>5, <2>20 DEF Tracks
      <4>2. CASE id = user /\ kind = "user" /\ v = [virtualServerId |-> H]
        BY <4>2, <2>21
      <4>3. CASE id = given /\ kind = "assignment" /\ v = [roleId |-> r, userId |-> user]
        BY <4>3, <2>22
      <4>4. QED
        BY <1>2, <1>3, <3>1, <4>1, <4>2, <4>3 DEF Needs
    <3>2. QED
      BY <3>1 DEF Tracks
  <2>24. Admins(u) = {user}
    BY <1>3, <1>7 DEF Admins
  <2>25. a.kind = "user" /\ a.id = user /\ a.fields["username"] = "admin"
    <3>1. New("user", va)["username"] = "admin"
      BY <2>9, <2>10, NewFields
    <3>2. QED
      BY <2>4, <3>1 DEF Insertion, Entry
  <2>26. b.kind = "credential" /\ b.id = cred /\ c.kind = "assignment" /\ c.id = given
    BY <2>5, <2>6 DEF Insertion, Entry
  <2>27. ASSUME NEW i \in 1 .. Len(y)
         PROVE  /\ y[i].id \in BaseIds(u) \union {user, cred, given}
                /\ y[i].kind = "user" => y[i].fields["username"] # "service"
    <3>1. i \in 1 .. 10 \/ i = 11 \/ i = 12 \/ i = 13
      BY <2>19
    <3>2. CASE i \in 1 .. 10
      BY <3>2, <1>9, <2>19
    <3>3. CASE i = 11
      BY <3>3, <2>19, <2>25
    <3>4. CASE i = 12
      BY <3>4, <2>19, <2>26
    <3>5. CASE i = 13
      BY <3>5, <2>19, <2>26
    <3>6. QED
      BY <3>1, <3>2, <3>3, <3>4, <3>5
  <2>28. <<a, b, c>> \in Seq({a, b, c})
    OBVIOUS
  <2>29. y[1] = e1
    BY <1>9, <2>19
  <2>30. y = (<<e1>> \o ServerBase(u, H)) \o RequestedAdmin(u, H) /\ \E T : RequestedAdmin(u, H) \in Seq(T)
    BY <1>10, <2>8, <2>18, <2>28, Zenon
  <2>31. /\ Inserts(y, Len(y) + 1, H, "virtualServer") /\ Inserts(y, Len(y) + 1, New1(u, "role"), "role")
         /\ Len(y) >= 1
    BY <1>9, <2>19, <2>20
  <2>32. Tracks(y, u, New("virtualServer", values), Admins(u))
    BY <1>4, <2>23, <2>24
  <2>33. QED
    BY <1>3, <2>19, <2>27, <2>29, <2>30, <2>31, <2>32
<1>8. QED
  BY <1>6, <1>7

\* What is tracked for a virtual server fits, and depends on the row of the server only.
LEMMA ServerContentsFits ==
  ASSUME NEW u, NEW H, H = New1(u, "virtualServer"), H \notin DOMAIN db, \A id \in DOMAIN db : id[1] # u,
         NEW e1, NEW values, e1 = Insertion(H, "virtualServer", values),
         Gives(values, "virtualServer", {})
  PROVE  /\ FitWell(u, H, <<e1>> \o ServerContents(u, H))
         /\ Tracks(<<e1>> \o ServerContents(u, H), u, New("virtualServer", values), Admins(u))
         /\ Linked(<<e1>> \o ServerContents(u, H))
         /\ Len(<<e1>> \o ServerContents(u, H)) >= 1 /\ (<<e1>> \o ServerContents(u, H))[1] = e1
<1>1. PICK B, A, P : /\ B = ServerBase(u, H) /\ A = RequestedAdmin(u, H)
                    /\ P = RequestedServiceUser(u, H)
  OBVIOUS
<1>4. PICK fields : fields = New("virtualServer", values)
  OBVIOUS
<1>5. PICK user, cred, given, r : /\ user = New1(u, "serviceUser") /\ cred = New1(u, "key")
                                 /\ given = <<u, "assignment", "serviceUser", "role">>
                                 /\ r = New1(u, "role")
  OBVIOUS
<1>3. PICK w :
         /\ w = (<<e1>> \o ServerBase(u, H)) \o RequestedAdmin(u, H)
         /\ FitWell(u, H, w) /\ Linked(w) /\ Len(w) >= 1 /\ w[1] = e1
         /\ Tracks(w, u, New("virtualServer", values), Admins(u))
         /\ \A i \in 1 .. Len(w) :
               /\ w[i].id \in BaseIds(u) \union {New1(u, "user"), New1(u, "credential"),
                                                 <<u, "assignment", "user", "role">>}
               /\ w[i].kind = "user" => w[i].fields["username"] # "service"
         /\ Inserts(w, Len(w) + 1, H, "virtualServer") /\ Inserts(w, Len(w) + 1, New1(u, "role"), "role")
         /\ \E S : RequestedAdmin(u, H) \in Seq(S)
  BY AdminJoins
<1>6. /\ FitWell(u, H, w) /\ Linked(w) /\ Len(w) >= 1 /\ w[1] = e1
      /\ Tracks(w, u, fields, Admins(u))
      /\ \A i \in 1 .. Len(w) :
            /\ w[i].id \in BaseIds(u) \union {New1(u, "user"), New1(u, "credential"),
                                              <<u, "assignment", "user", "role">>}
            /\ w[i].kind = "user" => w[i].fields["username"] # "service"
      /\ Inserts(w, Len(w) + 1, H, "virtualServer") /\ Inserts(w, Len(w) + 1, r, "role")
  BY <1>3, <1>4, <1>5
<1>7. PICK v : v = [username |-> "service", displayName |-> Blank, primaryEmail |-> Blank,
                    virtualServerId |-> H, serviceUser |-> TRUE]
  OBVIOUS
<1>8. PICK vc : vc = [userId |-> user, type |-> "service_user_key", details |-> "k"]
  OBVIOUS
<1>9. PICK vg : vg = [userId |-> user, roleId |-> r, groupId |-> Nil]
  OBVIOUS
<1>10. PICK a : a = Insertion(user, "user", v)
  OBVIOUS
<1>11. PICK b : b = Insertion(cred, "credential", vc)
  OBVIOUS
<1>12. PICK c : c = Insertion(given, "assignment", vg)
  OBVIOUS
<1>13. Assignment(u, user, r) = c
  BY <1>5, <1>9, <1>12 DEF Assignment, New1, Last
<1>14. P = <<a, b, c>>
  BY <1>1, <1>5, <1>7, <1>8, <1>10, <1>11, <1>13 DEF RequestedServiceUser, KeyCredential
<1>15. /\ DOMAIN v = {"username", "displayName", "primaryEmail", "virtualServerId", "serviceUser"}
       /\ v["virtualServerId"] = H /\ v["username"] = "service"
  BY <1>7
<1>16. DOMAIN v \subseteq Fields("user") /\ EntityOf["user"].given \subseteq DOMAIN v
  BY <1>15, FieldsOf
<1>17. DOMAIN vc = {"userId", "type", "details"} /\ vc["userId"] = user
  BY <1>8
<1>18. user # cred /\ user # given /\ cred # given
  BY <1>5 DEF New1
<1>19. ASSUME NEW id \in {user, cred, given}
       PROVE  /\ id # Nil /\ id[1] = u /\ id \notin DOMAIN db /\ id # New1(u, "auditLog")
              /\ id \notin BaseIds(u) \union {New1(u, "user"), New1(u, "credential"),
                                              <<u, "assignment", "user", "role">>}
  BY <1>5, <1>19 DEF New1, Nil, BaseIds, Default
<1>20. \A id \in {user, cred, given} : \A i \in 1 .. Len(w) : w[i].id # id
  BY <1>6, <1>19
<1>21. \A i \in 1 .. Len(w) : w[i].kind = "user" => w[i].fields["username"] # v["username"]
  BY <1>6, <1>15
<1>22. r \notin DOMAIN db /\ r[1] = u
  BY <1>5 DEF New1
<1>2. Joins(u, H, w, user, cred, given, r, v, vc)
  BY <1>6, <1>15, <1>16, <1>17, <1>18, <1>19, <1>20, <1>21, <1>22 DEF Joins
<1>30. P = UserWork(user, cred, given, r, v, vc)
  BY <1>9, <1>10, <1>11, <1>12, <1>14, Zenon DEF UserWork
<1>31. PICK y : Longer(u, H, w, UserWork(user, cred, given, r, v, vc), y)
  BY <1>2, UserJoins
<1>23. Longer(u, H, w, P, y)
  BY <1>30, <1>31, Zenon
<1>24. /\ FitWell(u, H, y) /\ Linked(y) /\ Len(y) = Len(w) + 3
       /\ \A i \in 1 .. Len(w) : y[i] = w[i]
  BY <1>23, Zenon DEF Longer
<1>25. Len(w) \in Nat
  BY <1>6 DEF FitWell, Tracker
<1>26. Tracks(y, u, fields, Admins(u))
  <2>1. ASSUME NEW id, NEW kind, NEW x, Adds(w, id, kind, x) PROVE Adds(y, id, kind, x)
    BY <1>24, <1>25, <2>1, StillAdds
  <2>2. QED
    BY <1>6, <2>1 DEF Tracks
<1>27. <<e1>> \o ServerContents(u, H) = y
  <2>1. ServerContents(u, H) = (B \o A) \o P
    BY <1>1 DEF ServerContents, ServerBase
  <2>2. \E S : <<e1>> \in Seq(S) /\ B \in Seq(S)
    <3>1. \E S : <<e1>> \in Seq(S) /\ ServerBase(u, H) \in Seq(S)
      BY ServerBaseFits, Zenon DEF BaseTracked
    <3>2. QED
      BY <1>1, <3>1, Zenon
  <2>3. PICK S1 : <<e1>> \in Seq(S1) /\ B \in Seq(S1)
    BY <2>2
  <2>4. PICK S2 : A \in Seq(S2)
    BY <1>1, <1>3
  <2>5. PICK S : S = S1 \union S2 \union {a, b, c}
    OBVIOUS
  <2>6. S1 \subseteq S /\ S2 \subseteq S /\ {a, b, c} \subseteq S
    BY <2>5
  <2>7. <<e1>> \in Seq(S) /\ B \in Seq(S) /\ A \in Seq(S)
    BY <2>3, <2>4, <2>6, SeqMonotonic
  <2>8. P \in Seq(S)
    <3>1. P \in Seq({a, b, c})
      BY <1>14
    <3>2. QED
      BY <2>6, <3>1, SeqMonotonic
  <2>9. B \o A \in Seq(S)
    BY <2>7, ConcatProperties
  <2>10. <<e1>> \o ((B \o A) \o P) = (<<e1>> \o (B \o A)) \o P
    BY <2>7, <2>8, <2>9, ConcatAssociative
  <2>11. <<e1>> \o (B \o A) = (<<e1>> \o B) \o A
    BY <2>7, ConcatAssociative
  <2>12. QED
    <3>1. y = w \o P
      BY <1>23, Zenon DEF Longer
    <3>2. QED
      BY <1>1, <1>3, <2>1, <2>10, <2>11, <3>1, Zenon
<1>28. Len(y) >= 1 /\ y[1] = e1
  BY <1>6, <1>24, <1>25
<1>29. QED
  BY <1>4, <1>24, <1>26, <1>27, <1>28, Zenon

\* The handler of CreateVirtualServer sets and tracks only what a request may.
LEMMA CreateVirtualServerHandled ==
  ASSUME NEW u, Ready(u), CreateVirtualServer(u)
  PROVE  Handled(u)
<1>1. Call(u).op = "CreateVirtualServer" /\ Gives(Values(u).server, "virtualServer", {})
  BY CallsAssumption DEF CreateVirtualServer, Handles, Ready, Values
<1>2. Call(u).op \in LateFailures /\ Home(u) = New1(u, "virtualServer")
  BY <1>1 DEF LateFailures, Home
<1>3. PICK H : H = New1(u, "virtualServer")
  OBVIOUS
<1>4. PICK e1 : e1 = Insertion(H, "virtualServer", Values(u).server)
  OBVIOUS
<1>5. e1.id = H /\ e1.kind = "virtualServer" /\ e1.change = "added"
  BY <1>4 DEF Insertion, Entry
<1>6. PICK generated \in BOOLEAN :
         Return(u, generated /\ Values(u).rolesKnown, <<>>,
                <<e1>> \o IF generated THEN ServerContents(u, H) ELSE <<>>)
  BY <1>3, <1>4, <1>5 DEF CreateVirtualServer
<1>7. PICK ok \in BOOLEAN : ok <=> generated /\ Values(u).rolesKnown
  OBVIOUS
<1>8. PICK work : work = <<e1>> \o IF generated THEN ServerContents(u, H) ELSE <<>>
  OBVIOUS
<1>9. Return(u, ok, <<>>, work)
  BY <1>6, <1>7, <1>8 DEF Return
<1>10. Returns(u, <<>>, work) \/ Refuses(u, <<>>, work)
  BY <1>9 DEF Returns, Refuses
<1>11. H # Nil /\ H[1] = u /\ H \notin DOMAIN db /\ H # New1(u, "auditLog")
  BY <1>3 DEF New1, Nil, Ready
<1>12. ASSUME NEW w PROVE Fresh(u, H, w, 1, H, "virtualServer", Values(u).server)
  BY <1>1, <1>11, FieldsOf, ReferencesOf, Kinds DEF Fresh, Gives
<1>13. CASE ~generated
  <2>1. work = <<e1>>
    <3>1. <<e1>> \in Seq({e1})
      OBVIOUS
    <3>2. work = <<e1>> \o <<>>
      BY <1>8, <1>13
    <3>3. QED
      BY <3>1, <3>2, ConcatEmptySeq
  <2>2. Len(work) = 1 /\ work[1] = e1 /\ work = [i \in 1 .. 1 |-> work[i]]
    BY <2>1
  <2>3. FitsWell(u, H, work, 1)
    BY <1>4, <1>12, <2>2, FreshFits
  <2>4. FitWell(u, H, work)
    BY <2>2, <2>3 DEF FitWell, Tracker
  <2>5. Legit(u, <<>>, work)
    BY <1>2, <1>3, <2>4, LegitWork
  <2>6. QED
    BY <1>2, <1>10, <2>5 DEF Handled
<1>14. CASE generated
  <2>1. work = <<e1>> \o ServerContents(u, H)
    BY <1>8, <1>14
  <2>2. \A id \in DOMAIN db : id[1] # u
    BY DEF Ready
  <2>3. FitWell(u, H, work)
    BY <1>1, <1>3, <1>4, <1>11, <2>1, <2>2, ServerContentsFits
  <2>4. Legit(u, <<>>, work)
    BY <1>2, <1>3, <2>3, LegitWork
  <2>5. QED
    BY <1>2, <1>10, <2>4 DEF Handled
<1>15. QED
  BY <1>13, <1>14

-----------------------------------------------------------------------------
(* What a step of a request does to the database.                          *)

LEMMA HandleHandled ==
  ASSUME NEW u, Ready(u), Handle(u)
  PROVE  Handled(u)
BY CreateProjectHandled, PatchProjectHandled, AssignRoleToUserHandled, CreateRoleHandled,
   PatchRoleHandled, DeleteRoleHandled, CreateResourceServerHandled, PatchResourceServerHandled,
   CreateResourceServerScopeHandled, CreateApplicationHandled, DeleteApplicationHandled,
   PatchApplicationHandled, PatchVirtualServerHandled, CreateVirtualServerHandled,
   CreateUserHandled, CreateServiceUserHandled, AssociateServiceUserPublicKeyHandled,
   RemoveServiceUserPublicKeyHandled, SetPasswordHandled, UpdateUserMetadataHandled,
   UpdateUserAppMetadataHandled, PatchUserAppMetadataHandled, CreatePasswordRuleHandled,
   UpdatePasswordRuleHandled DEF Handle

\* The rows evolve, stay sound, and those that are new are of v.
Advances(v, r) ==
    /\ Evolves(db, r, DOMAIN r) /\ Sound(r)
    /\ \A id \in DOMAIN r \ DOMAIN db : id[1] = v
    /\ Postgres /\ Distinct(db) => Distinct(r)

\* A database that is left alone has advanced.
LEMMA Stays ==
  ASSUME Sound(db), NEW v
  PROVE  Advances(v, db)
<1>1. \A id \in DOMAIN db : Complete(db[id])
  BY DEF Sound, Whole
<1>2. QED
  BY <1>1, EvolvesNot DEF Advances

\* On the memory back end a handler changes the rows when it sets fields.
LEMMA ReturnAdvances ==
  ASSUME NEW u, Sound(db), NEW ok, NEW set, MaySet(u, set), NEW w, Return(u, ok, set, w)
  PROVE  Advances(u, db') /\ DOMAIN db' = DOMAIN db
<1>1. CASE Postgres
  BY <1>1, Stays DEF Return
<1>2. CASE ~Postgres
  <2>1. db' = [id \in DOMAIN db |-> IF id \in DOMAIN set THEN SetOn(db[id], set[id]) ELSE db[id]]
    BY <1>2 DEF Return
  <2>2. ASSUME NEW id \in DOMAIN db PROVE Keeps(db, db', id) /\ Complete(db'[id])
    <3>1. PICK row : row = db[id]
      OBVIOUS
    <3>2. Complete(row) /\ row.kind \in Kind
      BY <3>1 DEF Sound, Whole, Complete
    <3>3. CASE id \in DOMAIN set
      <4>1. PICK fields : fields = set[id] ++ row.fields
        OBVIOUS
      <4>2. db'[id] = [row EXCEPT !.fields = fields]
        BY <2>1, <3>1, <3>3, <4>1 DEF SetOn
      <4>3. db'[id] = [kind |-> row.kind, fields |-> fields, version |-> row.version, live |-> row.live]
        BY <3>2, <4>2 DEF Complete
      <4>4. /\ DOMAIN set[id] \subseteq SettersOf[row.kind] /\ row.kind # "auditLog"
            /\ row.kind = "application" => "systemApplication" \notin DOMAIN set[id]
        BY <3>1, <3>3 DEF MaySet, MayChange
      <4>5. DOMAIN fields = Fields(row.kind)
        BY <3>2, <4>1, <4>4, Settable DEF ++, Complete
      <4>6. \A c : IsFixed(row.kind, c) => fields[c] = row.fields[c]
        <5>1. ASSUME NEW c, IsFixed(row.kind, c) PROVE fields[c] = row.fields[c]
          <6>1. c \in Fields(row.kind)
            BY <3>2, <5>1, FixedFields DEF IsFixed
          <6>2. c \notin DOMAIN set[id]
            BY <3>2, <4>4, <5>1, FixedStay
          <6>3. QED
            BY <3>2, <4>1, <6>1, <6>2 DEF ++, Complete
        <5>2. QED
          BY <5>1
      <4>7. id \in DOMAIN db'
        BY <2>1
      <4>8. row.kind = "application" => fields.systemApplication = row.fields.systemApplication
        <5>1. "systemApplication" \in Fields("application")
          BY DEF Fields, EntityOf, Entity, Application_entity
        <5>2. QED
          BY <3>2, <4>1, <4>4, <5>1 DEF ++, Complete
      <4>9. QED
        BY <1>2, <3>1, <3>2, <4>3, <4>4, <4>5, <4>6, <4>7, <4>8 DEF Keeps, Complete
    <3>4. CASE id \notin DOMAIN set
      <4>1. id \in DOMAIN db' /\ db'[id] = row
        BY <2>1, <3>1, <3>4
      <4>2. QED
        BY <3>1, <3>2, <4>1 DEF Keeps, Complete
    <3>5. QED
      BY <3>3, <3>4
  <2>3. DOMAIN db' = DOMAIN db
    BY <2>1
  <2>4. Evolves(db, db', DOMAIN db')
    BY <2>2 DEF Evolves
  <2>5. Sound(db')
    BY <2>2, <2>3, <2>4, SoundStays
  <2>6. QED
    BY <1>2, <2>3, <2>4, <2>5 DEF Advances
<1>3. QED
  BY <1>1, <1>2

\* What a transaction makes of the rows.
LEMMA SaveAdvances ==
  ASSUME NEW u, NEW H, NEW w, WorkFits(db, u, H, w), Sound(db), BackendOK,
         NEW s, s = Saved(db, w)
  PROVE  /\ Advances(u, s.rows) /\ s.ok \in BOOLEAN /\ s.done \in 0 .. Len(w)
         /\ \A id \in DOMAIN s.rows \ DOMAIN db :
               \E i \in 1 .. Len(w) : w[i].change = "added" /\ w[i].id = id
         /\ s.ok => s.done = Len(w)
         /\ ~s.ok => s.done # Len(w)
         /\ ~s.ok => Postgres /\ ~Executable(s.rows, w[s.done + 1])
         /\ After(db, H, w, s.rows, s.done) /\ Effects(db, w, s.rows, s.done)
<1>1. /\ s.ok \in BOOLEAN /\ s.done \in 0 .. Len(w) /\ (s.ok <=> s.done = Len(w))
      /\ ~s.ok => ~Executable(s.rows, w[s.done + 1])
      /\ After(db, H, w, s.rows, s.done) /\ Effects(db, w, s.rows, s.done)
  BY SavedWork
<1>2. ~s.ok => Postgres
  BY <1>1 DEF Executable, Postgres, BackendOK
<1>3. ASSUME NEW id \in DOMAIN s.rows \ DOMAIN db
      PROVE  id[1] = u /\ \E i \in 1 .. Len(w) : w[i].change = "added" /\ w[i].id = id
  <2>1. PICK i \in 1 .. Len(w) : w[i].id = id
    BY <1>1, <1>3 DEF After, Evolves, Ids
  <2>2. EntryFits(db, u, w[i])
    BY DEF WorkFits, Fits
  <2>3. QED
    BY <1>3, <2>1, <2>2 DEF EntryFits
<1>4. Evolves(db, s.rows, DOMAIN s.rows)
  BY <1>1 DEF After, Evolves
<1>5. QED
  BY <1>1, <1>2, <1>3, <1>4 DEF Advances, After, Effects

\* What fits the rows still fits them when they have evolved, if what was inserted of it is
\* known to be inserted.
LEMMA WorkStays ==
  ASSUME NEW rows, NEW u, NEW H, NEW w, WorkFits(rows, u, H, w), Sound(rows),
         NEW r, NEW new, Evolves(rows, r, new), Sound(r),
         \A i \in 1 .. Len(w) :
            /\ w[i].change = "added" /\ w[i].id \in DOMAIN r => Postgres /\ w[i].stamped
            /\ w[i].change = "added" =>
                  (Postgres /\ w[i].stamped) \/ \A id \in DOMAIN r \ DOMAIN rows : id[1] # u
  PROVE  WorkFits(r, u, H, w)
<1>1. /\ \A id \in DOMAIN rows : Whole(rows, id) /\ Complete(rows[id])
      /\ \A id \in DOMAIN r : Complete(r[id])
  BY DEF Sound, Whole
<1>2. ASSUME NEW i \in 1 .. Len(w) PROVE Fits(r, u, H, w, i)
  <2>1. PICK e : e = w[i]
    OBVIOUS
  <2>2. Fits(rows, u, H, w, i) /\ EntryFits(rows, u, e) /\ e.kind \in Kind
    BY <2>1 DEF WorkFits, Fits, EntryFits, IsEntry
  <2>3. EntryFits(r, u, e)
    BY <1>1, <2>1, <2>2, EntryStays
  <2>4. ASSUME e.change = "added"
        PROVE  /\ Belongs(r, H, e) /\ GrantsNothing(r, u, e)
               /\ \A c \in DOMAIN RefersTo(e.kind) :
                     \/ c = "groupId" /\ e.fields[c] = Nil
                     \/ Refers(r, H, e, c)
                     \/ Inserts(w, i, e.fields[c], RefersTo(e.kind)[c])
    <3>1. Belongs(rows, H, e)
      BY <2>1, <2>2, <2>4 DEF Fits
    <3>2. Belongs(r, H, e)
      BY <3>1, BelongsStays
    <3>3. ASSUME NEW c \in DOMAIN RefersTo(e.kind)
          PROVE  \/ c = "groupId" /\ e.fields[c] = Nil
                 \/ Refers(r, H, e, c)
                 \/ Inserts(w, i, e.fields[c], RefersTo(e.kind)[c])
      <4>1. \/ c = "groupId" /\ e.fields[c] = Nil
            \/ Refers(rows, H, e, c)
            \/ Inserts(w, i, e.fields[c], RefersTo(e.kind)[c])
        BY <2>1, <2>2, <2>4 DEF Fits, Inserts
      <4>2. Refers(rows, H, e, c) => Refers(r, H, e, c)
        BY <1>1, <2>2, RefersStays
      <4>3. QED
        BY <4>1, <4>2
    <3>4. GrantsNothing(r, u, e)
      <4>1. GrantsNothing(rows, u, e)
        BY <2>1, <2>2, <2>4 DEF Fits
      <4>2. (Postgres /\ e.stamped) \/ \A id \in DOMAIN r \ DOMAIN rows : id[1] # u
        BY <2>1, <2>4
      <4>3. QED
        BY <1>1, <4>1, <4>2, GrantsStay
    <3>5. QED
      BY <3>2, <3>3, <3>4
  <2>5. /\ e.change = "updated" => MayChange(r, H, e.id, e.changed)
        /\ e.change = "deleted" => MayChange(r, H, e.id, SystemFields)
    <3>1. /\ e.change = "updated" => MayChange(rows, H, e.id, e.changed)
          /\ e.change = "deleted" => MayChange(rows, H, e.id, SystemFields)
      BY <2>1, <2>2 DEF Fits
    <3>2. QED
      BY <1>1, <3>1, MayChangeStays
  <2>6. QED
    BY <2>1, <2>3, <2>4, <2>5 DEF Fits, Inserts
<1>3. QED
  BY <1>2 DEF WorkFits

Executed(e) == [e EXCEPT !.stamped = @ \/ e.change = "added", !.changed = {}]

\* The tracker after a save that failed: what was executed counts as saved.
LEMMA FailedFits ==
  ASSUME NEW rows, NEW u, NEW H, NEW w, WorkFits(rows, u, H, w), NEW done \in Nat,
         NEW v, v = AfterFailure(w, done)
  PROVE  /\ WorkFits(rows, u, H, v) /\ Len(v) = Len(w)
         /\ \A i \in 1 .. Len(v) :
               /\ v[i].change = w[i].change /\ v[i].kind = w[i].kind /\ v[i].id = w[i].id
               /\ v[i].fields = w[i].fields /\ v[i].changed \in {w[i].changed, {}}
               /\ w[i].stamped => v[i].stamped
               /\ i <= done => v[i].changed = {}
               /\ i <= done /\ v[i].change = "added" => v[i].stamped
<1>1. Len(w) \in Nat /\ DOMAIN w = 1 .. Len(w)
  <2>1. Len(w) \in Nat /\ w = [i \in 1 .. Len(w) |-> w[i]]
    BY DEF WorkFits, Tracker
  <2>2. QED
    BY <2>1
<1>2. PICK n : n = Len(w)
  OBVIOUS
<1>3. /\ n \in Nat
      /\ v = [i \in 1 .. n |-> IF i > done THEN w[i] ELSE Executed(w[i])]
  BY <1>1, <1>2 DEF AfterFailure, Executed
<1>4. Len(v) = n /\ v = [i \in 1 .. n |-> v[i]]
  BY <1>3
<1>5. ASSUME NEW i \in 1 .. n
      PROVE  /\ v[i].change = w[i].change /\ v[i].kind = w[i].kind /\ v[i].id = w[i].id
             /\ v[i].fields = w[i].fields /\ v[i].version = w[i].version
             /\ v[i].changed \in {w[i].changed, {}}
             /\ IsEntry(v[i]) /\ (w[i].stamped => v[i].stamped)
             /\ i <= done => v[i].changed = {}
             /\ i <= done /\ v[i].change = "added" => v[i].stamped
  <2>1. PICK e : e = w[i]
    OBVIOUS
  <2>2. IsEntry(e)
    BY <1>2, <2>1 DEF WorkFits, Fits, EntryFits
  <2>3. CASE i > done
    BY <1>3, <2>1, <2>2, <2>3
  <2>4. CASE ~(i > done)
    <3>1. PICK stamped \in BOOLEAN : stamped <=> e.stamped \/ e.change = "added"
      OBVIOUS
    <3>2. v[i] = Executed(e)
      BY <1>3, <2>1, <2>4
    <3>3. v[i] = [change |-> e.change, kind |-> e.kind, id |-> e.id, fields |-> e.fields,
                  version |-> e.version, changed |-> {}, stamped |-> (e.stamped \/ e.change = "added")]
      BY <2>2, <3>2 DEF IsEntry, Executed
    <3>4. /\ v[i].change = e.change /\ v[i].kind = e.kind /\ v[i].id = e.id
          /\ v[i].fields = e.fields /\ v[i].version = e.version /\ v[i].changed = {}
          /\ v[i].stamped = (e.stamped \/ e.change = "added")
      BY <3>3
    <3>5. v[i].stamped \in BOOLEAN
      BY <3>4
    <3>6. IsEntry(v[i])
      BY <2>2, <3>3, <3>4, <3>5 DEF IsEntry
    <3>7. QED
      BY <2>1, <3>4, <3>6
  <2>5. QED
    BY <2>3, <2>4
<1>6. Tracker(v)
  BY <1>2, <1>4, <1>5 DEF WorkFits, Tracker
<1>7. ASSUME NEW i \in 1 .. n PROVE Fits(rows, u, H, v, i)
  <2>1. Fits(rows, u, H, w, i)
    BY <1>2 DEF WorkFits
  <2>2. \A j \in 1 .. i - 1 : j \in 1 .. n
    <3>1. n \in Nat
      BY <1>3
    <3>2. QED
      BY <3>1
  <2>3. EntryFits(rows, u, v[i])
    <3>1. EntryFits(rows, u, w[i]) /\ w[i].stamped \in BOOLEAN
      BY <2>1 DEF Fits, EntryFits, IsEntry
    <3>2. CASE w[i].change = "added"
      BY <1>5, <3>1, <3>2 DEF EntryFits
    <3>3. CASE w[i].change = "updated"
      <4>1. CASE v[i].changed = w[i].changed
        BY <1>5, <3>1, <3>3, <4>1 DEF EntryFits
      <4>2. CASE v[i].changed = {}
        BY <1>5, <3>1, <3>3, <4>2 DEF EntryFits
      <4>3. QED
        BY <1>5, <4>1, <4>2
    <3>4. CASE w[i].change = "deleted"
      BY <1>5, <3>1, <3>4 DEF EntryFits
    <3>5. QED
      BY <3>1, <3>2, <3>3, <3>4 DEF EntryFits
  <2>4. Belongs(rows, H, w[i]) => Belongs(rows, H, v[i])
    BY <1>5 DEF Belongs
  <2>5. \A c : Refers(rows, H, w[i], c) => Refers(rows, H, v[i], c)
    BY <1>5 DEF Refers
  <2>6. v[i].change = "added" => GrantsNothing(rows, u, v[i])
    BY <1>5, <2>1 DEF Fits, GrantsNothing
  <2>7. /\ v[i].change = "updated" => MayChange(rows, H, v[i].id, v[i].changed)
        /\ v[i].change = "deleted" => MayChange(rows, H, v[i].id, SystemFields)
    <3>1. /\ v[i].change = "updated" => MayChange(rows, H, w[i].id, w[i].changed)
          /\ v[i].change = "deleted" => MayChange(rows, H, w[i].id, SystemFields)
      BY <1>5, <2>1 DEF Fits
    <3>2. v[i].changed \subseteq w[i].changed /\ v[i].id = w[i].id
      BY <1>5
    <3>3. v[i].change = "updated" => MayChange(rows, H, w[i].id, v[i].changed)
      BY <3>1, <3>2, MayChangeLess
    <3>4. QED
      BY <3>1, <3>2, <3>3
  <2>8. QED
    BY <1>5, <2>1, <2>2, <2>3, <2>4, <2>5, <2>6, <2>7 DEF Fits
<1>8. WorkFits(rows, u, H, v)
  BY <1>4, <1>6, <1>7 DEF WorkFits
<1>9. QED
  BY <1>2, <1>4, <1>5, <1>8

\* None of this depends on anything but the back end, which stays.
LEMMA KeepsSame ==
  ASSUME backend' = backend, NEW rows, NEW r, NEW id
  PROVE  Keeps(rows, r, id)' <=> Keeps(rows, r, id)
BY DEF Keeps, Postgres

\* and whether a tracker fits stays with it.
LEMMA WorkFitsSame ==
  ASSUME backend' = backend, NEW rows, NEW u, NEW H, NEW w
  PROVE  WorkFits(rows, u, H, w)' <=> WorkFits(rows, u, H, w)
<1>1. ASSUME NEW e PROVE EntryFits(rows, u, e)' <=> EntryFits(rows, u, e)
  BY DEF EntryFits, Postgres
<1>2. ASSUME NEW i PROVE Fits(rows, u, H, w, i)' <=> Fits(rows, u, H, w, i)
  BY <1>1 DEF Fits, GrantsNothing, Postgres
<1>3. QED
  BY <1>2 DEF WorkFits

-----------------------------------------------------------------------------
(* The inductive invariant.                                                *)

\* The invariant holds at the start.
LEMMA AdminInit == ASSUME Init PROVE AdminInv
<1>1. Base
  <2>1. ASSUME NEW id \in DOMAIN InitialRows
        PROVE  /\ id # Nil /\ Whole(InitialRows, id) /\ (InitialRows[id].kind # "auditLog" => Apart(InitialRows, id))
               /\ Complete(InitialRows[id])
    BY InitialRowsAssumption DEF Whole
  <2>2. Sound(InitialRows)
    BY <2>1 DEF Sound
  <2>3. Evolves(InitialRows, InitialRows, {})
    BY <2>1, EvolvesNot
  <2>4. \A id \in DOMAIN InitialRows : Keeps(InitialRows, InitialRows, id)
    BY <2>3 DEF Evolves
  <2>5. 0 \in 0 .. MaxFaults
    BY AdministrationAssumption
  <2>6. Postgres => Distinct(db)
    BY InitialRowsAssumption DEF Init, Postgres
  <2>7. QED
    BY <2>2, <2>4, <2>5, <2>6 DEF Base, Init
<1>2. ASSUME NEW u \in Unit PROVE RequestOK(u) /\ AuditOK(u)
  <2>1. unit[u] = Waiting
    BY DEF Init
  <2>2. \A id \in DOMAIN db : id[1] # u
    BY InitialRowsAssumption DEF Init
  <2>3. New1(u, "auditLog") \notin DOMAIN db
    BY <2>2 DEF New1
  <2>4. QED
    BY <2>1, <2>2, <2>3 DEF RequestOK, AuditOK, Waiting
<1>3. QED
  BY <1>1, <1>2 DEF AdminInv

\* What a request has seen is still there after a step.
LEMMA SeenStays ==
  ASSUME NEW v, Advances(v, db'), backend' = backend, Sound(db), NEW u, Seen(u),
         unit'[u].server = unit[u].server, unit'[u].seen = unit[u].seen
  PROVE  Seen(u)'
<1>1. PICK s : s = Server(u)
  OBVIOUS
<1>2. PICK seen : seen = unit[u].seen
  OBVIOUS
<1>3. /\ s \in DOMAIN db /\ db[s].kind = "virtualServer" /\ Complete(seen) /\ seen.kind = "virtualServer"
      /\ seen.version <= db[s].version
      /\ Postgres /\ seen.version = db[s].version => seen.fields = db[s].fields
  BY <1>1, <1>2 DEF Seen
<1>4. Keeps(db, db', s)
  BY <1>3 DEF Advances, Evolves
<1>5. Complete(db[s]) /\ Complete(db'[s])
  BY <1>3, <1>4 DEF Sound, Whole, Advances, Keeps
<1>6. s \in DOMAIN db' /\ db'[s].kind = "virtualServer" /\ db'[s].version >= db[s].version
  BY <1>3, <1>4 DEF Keeps
<1>7. seen.version <= db'[s].version
  BY <1>3, <1>5, <1>6 DEF Complete
<1>8. Server(u)' = s /\ unit'[u].seen = seen
  BY <1>1, <1>2 DEF Server
<1>9. ASSUME Postgres, seen.version = db'[s].version PROVE seen.fields = db'[s].fields
  <2>1. seen.version = db[s].version /\ db'[s].version = db[s].version
    BY <1>3, <1>5, <1>6, <1>9 DEF Complete
  <2>2. QED
    BY <1>3, <1>4, <1>9, <2>1 DEF Keeps
<1>10. QED
  BY <1>3, <1>6, <1>7, <1>8, <1>9 DEF Seen, Postgres

\* A step of a request leaves the others as they should be.
LEMMA OthersStay ==
  ASSUME AdminInv, NEW v \in Unit, backend' = backend, Advances(v, db'), up' => up,
         NEW u \in Unit, u # v, unit'[u] = unit[u]
  PROVE  (RequestOK(u) /\ AuditOK(u))'
<1>1. PICK r : r = unit[u]
  OBVIOUS
<1>2. RequestOK(u) /\ AuditOK(u) /\ Sound(db)
  BY DEF AdminInv, Base
<1>3. \A id \in DOMAIN db' : id[1] = u => id \in DOMAIN db
  BY DEF Advances
<1>4. unit'[u] = r /\ Call(u)' = Call(u) /\ Server(u)' = Server(u) /\ Home(u)' = Home(u)
      /\ AuditEntry(u)' = AuditEntry(u)
  BY <1>1 DEF Call, Server, Home, AuditEntry
<1>5. Seen(u) => Seen(u)'
  BY <1>2, SeenStays
<1>6. r.pc \in {"save", "close"} => WorkFits(db, u, Home(u), r.work)'
  <2>1. ASSUME r.pc \in {"save", "close"} PROVE WorkFits(db', u, Home(u), r.work)
    <3>1. PICK w : w = r.work
      OBVIOUS
    <3>2. WorkFits(db, u, Home(u), w)
      BY <1>1, <1>2, <2>1, <3>1 DEF RequestOK
    <3>3. ASSUME NEW i \in 1 .. Len(w), w[i].change = "added", w[i].id \in DOMAIN db'
          PROVE  Postgres /\ w[i].stamped
      <4>1. EntryFits(db, u, w[i])
        BY <3>2 DEF WorkFits, Fits
      <4>2. QED
        BY <1>3, <3>3, <4>1 DEF EntryFits
    <3>4. PICK H : H = Home(u)
      OBVIOUS
    <3>5. WorkFits(db', u, H, w)
      <4>1. \A id \in DOMAIN db' \ DOMAIN db : id[1] # u
        BY <1>3
      <4>2. QED
        BY <1>2, <3>2, <3>3, <3>4, <4>1, WorkStays DEF Advances
    <3>6. QED
      BY <3>1, <3>4, <3>5
  <2>2. QED
    BY <1>4, <2>1, WorkFitsSame
<1>7. RequestOK(u)'
  <2>1. r.pc \in {"idle", "handle"} => \A id \in DOMAIN db' : id[1] # u
    BY <1>1, <1>2, <1>3 DEF RequestOK
  <2>2. QED
    BY <1>1, <1>2, <1>4, <1>5, <1>6, <2>1 DEF RequestOK
<1>8. AuditOK(u)'
  <2>1. PICK a : a = New1(u, "auditLog")
    OBVIOUS
  <2>2. a \in DOMAIN db' => a \in DOMAIN db
    BY <1>3, <2>1 DEF New1
  <2>3. a \in DOMAIN db => Keeps(db, db', a)
    BY DEF Advances, Evolves
  <2>4. a \in DOMAIN db => a \in DOMAIN db' /\ (db[a].kind = "auditLog" => db'[a] = db[a])
    BY <2>3 DEF Keeps
  <2>5. QED
    BY <1>1, <1>2, <1>4, <2>1, <2>2, <2>4 DEF AuditOK
<1>9. QED
  BY <1>7, <1>8

\* The rows of the start stay.
LEMMA InitialStay ==
  ASSUME Base, NEW v, NEW r, Advances(v, r)
  PROVE  \A id \in DOMAIN InitialRows : Keeps(InitialRows, r, id)
<1>1. ASSUME NEW id \in DOMAIN InitialRows PROVE Keeps(InitialRows, r, id)
  <2>1. Keeps(InitialRows, db, id) /\ id \in DOMAIN db /\ Keeps(db, r, id)
    BY DEF Base, Keeps, Advances, Evolves
  <2>2. Complete(InitialRows[id]) /\ Complete(db[id]) /\ Complete(r[id])
    BY <2>1, InitialRowsAssumption DEF Whole, Base, Sound, Advances, Keeps
  <2>3. QED
    BY <2>1, <2>2 DEF Keeps, Complete
<1>2. QED
  BY <1>1

\* What remains to be shown of a step of v.
LEMMA StepKeeps ==
  ASSUME AdminInv, NEW v \in Unit, UNCHANGED backend, Advances(v, db'), up' \in BOOLEAN, up' => up,
         faults' \in 0 .. MaxFaults, NEW r, unit' = [unit EXCEPT ![v] = r],
         (RequestOK(v) /\ AuditOK(v))'
  PROVE  AdminInv'
<1>1. unit' = [u \in Unit |-> unit'[u]] /\ \A u \in Unit \ {v} : unit'[u] = unit[u]
  BY DEF AdminInv, Base
<1>2. \A u \in Unit : (RequestOK(u) /\ AuditOK(u))'
  BY <1>1, OthersStay
<1>3. \A id \in DOMAIN InitialRows : Keeps(InitialRows, db', id)
  BY InitialStay DEF AdminInv
<1>4. \A id \in DOMAIN InitialRows : Keeps(InitialRows, db, id)'
  BY <1>3, KeepsSame
<1>5. Base'
  BY <1>1, <1>4 DEF AdminInv, Base, Advances, Postgres
<1>6. QED
  BY <1>2, <1>5 DEF AdminInv

-----------------------------------------------------------------------------
(* The steps.                                                              *)

Request(pc, call, server, seen, work, failed, lost) ==
    [pc |-> pc, call |-> call, server |-> server, seen |-> seen, work |-> work, failed |-> failed,
     lost |-> lost]
IsRequest(o) == o = Request(o.pc, o.call, o.server, o.seen, o.work, o.failed, o.lost)

\* A request after several of its fields were set.
LEMMA Handed ==
  ASSUME NEW o, IsRequest(o), NEW pc, NEW failed, NEW work
  PROVE  [o EXCEPT !.pc = pc, !.failed = failed, !.work = work]
            = Request(pc, o.call, o.server, o.seen, work, failed, o.lost)
<1>1. PICK a : a = [o EXCEPT !.pc = pc]
  OBVIOUS
<1>2. PICK b : b = [a EXCEPT !.failed = failed]
  OBVIOUS
<1>3. a = Request(pc, o.call, o.server, o.seen, o.work, o.failed, o.lost)
  BY <1>1 DEF IsRequest, Request
<1>4. b = Request(pc, o.call, o.server, o.seen, o.work, failed, o.lost)
  BY <1>2, <1>3 DEF Request
<1>5. [b EXCEPT !.work = work] = Request(pc, o.call, o.server, o.seen, work, failed, o.lost)
  BY <1>4 DEF Request
<1>6. QED
  BY <1>1, <1>2, <1>5

\* What the end of a step makes of the record of a request: it goes on to pc with that tracker,
LEMMA Closed ==
  ASSUME NEW o, IsRequest(o), NEW pc, NEW work
  PROVE  [o EXCEPT !.pc = pc, !.work = work]
            = Request(pc, o.call, o.server, o.seen, work, o.failed, o.lost)
<1>1. PICK a : a = [o EXCEPT !.pc = pc]
  OBVIOUS
<1>2. a = Request(pc, o.call, o.server, o.seen, o.work, o.failed, o.lost)
  BY <1>1 DEF IsRequest, Request
<1>3. [a EXCEPT !.work = work] = Request(pc, o.call, o.server, o.seen, work, o.failed, o.lost)
  BY <1>2 DEF Request
<1>4. QED
  BY <1>1, <1>3

\* or it stays where it is and has failed.
LEMMA Refused ==
  ASSUME NEW o, IsRequest(o), NEW failed, NEW work
  PROVE  [o EXCEPT !.failed = failed, !.work = work]
            = Request(o.pc, o.call, o.server, o.seen, work, failed, o.lost)
<1>1. PICK a : a = [o EXCEPT !.failed = failed]
  OBVIOUS
<1>2. a = Request(o.pc, o.call, o.server, o.seen, o.work, failed, o.lost)
  BY <1>1 DEF IsRequest, Request
<1>3. [a EXCEPT !.work = work] = Request(o.pc, o.call, o.server, o.seen, work, failed, o.lost)
  BY <1>2 DEF Request
<1>4. QED
  BY <1>1, <1>3

\* A request that the middleware lets in or turns away.
LEMMA AdmitKeeps ==
  ASSUME AdminInv, NEW u \in Unit, Admit(u)
  PROVE  AdminInv'
<1>1. PICK c \in CallsOf[u] :
         \E server \in IF c.by = "system" THEN {Nil} ELSE First("virtualServer", [name |-> c.at]) :
             LET admitted == (server # Nil \/ c.by = "system") /\ Allowed(c.by, c.op) IN
             unit' = [unit EXCEPT ![u] =
                [pc |-> IF admitted THEN "handle" ELSE "done", call |-> c, server |-> server,
                 seen |-> IF server = Nil THEN Nil ELSE db[server], work |-> <<>>,
                 failed |-> ~admitted, lost |-> FALSE]]
  BY DEF Admit
<1>2. PICK server \in IF c.by = "system" THEN {Nil} ELSE First("virtualServer", [name |-> c.at]) :
             LET admitted == (server # Nil \/ c.by = "system") /\ Allowed(c.by, c.op) IN
             unit' = [unit EXCEPT ![u] =
                [pc |-> IF admitted THEN "handle" ELSE "done", call |-> c, server |-> server,
                 seen |-> IF server = Nil THEN Nil ELSE db[server], work |-> <<>>,
                 failed |-> ~admitted, lost |-> FALSE]]
  BY <1>1
<1>3. PICK admitted \in BOOLEAN :
         admitted <=> (server # Nil \/ c.by = "system") /\ Allowed(c.by, c.op)
  OBVIOUS
<1>4. PICK pc, failed, seen :
         /\ pc = IF admitted THEN "handle" ELSE "done"
         /\ failed \in BOOLEAN /\ (failed <=> ~admitted)
         /\ seen = IF server = Nil THEN Nil ELSE db[server]
  OBVIOUS
<1>5. PICK r : r = Request(pc, c, server, seen, <<>>, failed, FALSE)
  OBVIOUS
<1>6. unit' = [unit EXCEPT ![u] = r]
  <2>1. failed = ~((server # Nil \/ c.by = "system") /\ Allowed(c.by, c.op))
    BY <1>3, <1>4
  <2>2. pc = IF (server # Nil \/ c.by = "system") /\ Allowed(c.by, c.op) THEN "handle" ELSE "done"
    BY <1>3, <1>4
  <2>3. QED
    BY <1>2, <1>4, <1>5, <2>1, <2>2 DEF Request
<1>7. UNCHANGED <<backend, db, up, faults>> /\ unit[u].pc = "idle"
  BY DEF Admit, At
<1>8. RequestOK(u) /\ AuditOK(u) /\ Sound(db) /\ Base /\ u \in DOMAIN unit
  BY DEF AdminInv, Base
<1>9. unit'[u] = r
  BY <1>6, <1>8
<1>10. \A id \in DOMAIN db : id[1] # u
  BY <1>7, <1>8 DEF RequestOK
<1>11. ASSUME admitted, c.by # "system" PROVE Seen(u)'
  <2>1. server # Nil /\ server \in First("virtualServer", [name |-> c.at])
    BY <1>2, <1>3, <1>11
  <2>2. server \in DOMAIN db /\ db[server].kind = "virtualServer"
    BY <2>1, LookedUp
  <2>3. Complete(db[server])
    BY <1>8, <2>2 DEF Sound, Whole
  <2>4. r.server = server /\ r.seen = db[server]
    BY <1>4, <1>5, <2>1 DEF Request
  <2>5. db[server].version <= db[server].version
    BY <2>3 DEF Complete
  <2>6. QED
    BY <1>7, <1>9, <2>2, <2>3, <2>4, <2>5 DEF Seen, Server
<1>12. c.by = "system" => server = Nil
  BY <1>2
<1>13. /\ r.pc \in {"handle", "done"} /\ r.call = c /\ r.server = server /\ r.work = <<>>
       /\ (r.pc = "handle" <=> admitted) /\ (r.pc = "done" => r.failed)
       /\ IsRequest(r)
  BY <1>4, <1>5 DEF IsRequest, Request
<1>14. RequestOK(u)'
  BY <1>7, <1>9, <1>10, <1>11, <1>12, <1>13 DEF RequestOK, IsRequest, Request
<1>15. AuditOK(u)'
  <2>1. New1(u, "auditLog") \notin DOMAIN db
    BY <1>10 DEF New1
  <2>2. QED
    BY <1>7, <1>9, <1>13, <2>1 DEF AuditOK
<1>16. Advances(u, db')
  BY <1>7, <1>8, Stays
<1>17. QED
  BY <1>6, <1>7, <1>8, <1>14, <1>15, <1>16, StepKeeps DEF Base

\* A handler.
LEMMA ReturnKeeps ==
  ASSUME AdminInv, NEW u \in Unit, up, unit[u].pc = "handle", faults' \in 0 .. MaxFaults,
         NEW set, NEW w, Legit(u, set, w), NEW ok \in BOOLEAN, Return(u, ok, set, w)
  PROVE  AdminInv'
<1>1. RequestOK(u) /\ AuditOK(u) /\ Sound(db) /\ Base /\ u \in DOMAIN unit
  BY DEF AdminInv, Base
<1>2. PICK o : o = unit[u]
  OBVIOUS
<1>3. /\ IsRequest(o)
      /\ o.call \in CallsOf[u] /\ IF o.call.by = "system" THEN o.server = Nil ELSE Seen(u)
      /\ \A id \in DOMAIN db : id[1] # u
  BY <1>1, <1>2 DEF RequestOK, IsRequest, Request
<1>4. PICK pc, failed : /\ pc = IF ok /\ Call(u).op \notin Unchecked THEN "save" ELSE "close"
                       /\ failed \in BOOLEAN /\ (failed <=> ~ok)
  OBVIOUS
<1>5. PICK r : r = Request(pc, o.call, o.server, o.seen, w, failed, o.lost)
  OBVIOUS
<1>6. unit' = [unit EXCEPT ![u] = r]
  <2>1. failed = ~ok
    BY <1>4
  <2>2. unit' = [unit EXCEPT ![u].pc = pc, ![u].failed = failed, ![u].work = w]
    BY <1>4, <2>1 DEF Return
  <2>3. unit' = [unit EXCEPT ![u] = [o EXCEPT !.pc = pc, !.failed = failed, !.work = w]]
    BY <1>2, <2>2
  <2>4. [o EXCEPT !.pc = pc, !.failed = failed, !.work = w] = r
    BY <1>3, <1>5, Handed, Zenon
  <2>5. QED
    BY <2>3, <2>4
<1>7. unit'[u] = r
  BY <1>1, <1>6
<1>8. UNCHANGED <<backend, up>>
  BY DEF Return
<1>9. Advances(u, db') /\ DOMAIN db' = DOMAIN db
  BY <1>1, ReturnAdvances DEF Legit
<1>10. Call(u)' = Call(u) /\ Home(u)' = Home(u) /\ Call(u) = o.call
  <2>1. r.call = o.call /\ r.server = o.server
    BY <1>5 DEF Request
  <2>2. QED
    BY <1>2, <1>7, <2>1 DEF Call, Home, Server
<1>11. Seen(u) => Seen(u)'
  <2>1. unit'[u].server = unit[u].server /\ unit'[u].seen = unit[u].seen
    BY <1>2, <1>5, <1>7 DEF Request
  <2>2. QED
    BY <1>1, <1>8, <1>9, <2>1, SeenStays
<1>12. WorkFits(db, u, Home(u), w)'
  <2>1. WorkFits(db, u, Home(u), w)
    BY DEF Legit
  <2>2. ASSUME NEW i \in 1 .. Len(w), w[i].change = "added", w[i].id \in DOMAIN db'
        PROVE  Postgres /\ w[i].stamped
    BY <1>9, <2>1, <2>2 DEF WorkFits, Fits, EntryFits
  <2>3. PICK H : H = Home(u)
    OBVIOUS
  <2>4. WorkFits(db', u, H, w)
    BY <1>1, <1>9, <2>1, <2>2, <2>3, WorkStays DEF Advances
  <2>5. QED
    BY <1>8, <1>10, <2>3, <2>4, WorkFitsSame
<1>13. /\ r.pc \in {"save", "close"} /\ r.call = o.call /\ r.server = o.server /\ r.work = w
       /\ (r.pc = "save" <=> ~r.failed /\ r.call.op \notin Unchecked)
  <2>1. r.pc = pc /\ r.failed = failed /\ r.call = o.call /\ r.server = o.server /\ r.work = w
    BY <1>5 DEF Request
  <2>2. QED
    BY <1>4, <1>10, <2>1
<1>14. RequestOK(u)'
  <2>1. IsRequest(r)
    BY <1>5 DEF IsRequest, Request
  <2>2. QED
    BY <1>3, <1>7, <1>11, <1>12, <1>13, <2>1 DEF RequestOK, IsRequest, Request
<1>15. AuditOK(u)'
  <2>1. New1(u, "auditLog") \notin DOMAIN db'
    BY <1>3, <1>9 DEF New1
  <2>2. \A i \in 1 .. Len(w) : w[i].kind # "auditLog" /\ w[i].id # New1(u, "auditLog")
    BY DEF Legit
  <2>3. QED
    BY <1>7, <1>13, <2>1, <2>2 DEF AuditOK
<1>16. up' \in BOOLEAN /\ (up' => up)
  BY <1>1, <1>8 DEF Base
<1>17. QED
  BY <1>6, <1>8, <1>9, <1>14, <1>15, <1>16, StepKeeps

\* A handler runs in a request that was admitted, and at most one call of it fails; it takes
\* no key away, and adds keys for a virtual server only.
LEMMA HandleSteps ==
  ASSUME NEW u, Handle(u)
  PROVE  /\ up /\ unit[u].pc = "handle" /\ (faults' = faults \/ Fault) /\ keys \subseteq keys'
         /\ Call(u).op = "CreateVirtualServer" => CreateVirtualServer(u)
         /\ keys' = keys \/ PatchVirtualServer(u) \/ CreateVirtualServer(u)
<1>1. ASSUME NEW ok, NEW w, Respond(u, ok, w) PROVE faults' = faults /\ keys' = keys
  BY <1>1 DEF Respond
<1>2. ASSUME NEW id, NEW values, Set(u, id, values) PROVE faults' = faults /\ keys' = keys
  BY <1>2 DEF Set
<1>3. ASSUME NEW name, NEW algorithms, NEW ok, GenerateKeys(name, algorithms, ok)
      PROVE  (faults' = faults \/ Fault) /\ keys \subseteq keys'
  BY <1>3 DEF GenerateKeys
<1> USE DEF Handles, At
<1>4. CASE CreateProject(u)
  BY <1>1, <1>2, <1>3, <1>4 DEF CreateProject
<1>5. CASE PatchProject(u)
  BY <1>1, <1>2, <1>3, <1>5 DEF PatchProject
<1>6. CASE AssignRoleToUser(u)
  BY <1>1, <1>2, <1>3, <1>6 DEF AssignRoleToUser
<1>7. CASE CreateRole(u)
  BY <1>1, <1>2, <1>3, <1>7 DEF CreateRole
<1>8. CASE PatchRole(u)
  BY <1>1, <1>2, <1>3, <1>8 DEF PatchRole
<1>9. CASE DeleteRole(u)
  BY <1>1, <1>2, <1>3, <1>9 DEF DeleteRole
<1>10. CASE CreateResourceServer(u)
  BY <1>1, <1>2, <1>3, <1>10 DEF CreateResourceServer
<1>11. CASE PatchResourceServer(u)
  BY <1>1, <1>2, <1>3, <1>11 DEF PatchResourceServer
<1>12. CASE CreateResourceServerScope(u)
  BY <1>1, <1>2, <1>3, <1>12 DEF CreateResourceServerScope
<1>13. CASE CreateApplication(u)
  BY <1>1, <1>2, <1>3, <1>13 DEF CreateApplication
<1>14. CASE DeleteApplication(u)
  BY <1>1, <1>2, <1>3, <1>14 DEF DeleteApplication
<1>15. CASE PatchApplication(u)
  BY <1>1, <1>2, <1>3, <1>15 DEF PatchApplication
<1>16. CASE PatchVirtualServer(u)
  BY <1>1, <1>2, <1>3, <1>16 DEF PatchVirtualServer
<1>17. CASE CreateVirtualServer(u)
  BY <1>1, <1>2, <1>3, <1>17 DEF CreateVirtualServer
<1>18. CASE CreateUser(u)
  BY <1>1, <1>2, <1>3, <1>18 DEF CreateUser
<1>19. CASE CreateServiceUser(u)
  BY <1>1, <1>2, <1>3, <1>19 DEF CreateServiceUser
<1>20. CASE AssociateServiceUserPublicKey(u)
  BY <1>1, <1>2, <1>3, <1>20 DEF AssociateServiceUserPublicKey
<1>21. CASE RemoveServiceUserPublicKey(u)
  BY <1>1, <1>2, <1>3, <1>21 DEF RemoveServiceUserPublicKey
<1>22. CASE SetPassword(u)
  BY <1>1, <1>2, <1>3, <1>22 DEF SetPassword
<1>23. CASE UpdateUserMetadata(u)
  BY <1>1, <1>2, <1>3, <1>23 DEF UpdateUserMetadata
<1>24. CASE PatchUserMetadata(u)
  BY <1>1, <1>2, <1>3, <1>24 DEF PatchUserMetadata
<1>25. CASE UpdateUserAppMetadata(u)
  BY <1>1, <1>2, <1>3, <1>25 DEF UpdateUserAppMetadata
<1>26. CASE PatchUserAppMetadata(u)
  BY <1>1, <1>2, <1>3, <1>26 DEF PatchUserAppMetadata
<1>27. CASE CreatePasswordRule(u)
  BY <1>1, <1>2, <1>3, <1>27 DEF CreatePasswordRule
<1>28. CASE UpdatePasswordRule(u)
  BY <1>1, <1>2, <1>3, <1>28 DEF UpdatePasswordRule
<1>29. QED
  BY <1>4, <1>5, <1>6, <1>7, <1>8, <1>9, <1>10, <1>11, <1>12, <1>13, <1>14, <1>15, <1>16, <1>17, <1>18, <1>19, <1>20, <1>21, <1>22, <1>23, <1>24, <1>25, <1>26, <1>27, <1>28 DEF Handle

\* The handler: it changes rows on the memory back end, and tracks what fits.
LEMMA HandleKeeps ==
  ASSUME AdminInv, NEW u \in Unit, Handle(u)
  PROVE  AdminInv'
<1>1. up /\ unit[u].pc = "handle" /\ (faults' = faults \/ Fault)
  BY HandleSteps
<1>2. RequestOK(u) /\ Base
  BY DEF AdminInv
<1>3. BackendOK
  BY <1>2, AdministrationAssumption DEF Base, BackendOK
<1>4. Ready(u)
  BY <1>1, <1>2, <1>3 DEF RequestOK, Base, Ready, Call, Server
<1>5. faults' \in 0 .. MaxFaults
  BY <1>1, <1>2, AdministrationAssumption DEF Base, Fault
<1>6. PICK set, w : Legit(u, set, w) /\ (Return(u, TRUE, set, w) \/ Return(u, FALSE, set, w))
  BY <1>4, HandleHandled DEF Handled, Returns, Refuses
<1>7. PICK ok \in BOOLEAN : Return(u, ok, set, w)
  BY <1>6
<1>8. QED
  BY <1>1, <1>5, <1>6, <1>7, ReturnKeeps

-----------------------------------------------------------------------------
(* The end of a request.                                                   *)

\* An audit entry refers to the user who acted.
LEMMA AuditFits ==
  ASSUME NEW u \in Unit, Call(u) \in CallsOf[u], NEW rows, New1(u, "auditLog") \notin DOMAIN rows,
         \A id \in DOMAIN InitialRows : Keeps(InitialRows, rows, id), NEW H
  PROVE  WorkFits(rows, u, H, AuditEntry(u))
<1>1. CASE Call(u).by = "system"
  <2>1. AuditEntry(u) = <<>>
    BY <1>1 DEF AuditEntry
  <2>2. QED
    BY <2>1 DEF WorkFits, Tracker
<1>2. CASE Call(u).by # "system"
  <2>1. PICK values : values = [virtualServerId |-> Server(u), userId |-> Call(u).who, requestType |-> Call(u).op,
              request |-> Blank, response |-> Blank, allowed |-> TRUE, allowReasonType |-> "permission",
              allowReason |-> Blank]
    OBVIOUS
  <2>2. PICK e : e = Insertion(New1(u, "auditLog"), "auditLog", values)
    OBVIOUS
  <2>3. AuditEntry(u) = <<e>>
    BY <1>2, <2>1, <2>2 DEF AuditEntry
  <2>4. /\ e.change = "added" /\ e.kind = "auditLog" /\ e.id = New1(u, "auditLog") /\ e.stamped = FALSE
        /\ e.fields = New("auditLog", values) /\ IsEntry(e)
    BY <2>2, Kinds DEF Insertion, Entry, IsEntry
  <2>5. /\ DOMAIN values \subseteq Fields("auditLog")
        /\ EntityOf["auditLog"].given \subseteq DOMAIN values
        /\ values["userId"] = Call(u).who /\ "userId" \in DOMAIN values
    BY <2>1 DEF Fields, EntityOf, AuditLog_entity, Entity
  <2>6. DOMAIN e.fields = Fields("auditLog") /\ e.fields["userId"] = Call(u).who
    BY <2>4, <2>5, NewFields, Kinds
  <2>7. IsUser(Call(u).who)
    BY <1>2, CallsAssumption
  <2>8. Call(u).who \in DOMAIN rows /\ rows[Call(u).who].kind = "user"
    BY <2>7 DEF IsUser, Keeps
  <2>9. \A c \in DOMAIN RefersTo("auditLog") : c = "userId" /\ RefersTo("auditLog")[c] = "user"
    BY DEF RefersTo, TableOf, Table, AuditLog_table
  <2>10. EntryFits(rows, u, e)
    BY <2>4, <2>6 DEF EntryFits, New1, Nil
  <2>11. Belongs(rows, H, e)
    BY <2>4 DEF Belongs
  <2>12. \A c \in DOMAIN RefersTo(e.kind) : Refers(rows, H, e, c)
    BY <2>4, <2>6, <2>8, <2>9 DEF Refers
  <2>13. PICK w : w = <<e>>
    OBVIOUS
  <2>14. Len(w) = 1 /\ w[1] = e /\ w = [i \in 1 .. 1 |-> w[i]]
    BY <2>13
  <2>15. Fits(rows, u, H, w, 1)
    BY <2>4, <2>10, <2>11, <2>12, <2>14 DEF Fits, GrantsNothing
  <2>16. WorkFits(rows, u, H, w)
    BY <2>14, <2>15 DEF WorkFits, Tracker
  <2>17. QED
    BY <2>3, <2>13, <2>16
<1>3. QED
  BY <1>1, <1>2

\* What a request may be left as by a step of its end: the rows, whether the instance runs,
\* and where the request is, what it tracks and whether it failed.
Settled(u, rows, runs, pc, w, failed) ==
    LET a == New1(u, "auditLog")  logged == Call(u).op \notin Unchecked IN
    /\ pc \in {"close", "done"} /\ (pc = "done" => w = <<>>)
    /\ pc = "close" => WorkFits(rows, u, Home(u), w)
    /\ a \in DOMAIN rows => rows[a].kind = "auditLog" /\ pc = "done" /\ ~failed
    /\ pc = "close" /\ failed => \A i \in 1 .. Len(w) : w[i].kind # "auditLog" /\ w[i].id # a
    /\ pc = "close" => logged /\ (~failed => w = AuditEntry(u))
    /\ pc = "done" /\ ~failed /\ runs /\ logged /\ Server(u) # Nil => a \in DOMAIN rows /\ rows[a].live

\* SaveChanges and the end of the unit of work, once it is known what they leave behind.
LEMMA SettleKeeps ==
  ASSUME AdminInv, NEW u \in Unit, unit[u].pc \in {"save", "close"}, UNCHANGED backend,
         Advances(u, db'), up' \in BOOLEAN, up' => up, faults' \in 0 .. MaxFaults,
         NEW pc, NEW w, NEW failed, NEW lost, Settled(u, db', up', pc, w, failed),
         unit' = [unit EXCEPT ![u] = Request(pc, unit[u].call, unit[u].server, unit[u].seen, w, failed, lost)]
  PROVE  AdminInv'
<1>1. RequestOK(u) /\ AuditOK(u) /\ Sound(db) /\ Base /\ u \in DOMAIN unit
  BY DEF AdminInv, Base
<1>2. PICK o : o = unit[u]
  OBVIOUS
<1>3. /\ o.call \in CallsOf[u] /\ o.pc \in {"save", "close"}
      /\ IF o.call.by = "system" THEN o.server = Nil ELSE Seen(u)
  BY <1>1, <1>2 DEF RequestOK
<1>4. PICK r : r = Request(pc, o.call, o.server, o.seen, w, failed, lost)
  OBVIOUS
<1>5. unit' = [unit EXCEPT ![u] = r] /\ unit'[u] = r
  BY <1>1, <1>2, <1>4
<1>6. /\ IsRequest(r) /\ r.pc = pc /\ r.call = o.call /\ r.server = o.server /\ r.seen = o.seen
      /\ r.work = w /\ r.failed = failed
  BY <1>4 DEF IsRequest, Request
<1>7. /\ Call(u)' = Call(u) /\ Home(u)' = Home(u) /\ Server(u)' = Server(u) /\ AuditEntry(u)' = AuditEntry(u)
      /\ Call(u) = o.call /\ Server(u) = o.server
  BY <1>2, <1>5, <1>6 DEF Call, Home, Server, AuditEntry
<1>8. Seen(u) => Seen(u)'
  <2>1. unit'[u].server = unit[u].server /\ unit'[u].seen = unit[u].seen
    BY <1>2, <1>5, <1>6
  <2>2. QED
    BY <1>1, <2>1, SeenStays
<1>9. pc = "close" => WorkFits(db, u, Home(u), w)'
  BY <1>7, WorkFitsSame DEF Settled
<1>10. RequestOK(u)'
  BY <1>3, <1>5, <1>6, <1>7, <1>8, <1>9 DEF RequestOK, Settled, IsRequest, Request
<1>11. AuditOK(u)'
  BY <1>5, <1>6, <1>7 DEF AuditOK, Settled
<1>12. QED
  BY <1>5, <1>10, <1>11, StepKeeps

\* A request that is saved: what it tracks fits, and its audit entry is not there.
LEMMA Saving ==
  ASSUME AdminInv, NEW u \in Unit, unit[u].pc = "save", NEW w, w = unit[u].work, NEW s, s = Saved(db, w)
  PROVE  /\ WorkFits(db, u, Home(u), w) /\ Advances(u, s.rows)
         /\ s.ok \in BOOLEAN /\ s.done \in 0 .. Len(w) /\ (s.ok => s.done = Len(w)) /\ (~s.ok => Postgres)
         /\ New1(u, "auditLog") \notin DOMAIN db /\ New1(u, "auditLog") \notin DOMAIN s.rows
         /\ \A i \in 1 .. Len(w) : w[i].kind # "auditLog" /\ w[i].id # New1(u, "auditLog")
         /\ Call(u).op \notin Unchecked /\ ~unit[u].failed /\ Call(u) \in CallsOf[u]
<1>1. RequestOK(u) /\ AuditOK(u) /\ Sound(db) /\ BackendOK
  BY AdministrationAssumption DEF AdminInv, Base, BackendOK
<1>2. WorkFits(db, u, Home(u), w)
  BY <1>1 DEF RequestOK
<1>3. PICK H : H = Home(u)
  OBVIOUS
<1>4. /\ Advances(u, s.rows) /\ s.ok \in BOOLEAN /\ s.done \in 0 .. Len(w)
      /\ \A id \in DOMAIN s.rows \ DOMAIN db :
            \E i \in 1 .. Len(w) : w[i].change = "added" /\ w[i].id = id
      /\ s.ok => s.done = Len(w)
      /\ ~s.ok => Postgres
  BY <1>1, <1>2, <1>3, SaveAdvances
<1>5. /\ New1(u, "auditLog") \notin DOMAIN db
      /\ \A i \in 1 .. Len(w) : w[i].kind # "auditLog" /\ w[i].id # New1(u, "auditLog")
      /\ Call(u).op \notin Unchecked /\ ~unit[u].failed
  BY <1>1 DEF AuditOK, Call
<1>6. Call(u) \in CallsOf[u]
  BY <1>1 DEF RequestOK, Call
<1>7. QED
  BY <1>2, <1>4, <1>5, <1>6

\* What is left to the close when the save has failed, whether or not it was committed.
LEMMA FailedSettles ==
  ASSUME AdminInv, Postgres, NEW u \in Unit, unit[u].pc = "save", NEW w, w = unit[u].work,
         NEW s, s = Saved(db, w), NEW done \in 0 .. s.done, NEW v, v = AfterFailure(w, done), NEW rows, NEW runs,
         rows = db \/ (s.ok /\ done = s.done /\ rows = s.rows)
  PROVE  Settled(u, rows, runs, "close", v, TRUE)
<1>1. /\ WorkFits(db, u, Home(u), w) /\ Advances(u, s.rows)
      /\ (s.ok => s.done = Len(w)) /\ s.done \in 0 .. Len(w)
      /\ New1(u, "auditLog") \notin DOMAIN db /\ New1(u, "auditLog") \notin DOMAIN s.rows
      /\ \A i \in 1 .. Len(w) : w[i].kind # "auditLog" /\ w[i].id # New1(u, "auditLog")
      /\ Call(u).op \notin Unchecked
  BY Saving
<1>2. done \in Nat /\ Len(w) \in Nat
  BY <1>1 DEF WorkFits, Tracker
<1>3. /\ WorkFits(db, u, Home(u), v) /\ Len(v) = Len(w)
      /\ \A i \in 1 .. Len(v) :
            /\ v[i].change = w[i].change /\ v[i].kind = w[i].kind /\ v[i].id = w[i].id
            /\ i <= done /\ v[i].change = "added" => v[i].stamped
  BY <1>1, <1>2, FailedFits
<1>4. WorkFits(rows, u, Home(u), v)
  <2>1. CASE rows = db
    BY <1>3, <2>1
  <2>2. CASE s.ok /\ done = s.done /\ rows = s.rows
    <3>1. \A i \in 1 .. Len(v) : v[i].change = "added" => v[i].stamped
      BY <1>1, <1>2, <1>3, <2>2
    <3>2. PICK H : H = Home(u)
      OBVIOUS
    <3>3. Evolves(db, s.rows, DOMAIN s.rows) /\ Sound(s.rows) /\ Sound(db)
      BY <1>1 DEF Advances, AdminInv, Base
    <3>4. WorkFits(s.rows, u, H, v)
      BY <1>3, <3>1, <3>2, <3>3, WorkStays
    <3>5. QED
      BY <2>2, <3>2, <3>4
  <2>3. QED
    BY <2>1, <2>2
<1>5. QED
  BY <1>1, <1>3, <1>4 DEF Settled

\* SaveChangesBehaviour.
LEMMA SaveKeeps ==
  ASSUME AdminInv, NEW u \in Unit, Save(u)
  PROVE  AdminInv'
<1>1. unit[u].pc = "save" /\ up /\ UNCHANGED <<backend, up, faults>>
  BY DEF Save, At
<1>2. PICK w : w = unit[u].work
  OBVIOUS
<1>3. PICK s : s = Saved(db, w)
  OBVIOUS
<1>4. /\ Advances(u, s.rows) /\ s.ok \in BOOLEAN /\ s.done \in 0 .. Len(w) /\ (~s.ok => Postgres)
      /\ New1(u, "auditLog") \notin DOMAIN db /\ New1(u, "auditLog") \notin DOMAIN s.rows
      /\ Call(u).op \notin Unchecked /\ ~unit[u].failed /\ Call(u) \in CallsOf[u]
  BY <1>1, <1>2, <1>3, Saving
<1>5. RequestOK(u) /\ Base /\ Sound(db)
  BY DEF AdminInv, Base
<1>6. PICK o : o = unit[u] /\ IsRequest(o)
  BY <1>5 DEF RequestOK, IsRequest, Request
<1>7. up' \in BOOLEAN /\ (up' => up) /\ faults' \in 0 .. MaxFaults
  BY <1>1, <1>5 DEF Base
<1>8. CASE s.ok
  <2>1. PICK v : v = AuditEntry(u)
    OBVIOUS
  <2>2. db' = s.rows /\ unit' = [unit EXCEPT ![u] = [[o EXCEPT !.pc = "close"] EXCEPT !.work = v]]
    BY <1>2, <1>3, <1>6, <1>8, <2>1 DEF Save, Commit
  <2>3. [[o EXCEPT !.pc = "close"] EXCEPT !.work = v]
           = Request("close", o.call, o.server, o.seen, v, o.failed, o.lost)
    BY <1>6, Closed
  <2>4. \A id \in DOMAIN InitialRows : Keeps(InitialRows, s.rows, id)
    BY <1>4, <1>5, InitialStay
  <2>5. WorkFits(s.rows, u, Home(u), v)
    BY <1>4, <2>1, <2>4, AuditFits
  <2>6. Settled(u, db', up', "close", v, o.failed)
    BY <1>4, <1>6, <2>1, <2>2, <2>5 DEF Settled
  <2>7. QED
    BY <1>1, <1>4, <1>6, <1>7, <2>2, <2>3, <2>6, SettleKeeps
<1>9. CASE ~s.ok
  <2>1. PICK v : v = AfterFailure(w, s.done)
    OBVIOUS
  <2>2. db' = db
    BY <1>2, <1>3, <1>9 DEF Save, Commit
  <2>3. PICK c : c = [o EXCEPT !.pc = "close"]
    OBVIOUS
  <2>4. c = Request("close", o.call, o.server, o.seen, o.work, o.failed, o.lost)
    BY <1>6, <2>3 DEF IsRequest, Request
  <2>5. /\ IsRequest(c) /\ c.pc = "close" /\ c.call = o.call /\ c.server = o.server /\ c.seen = o.seen
        /\ c.work = w /\ c.lost = o.lost
    BY <1>2, <1>6, <2>4 DEF IsRequest, Request
  <2>6. unit' = [unit EXCEPT ![u] = [c EXCEPT !.failed = TRUE, !.work = v]]
    BY <1>2, <1>3, <1>6, <1>9, <2>1, <2>3, <2>5 DEF Save, Commit
  <2>7. [c EXCEPT !.failed = TRUE, !.work = v]
           = Request("close", o.call, o.server, o.seen, v, TRUE, o.lost)
    <3>1. PICK yes : yes = TRUE
      OBVIOUS
    <3>2. IsRequest(c)
      BY <2>5
    <3>3. [c EXCEPT !.failed = yes, !.work = v] = Request(c.pc, c.call, c.server, c.seen, v, yes, c.lost)
      BY <3>2, Refused, Zenon
    <3>4. QED
      BY <2>5, <3>1, <3>3
  <2>8. Settled(u, db', up', "close", v, TRUE)
    <3>1. s.done \in 0 .. s.done
      BY <1>4
    <3>2. QED
      BY <1>1, <1>2, <1>3, <1>4, <1>9, <2>1, <2>2, <3>1, FailedSettles
  <2>9. Advances(u, db')
    BY <1>5, <2>2, Stays
  <2>10. QED
    BY <1>1, <1>6, <1>7, <2>6, <2>7, <2>8, <2>9, SettleKeeps
<1>10. QED
  BY <1>4, <1>8, <1>9

\* A transaction of SaveChangesBehaviour that fails in the database.
LEMMA SaveLostKeeps ==
  ASSUME AdminInv, NEW u \in Unit, SaveLost(u)
  PROVE  AdminInv'
<1>1. unit[u].pc = "save" /\ up /\ UNCHANGED <<backend, up>> /\ Postgres /\ Fault
  BY DEF SaveLost, At
<1>2. PICK w : w = unit[u].work
  OBVIOUS
<1>3. PICK s : s = Saved(db, w)
  OBVIOUS
<1>4. /\ Advances(u, s.rows) /\ s.ok \in BOOLEAN /\ s.done \in 0 .. Len(w) /\ Len(w) \in Nat
  BY <1>1, <1>2, <1>3, Saving DEF WorkFits, Tracker
<1>5. RequestOK(u) /\ Base /\ Sound(db)
  BY DEF AdminInv, Base
<1>6. PICK o : o = unit[u] /\ IsRequest(o)
  BY <1>5 DEF RequestOK, IsRequest, Request
<1>7. up' \in BOOLEAN /\ (up' => up) /\ faults' \in 0 .. MaxFaults
  BY <1>1, <1>5, AdministrationAssumption DEF Base, Fault
<1>8. PICK c : c = [o EXCEPT !.pc = "close", !.failed = TRUE, !.lost = TRUE]
  OBVIOUS
<1>9. c = Request("close", o.call, o.server, o.seen, o.work, TRUE, TRUE)
  <2>1. PICK yes : yes = TRUE
    OBVIOUS
  <2>2. PICK a : a = [o EXCEPT !.pc = "close"]
    OBVIOUS
  <2>3. PICK b : b = [a EXCEPT !.failed = yes]
    OBVIOUS
  <2>4. PICK d : d = [b EXCEPT !.lost = yes]
    OBVIOUS
  <2>5. a = Request("close", o.call, o.server, o.seen, o.work, o.failed, o.lost)
    BY <1>6, <2>2 DEF IsRequest, Request
  <2>6. b = Request("close", o.call, o.server, o.seen, o.work, yes, o.lost)
    BY <2>3, <2>5 DEF Request
  <2>7. d = Request("close", o.call, o.server, o.seen, o.work, yes, yes)
    BY <2>4, <2>6 DEF Request
  <2>8. c = d
    BY <1>8, <2>1, <2>2, <2>3, <2>4
  <2>9. QED
    BY <2>1, <2>7, <2>8
<1>10. c.work = w
  BY <1>2, <1>6, <1>9 DEF Request
<1>11. ASSUME NEW rows, NEW done \in 0 .. s.done, rows = db \/ (s.ok /\ done = s.done /\ rows = s.rows),
              Commit(u, rows, [c EXCEPT !.work = AfterFailure(w, done)])
       PROVE  AdminInv'
  <2>1. PICK v : v = AfterFailure(w, done)
    OBVIOUS
  <2>2. PICK d : d = [c EXCEPT !.work = v]
    OBVIOUS
  <2>3. d = Request("close", o.call, o.server, o.seen, v, TRUE, TRUE)
    BY <1>9, <2>2 DEF Request
  <2>4. unit' = [unit EXCEPT ![u] = d] /\ db' = rows
    BY <1>11, <2>1, <2>2 DEF Commit
  <2>5. Settled(u, db', up', "close", v, TRUE)
    BY <1>1, <1>2, <1>3, <1>11, <2>1, <2>4, FailedSettles
  <2>6. Advances(u, db')
    BY <1>4, <1>5, <1>11, <2>4, Stays
  <2>7. QED
    BY <1>1, <1>6, <1>7, <2>3, <2>4, <2>5, <2>6, SettleKeeps
<1>12. \/ \E done \in 0 .. s.done : Commit(u, db, [c EXCEPT !.work = AfterFailure(w, done)])
       \/ s.ok /\ Commit(u, s.rows, [c EXCEPT !.work = AfterFailure(w, s.done)])
  BY <1>2, <1>3, <1>6, <1>8, <1>10 DEF SaveLost
<1>13. s.done \in 0 .. s.done
  BY <1>4
<1>14. QED
  BY <1>11, <1>12, <1>13

\* The close of the scope: a request that succeeded has its audit entry left to save.
LEMMA CloseKeeps ==
  ASSUME AdminInv, NEW u \in Unit, Close(u)
  PROVE  AdminInv'
<1>1. unit[u].pc = "close" /\ up /\ UNCHANGED <<backend, faults>>
  BY DEF Close, At
<1>2. PICK w : w = unit[u].work
  OBVIOUS
<1>3. PICK s : s = Saved(db, w)
  OBVIOUS
<1>4. RequestOK(u) /\ AuditOK(u) /\ Base /\ Sound(db) /\ BackendOK
  BY AdministrationAssumption DEF AdminInv, Base, BackendOK
<1>5. PICK o : o = unit[u] /\ IsRequest(o)
  BY <1>4 DEF RequestOK, IsRequest, Request
<1>6. WorkFits(db, u, Home(u), w)
  BY <1>1, <1>2, <1>4 DEF RequestOK
<1>7. PICK a : a = New1(u, "auditLog")
  OBVIOUS
<1>8. /\ a \notin DOMAIN db
      /\ o.failed \/ o.call.op \in Unchecked => \A i \in 1 .. Len(w) : w[i].id # a
      /\ ~o.failed /\ o.call.op \notin Unchecked => w = AuditEntry(u)
      /\ o.call.by = "system" => o.server = Nil
  BY <1>1, <1>2, <1>4, <1>5, <1>7 DEF AuditOK, RequestOK
<1>9. PICK H : H = Home(u)
  OBVIOUS
<1>10. /\ Advances(u, s.rows) /\ s.ok \in BOOLEAN /\ s.done \in 0 .. Len(w)
       /\ \A id \in DOMAIN s.rows \ DOMAIN db :
             \E i \in 1 .. Len(w) : w[i].change = "added" /\ w[i].id = id
       /\ ~s.ok => s.done # Len(w)
  BY <1>3, <1>4, <1>6, <1>9, SaveAdvances
\* The tracker that is left to a request that succeeded.
<1>11. ASSUME ~o.failed, o.call.op \notin Unchecked, o.call.by # "system"
       PROVE  /\ s.ok => a \in DOMAIN s.rows /\ s.rows[a].kind = "auditLog" /\ s.rows[a].live
              /\ ~s.ok => w[s.done + 1].stamped = FALSE
  <2>1. PICK values : AuditEntry(u) = <<Insertion(a, "auditLog", values)>>
    BY <1>5, <1>7, <1>11 DEF AuditEntry, Call
  <2>2. PICK e : e = Insertion(a, "auditLog", values)
    OBVIOUS
  <2>3. e.change = "added" /\ e.kind = "auditLog" /\ e.id = a /\ e.stamped = FALSE
    BY <2>2 DEF Insertion, Entry
  <2>4. w = <<e>> /\ Len(w) = 1 /\ w[1] = e
    BY <1>8, <1>11, <2>1, <2>2
  <2>5. s = IF Executable(db, e) THEN [rows |-> Execute(db, e), ok |-> TRUE, done |-> 1]
            ELSE [rows |-> db, ok |-> FALSE, done |-> 0]
    BY <1>3, <2>4, SavedOne
  <2>6. EntryFits(db, u, e) /\ e.kind \in Kind /\ DOMAIN e.fields = Fields(e.kind)
    <3>1. Fits(db, u, Home(u), w, 1)
      BY <1>6, <2>4 DEF WorkFits
    <3>2. EntryFits(db, u, e)
      BY <2>4, <3>1 DEF Fits
    <3>3. QED
      BY <2>3, <3>2 DEF EntryFits, IsEntry
  <2>7. CASE Executable(db, e)
    <3>1. s.rows = Execute(db, e) /\ s.ok
      BY <2>5, <2>7
    <3>2. a \in DOMAIN s.rows /\ s.rows[a] = Row(e.kind, Stored(e))
      <4>1. e.id \notin DOMAIN db /\ e.stamped \in BOOLEAN
        BY <1>8, <2>3
      <4>2. BackendOK /\ e.kind \in Kind /\ DOMAIN e.fields = Fields(e.kind) /\ e.change = "added"
        BY <1>4, <2>3, <2>6
      <4>3. e.id \in DOMAIN db => Postgres /\ e.stamped
        BY <4>1
      <4>4. /\ DOMAIN Execute(db, e) = DOMAIN db \union {e.id}
            /\ Execute(db, e)[e.id] = Row(e.kind, Stored(e))
        BY <2>7, <4>1, <4>2, <4>3, ExecuteAdded
      <4>5. QED
        BY <2>3, <3>1, <4>4
    <3>3. QED
      BY <2>3, <3>1, <3>2 DEF Row
  <2>8. CASE ~Executable(db, e)
    BY <2>3, <2>4, <2>5, <2>8
  <2>9. QED
    BY <2>7, <2>8
<1>12. [o EXCEPT !.pc = "done", !.work = <<>>] = Request("done", o.call, o.server, o.seen, <<>>, o.failed, o.lost)
  BY <1>5, Closed
<1>13. Call(u) = o.call /\ Server(u) = o.server
  BY <1>5 DEF Call, Server
<1>14. CASE s.ok
  <2>1. db' = s.rows /\ unit' = [unit EXCEPT ![u] = [o EXCEPT !.pc = "done", !.work = <<>>]] /\ up' = up
    BY <1>2, <1>3, <1>5, <1>14 DEF Close, Commit
  <2>2. ASSUME a \in DOMAIN s.rows
        PROVE  s.rows[a].kind = "auditLog" /\ ~o.failed
    <3>1. PICK i \in 1 .. Len(w) : w[i].id = a
      BY <1>8, <1>10, <2>2
    <3>2. ~o.failed /\ o.call.op \notin Unchecked /\ w = AuditEntry(u)
      BY <1>8, <3>1
    <3>3. o.call.by # "system"
      <4>1. ASSUME o.call.by = "system" PROVE FALSE
        <5>1. w = <<>>
          BY <1>13, <3>2, <4>1 DEF AuditEntry
        <5>2. QED
          BY <3>1, <5>1
      <4>2. QED
        BY <4>1
    <3>4. QED
      BY <1>11, <1>14, <3>2, <3>3
  <2>3. Settled(u, s.rows, up', "done", <<>>, o.failed)
    BY <1>7, <1>8, <1>11, <1>13, <1>14, <2>2 DEF Settled
  <2>4. up' \in BOOLEAN /\ (up' => up) /\ faults' \in 0 .. MaxFaults
    BY <1>1, <1>4, <2>1 DEF Base
  <2>5. QED
    BY <1>1, <1>5, <1>10, <1>12, <2>1, <2>3, <2>4, SettleKeeps
<1>15. CASE ~s.ok
  <2>1. /\ db' = db /\ unit' = [unit EXCEPT ![u] = [o EXCEPT !.pc = "done", !.work = <<>>]]
        /\ up' = (w[s.done + 1].change = "added" /\ w[s.done + 1].stamped)
    BY <1>2, <1>3, <1>5, <1>15 DEF Close, Commit
  <2>2. s.done + 1 \in 1 .. Len(w)
    <3>1. s.done # Len(w) /\ Len(w) \in Nat
      BY <1>6, <1>10, <1>15 DEF WorkFits, Tracker
    <3>2. QED
      BY <1>10, <3>1
  <2>3. w[s.done + 1].stamped \in BOOLEAN
    BY <1>6, <2>2 DEF WorkFits, Fits, EntryFits, IsEntry
  <2>4. Settled(u, db, up', "done", <<>>, o.failed)
    BY <1>7, <1>8, <1>11, <1>13, <1>15, <2>1, <2>3 DEF Settled
  <2>5. up' \in BOOLEAN /\ (up' => up) /\ faults' \in 0 .. MaxFaults
    BY <1>1, <1>4, <2>1, <2>3 DEF Base
  <2>6. Advances(u, db')
    BY <1>4, <2>1, Stays
  <2>7. QED
    BY <1>1, <1>5, <1>12, <2>1, <2>4, <2>5, <2>6, SettleKeeps
<1>16. QED
  BY <1>10, <1>14, <1>15

-----------------------------------------------------------------------------
(* The theorems.                                                           *)

LEMMA AdminStutters == ASSUME AdminInv, UNCHANGED vars PROVE AdminInv'
<1>1. backend' = backend /\ db' = db /\ unit' = unit /\ up' = up /\ faults' = faults
  BY DEF vars
<1>2. \A id \in DOMAIN InitialRows : Keeps(InitialRows, db, id)' <=> Keeps(InitialRows, db, id)
  BY <1>1, KeepsSame
<1>3. Base'
  BY <1>1, <1>2 DEF AdminInv, Base, Postgres
<1>4. ASSUME NEW u \in Unit PROVE (RequestOK(u) /\ AuditOK(u))'
  <2>1. RequestOK(u) /\ AuditOK(u)
    BY DEF AdminInv
  <2>2. /\ Call(u)' = Call(u) /\ Server(u)' = Server(u) /\ Home(u)' = Home(u)
        /\ AuditEntry(u)' = AuditEntry(u) /\ (Seen(u)' <=> Seen(u))
    BY <1>1 DEF Call, Server, Home, AuditEntry, Seen, Postgres
  <2>3. PICK w : w = unit[u].work
    OBVIOUS
  <2>4. WorkFits(db, u, Home(u), w)' <=> WorkFits(db, u, Home(u), w)
    BY <1>1, <2>2, WorkFitsSame
  <2>5. RequestOK(u)'
    BY <1>1, <2>1, <2>2, <2>3, <2>4 DEF RequestOK
  <2>6. AuditOK(u)'
    BY <1>1, <2>1, <2>2 DEF AuditOK
  <2>7. QED
    BY <2>5, <2>6
<1>5. QED
  BY <1>3, <1>4 DEF AdminInv

\* Every step preserves the invariant.
LEMMA AdminNext == ASSUME AdminInv, [Next]_vars PROVE AdminInv'
<1>1. CASE UNCHANGED vars
  BY <1>1, AdminStutters
<1>2. ASSUME NEW u \in Unit, Admit(u) PROVE AdminInv'
  BY <1>2, AdmitKeeps
<1>3. ASSUME NEW u \in Unit, Handle(u) PROVE AdminInv'
  BY <1>3, HandleKeeps
<1>4. ASSUME NEW u \in Unit, Save(u) PROVE AdminInv'
  BY <1>4, SaveKeeps
<1>5. ASSUME NEW u \in Unit, SaveLost(u) PROVE AdminInv'
  BY <1>5, SaveLostKeeps
<1>6. ASSUME NEW u \in Unit, Close(u) PROVE AdminInv'
  BY <1>6, CloseKeeps
<1>7. QED
  BY <1>1, <1>2, <1>3, <1>4, <1>5, <1>6 DEF Next

\* The invariant holds always: the database is sound, every request has seen the server it
\* is addressed to, and what it tracks fits the rows, whatever the others have done.
THEOREM AdminInvariant == Spec => []AdminInv
BY AdminInit, AdminNext, PTL DEF Spec

\* Rows have the fields of their kind, whatever the handlers set and SaveChanges stores,
\* and so have the entities that are tracked.
THEOREM AdministrationTyping == Spec => []TypeOK
<1>1. ASSUME AdminInv PROVE TypeOK
  <2>1. backend \in Backends /\ up \in BOOLEAN /\ faults \in 0 .. MaxFaults
    BY <1>1 DEF AdminInv, Base
  <2>2. ASSUME NEW id \in DOMAIN db PROVE db[id].kind \in Kind /\ DOMAIN db[id].fields = Fields(db[id].kind)
    BY <1>1 DEF AdminInv, Base, Sound, Whole, Complete
  <2>3. ASSUME NEW u \in Unit PROVE unit[u].pc \in {"idle", "handle", "save", "close", "done"}
    BY <1>1 DEF AdminInv, RequestOK
  <2>4. ASSUME NEW u \in Unit, NEW e \in Range(unit[u].work), e.change \in {"added", "updated"}
        PROVE  DOMAIN e.fields = Fields(e.kind)
    <3>1. PICK w : w = unit[u].work
      OBVIOUS
    <3>2. w = <<>> \/ WorkFits(db, u, Home(u), w)
      BY <1>1, <3>1 DEF AdminInv, RequestOK
    <3>3. DOMAIN w = 1 .. Len(w)
      BY <3>2 DEF WorkFits, Tracker
    <3>4. PICK i \in 1 .. Len(w) : e = w[i]
      BY <2>4, <3>1, <3>3 DEF Range
    <3>5. WorkFits(db, u, Home(u), w)
      BY <3>2, <3>4
    <3>6. EntryFits(db, u, e)
      BY <3>4, <3>5 DEF WorkFits, Fits
    <3>7. QED
      BY <2>4, <3>6 DEF EntryFits
  <2>5. QED
    BY <2>1, <2>2, <2>3, <2>4 DEF TypeOK
<1>2. QED
  BY <1>1, AdminInvariant, PTL

\* Tenants are apart, for every handler on both back ends: whatever requests of other
\* virtual servers do between the lookups of a handler, the transaction that stores what it
\* tracked, and the close of the scope that stores it again, no row comes to refer to a row
\* of another virtual server.
THEOREM TenantsStayApart == Spec => []TenantsApart
<1>1. ASSUME AdminInv PROVE TenantsApart
  BY <1>1 DEF AdminInv, Base, Sound, TenantsApart
<1>2. QED
  BY <1>1, AdminInvariant, PTL

\* The audit log tells what happened, also when a transaction is lost and the close of the
\* scope saves again: only a request that succeeded has an entry, and one that has a policy
\* has it when it is over.
THEOREM AuditTrailKept == Spec => []AuditTrail
<1>1. ASSUME AdminInv PROVE AuditTrail
  <2>1. ASSUME NEW u \in Unit PROVE AuditOK(u)
    BY <1>1 DEF AdminInv
  <2>2. QED
    BY <2>1 DEF AuditOK, AuditTrail, Logged, Succeeded, IsLive, Call, Server
<1>2. QED
  BY <1>1, AdminInvariant, PTL

-----------------------------------------------------------------------------
(* What a request reaches.                                                 *)

Happens(u) == Admit(u) \/ Handle(u) \/ Save(u) \/ SaveLost(u) \/ Close(u)

\* A step changes the database by a handler on the memory back end, or by a transaction.
LEMMA StepChanges ==
  ASSUME AdminInv, NEW u \in Unit, Happens(u)
  PROVE  /\ backend' = backend /\ \A v \in Unit \ {u} : unit'[v] = unit[v]
         /\ \/ db' = db
            \/ /\ ~Postgres /\ unit[u].pc = "handle"
               /\ \E set, ok, w : MaySet(u, set) /\ Return(u, ok, set, w)
            \/ /\ unit[u].pc \in {"save", "close"} /\ Saved(db, unit[u].work).ok
               /\ db' = Saved(db, unit[u].work).rows
<1>1. RequestOK(u) /\ Base
  BY DEF AdminInv
<1>2. CASE Admit(u)
  <2>1. backend' = backend /\ db' = db
    BY <1>2 DEF Admit
  <2>2. \A v \in Unit \ {u} : unit'[v] = unit[v]
    BY <1>2 DEF Admit
  <2>3. QED
    BY <2>1, <2>2
<1>3. CASE Handle(u)
  <2>1. unit[u].pc = "handle"
    BY <1>3, HandleSteps
  <2>2. Ready(u)
    BY <1>1, <2>1, AdministrationAssumption DEF RequestOK, Base, Ready, Call, Server, BackendOK
  <2>3. PICK set, w : Legit(u, set, w) /\ (Return(u, TRUE, set, w) \/ Return(u, FALSE, set, w))
    BY <1>3, <2>2, HandleHandled DEF Handled, Returns, Refuses
  <2>4. PICK ok : Return(u, ok, set, w)
    BY <2>3
  <2>5. /\ backend' = backend /\ (Postgres => db' = db)
        /\ \A v \in Unit \ {u} : unit'[v] = unit[v]
    <3>1. PICK pc, failed : /\ pc = IF ok /\ Call(u).op \notin Unchecked THEN "save" ELSE "close"
                            /\ failed = ~ok
      OBVIOUS
    <3>2. unit' = [unit EXCEPT ![u].pc = pc, ![u].failed = failed, ![u].work = w]
      BY <2>4, <3>1 DEF Return
    <3>3. PICK r : r = [unit[u] EXCEPT !.pc = pc, !.failed = failed, !.work = w]
      OBVIOUS
    <3>4. unit' = [unit EXCEPT ![u] = r]
      BY <1>1, <3>2, <3>3 DEF Base
    <3>5. \A v \in Unit \ {u} : unit'[v] = unit[v]
      BY <1>1, <3>4 DEF Base
    <3>6. QED
      BY <2>4, <3>5 DEF Return
  <2>6. MaySet(u, set)
    BY <2>3 DEF Legit
  <2>7. QED
    BY <2>1, <2>4, <2>5, <2>6
<1>4. CASE Save(u) \/ SaveLost(u) \/ Close(u)
  <2>1. PICK s : s = Saved(db, unit[u].work)
    OBVIOUS
  <2>2. backend' = backend /\ unit[u].pc \in {"save", "close"}
    BY <1>4 DEF Save, SaveLost, Close, At
  <2>3. \E rows, rest : Commit(u, rows, rest) /\ (rows = db \/ (s.ok /\ rows = s.rows))
    <3>1. CASE Save(u)
      <4>1. PICK closing : closing = [unit[u] EXCEPT !.pc = "close"]
        OBVIOUS
      <4>2. IF s.ok THEN Commit(u, s.rows, [closing EXCEPT !.work = AuditEntry(u)])
            ELSE Commit(u, db, [closing EXCEPT !.failed = TRUE, !.work = AfterFailure(@, s.done)])
        BY <2>1, <3>1, <4>1 DEF Save
      <4>3. QED
        BY <4>2
    <3>2. CASE SaveLost(u)
      BY <2>1, <3>2, Zenon DEF SaveLost
    <3>3. CASE Close(u)
      BY <2>1, <3>3, Zenon DEF Close
    <3>4. QED
      BY <1>4, <3>1, <3>2, <3>3
  <2>4. PICK rows, rest : Commit(u, rows, rest) /\ (rows = db \/ (s.ok /\ rows = s.rows))
    BY <2>3
  <2>5. db' = rows /\ \A v \in Unit \ {u} : unit'[v] = unit[v]
    BY <2>4 DEF Commit
  <2>6. QED
    BY <2>1, <2>2, <2>4, <2>5
<1>5. QED
  BY <1>2, <1>3, <1>4 DEF Happens

\* A handler that sets fields changes, on the memory back end, what it may.
LEMMA ReturnReaches ==
  ASSUME Sound(db), ~Postgres, NEW u, NEW set, MaySet(u, set), NEW ok, NEW w, Return(u, ok, set, w)
  PROVE  Reaches(u, db')
<1>1. db' = [id \in DOMAIN db |-> IF id \in DOMAIN set THEN SetOn(db[id], set[id]) ELSE db[id]]
  BY DEF Return
<1>2. Evolves(db, db', DOMAIN db') /\ DOMAIN db' = DOMAIN db
  BY ReturnAdvances DEF Advances
<1>3. ASSUME NEW id \in DOMAIN db, db'[id] # db[id] PROVE Permits(u, db', id)
  <2>1. PICK row : row = db[id]
    OBVIOUS
  <2>2. PICK fields : fields = set[id] ++ row.fields
    OBVIOUS
  <2>3. id \in DOMAIN set /\ db'[id] = [row EXCEPT !.fields = fields]
    BY <1>1, <1>3, <2>1, <2>2 DEF SetOn
  <2>4. Complete(row)
    BY <2>1 DEF Sound, Whole
  <2>5. db'[id] = [kind |-> row.kind, fields |-> fields, version |-> row.version, live |-> row.live]
    BY <2>3, <2>4 DEF Complete
  <2>6. MayChange(db, Home(u), id, DOMAIN set[id])
    BY <2>3 DEF MaySet
  <2>7. \A c \in Fields(row.kind) \ DOMAIN set[id] : fields[c] = row.fields[c]
    BY <2>2, <2>4 DEF ++, Complete
  <2>8. db'[id].fields = fields /\ db'[id].live = row.live
    BY <2>5
  <2>9. QED
    BY <2>1, <2>6, <2>7, <2>8 DEF Permits
<1>4. QED
  BY <1>2, <1>3 DEF Reaches

\* A row that a transaction adds is as it was tracked.
LEMMA AddedRow ==
  ASSUME NEW rows, NEW u, NEW H, NEW w, WorkFits(rows, u, H, w), NEW r, Effects(rows, w, r, Len(w)),
         NEW id \in DOMAIN r \ DOMAIN rows
  PROVE  \E i \in 1 .. Len(w) :
            /\ w[i].id = id /\ w[i].change = "added" /\ Fits(rows, u, H, w, i)
            /\ ~(Postgres /\ w[i].stamped) /\ r[id].kind = w[i].kind
            /\ \A c \in Fields(w[i].kind) \ {"requireEmailVerification"} : r[id].fields[c] = w[i].fields[c]
<1>1. PICK i \in 1 .. Len(w) : w[i].id = id
  BY DEF Effects
<1>2. PICK e : e = w[i]
  OBVIOUS
<1>3. Fits(rows, u, H, w, i) /\ EntryFits(rows, u, e) /\ e.kind \in Kind /\ Effected(rows, r, e)
  BY <1>2 DEF WorkFits, Fits, EntryFits, IsEntry, Effects
<1>4. e.change = "added" /\ DOMAIN e.fields = Fields(e.kind)
  BY <1>1, <1>2, <1>3 DEF EntryFits
<1>5. r[id] = Row(e.kind, Stored(e)) /\ ~(Postgres /\ e.stamped)
  BY <1>1, <1>2, <1>3, <1>4 DEF Effected
<1>6. r[id].kind = e.kind /\ r[id].fields = Stored(e)
  BY <1>5 DEF Row
<1>7. \A c \in Fields(e.kind) \ {"requireEmailVerification"} : Stored(e)[c] = e.fields[c]
  BY <1>3, <1>4, AllInserted DEF Stored
<1>8. QED
  BY <1>1, <1>2, <1>3, <1>4, <1>5, <1>6, <1>7

\* SaveChanges changes what the entries of the tracker may.
LEMMA SavedReaches ==
  ASSUME AdminInv, NEW u \in Unit, unit[u].pc \in {"save", "close"}, NEW s, s = Saved(db, unit[u].work), s.ok
  PROVE  Reaches(u, s.rows)
<1>1. RequestOK(u) /\ AuditOK(u) /\ Base /\ Sound(db) /\ BackendOK
  BY AdministrationAssumption DEF AdminInv, Base, BackendOK
<1>2. PICK w, H : w = unit[u].work /\ H = Home(u)
  OBVIOUS
<1>3. WorkFits(db, u, H, w)
  BY <1>1, <1>2 DEF RequestOK
<1>4. PICK r : r = s.rows
  OBVIOUS
<1>5. Advances(u, r) /\ After(db, H, w, r, Len(w)) /\ Effects(db, w, r, Len(w))
  <2>1. /\ Advances(u, s.rows) /\ s.done = Len(w)
        /\ After(db, H, w, s.rows, s.done) /\ Effects(db, w, s.rows, s.done)
    BY <1>1, <1>2, <1>3, SaveAdvances
  <2>2. QED
    BY <1>4, <2>1
<1>6. ASSUME NEW id \in DOMAIN db, r[id] # db[id] PROVE Permits(u, r, id)
  <2>1. PICK i \in 1 .. Len(w) : w[i].id = id
    BY <1>5, <1>6 DEF Effects
  <2>2. PICK e : e = w[i]
    OBVIOUS
  <2>3. Fits(db, u, H, w, i) /\ EntryFits(db, u, e) /\ Effected(db, r, e)
    BY <1>3, <1>5, <2>2 DEF WorkFits, Fits, Effects
  <2>4. e.change \in {"updated", "deleted"} /\ e.kind = db[id].kind
    BY <1>6, <2>1, <2>2, <2>3 DEF EntryFits, Effected
  <2>5. CASE e.change = "updated"
    <3>1. MayChange(db, H, id, e.changed)
      BY <2>1, <2>2, <2>3, <2>5 DEF Fits
    <3>2. /\ \A c \in Fields(e.kind) \ e.changed : r[id].fields[c] = db[id].fields[c]
          /\ db[id].live => r[id].live
      BY <2>1, <2>2, <2>3, <2>5 DEF Effected
    <3>3. QED
      BY <1>2, <2>4, <3>1, <3>2 DEF Permits
  <2>6. CASE e.change = "deleted"
    <3>1. MayChange(db, H, id, SystemFields) /\ r[id].fields = db[id].fields
      BY <2>1, <2>2, <2>3, <2>6 DEF Fits, Effected
    <3>2. QED
      BY <1>2, <3>1 DEF Permits
  <2>7. QED
    BY <2>4, <2>5, <2>6
<1>7. ASSUME NEW id \in DOMAIN r \ DOMAIN db
      PROVE  /\ IF r[id].kind = "auditLog" THEN r[id].fields.virtualServerId = Server(u)
                ELSE Owned(r, H, id)
             /\ r[id].kind = "role" => MayHold(db, u, r[id].fields.projectId)
             /\ r[id].kind = "assignment" => MayGrant(db, u, r[id].fields.roleId)
  <2>1. PICK i \in 1 .. Len(w) :
            /\ w[i].id = id /\ w[i].change = "added" /\ Fits(db, u, H, w, i)
            /\ ~(Postgres /\ w[i].stamped) /\ r[id].kind = w[i].kind
            /\ \A c \in Fields(w[i].kind) \ {"requireEmailVerification"} : r[id].fields[c] = w[i].fields[c]
    BY <1>3, <1>5, AddedRow
  <2>2. PICK e : e = w[i]
    OBVIOUS
  <2>3. GrantsNothing(db, u, e)
    BY <2>1, <2>2 DEF Fits
  <2>4. ASSUME r[id].kind = "role" PROVE MayHold(db, u, r[id].fields.projectId)
    <3>1. "projectId" \in Fields("role")
      BY DEF Fields, EntityOf, Entity, Role_entity
    <3>2. r[id].fields.projectId = e.fields.projectId
      BY <2>1, <2>2, <2>4, <3>1
    <3>3. QED
      BY <2>1, <2>2, <2>3, <2>4, <3>2 DEF GrantsNothing
  <2>5. ASSUME r[id].kind = "assignment" PROVE MayGrant(db, u, r[id].fields.roleId)
    <3>1. "roleId" \in Fields("assignment")
      BY DEF Fields, EntityOf, Entity, Assignment_entity
    <3>2. r[id].fields.roleId = e.fields.roleId
      BY <2>1, <2>2, <2>5, <3>1
    <3>3. QED
      BY <2>1, <2>2, <2>3, <2>5, <3>2 DEF GrantsNothing
  <2>6. ASSUME r[id].kind # "auditLog" PROVE Owned(r, H, id)
    BY <1>5, <2>1, <2>6 DEF After
  <2>7. ASSUME r[id].kind = "auditLog" PROVE r[id].fields.virtualServerId = Server(u)
    <3>1. w = AuditEntry(u)
      BY <1>1, <1>2, <2>1, <2>7 DEF AuditOK
    <3>2. PICK values : values = [virtualServerId |-> Server(u), userId |-> Call(u).who, requestType |-> Call(u).op,
              request |-> Blank, response |-> Blank, allowed |-> TRUE, allowReasonType |-> "permission",
              allowReason |-> Blank]
      OBVIOUS
    <3>3. w # <<>>
      BY <2>1
    <3>4. w = <<Insertion(New1(u, "auditLog"), "auditLog", values)>>
      BY <3>1, <3>2, <3>3 DEF AuditEntry
    <3>5. e = Insertion(New1(u, "auditLog"), "auditLog", values)
      BY <2>1, <2>2, <3>4
    <3>6. e.fields = New("auditLog", values)
      BY <3>5 DEF Insertion, Entry
    <3>7. /\ DOMAIN values \subseteq Fields("auditLog") /\ EntityOf["auditLog"].given \subseteq DOMAIN values
          /\ "virtualServerId" \in DOMAIN values /\ values["virtualServerId"] = Server(u)
      BY <3>2 DEF Fields, EntityOf, AuditLog_entity, Entity
    <3>8. e.fields["virtualServerId"] = Server(u)
      BY <3>6, <3>7, NewFields
    <3>9. "virtualServerId" \in Fields("auditLog")
      BY <3>7
    <3>10. r[id].fields["virtualServerId"] = e.fields["virtualServerId"]
      BY <2>1, <2>2, <2>7, <3>9
    <3>11. QED
      BY <3>8, <3>10
  <2>8. QED
    BY <2>4, <2>5, <2>6, <2>7
<1>8. QED
  BY <1>2, <1>4, <1>5, <1>6, <1>7 DEF Reaches, Advances

\* Every step of a request stays within its virtual server.
LEMMA StepReaches ==
  ASSUME AdminInv, NEW u \in Unit, Happens(u)
  PROVE  Reaches(u, db')
<1>1. Sound(db) /\ \A id \in DOMAIN db : Complete(db[id])
  BY DEF AdminInv, Base, Sound, Whole
<1>2. CASE db' = db
  <2>1. Evolves(db, db, DOMAIN db)
    BY <1>1, EvolvesNot
  <2>2. QED
    BY <1>2, <2>1 DEF Reaches
<1>3. CASE /\ ~Postgres /\ unit[u].pc = "handle"
           /\ \E set, ok, w : MaySet(u, set) /\ Return(u, ok, set, w)
  BY <1>1, <1>3, ReturnReaches
<1>4. CASE /\ unit[u].pc \in {"save", "close"} /\ Saved(db, unit[u].work).ok
           /\ db' = Saved(db, unit[u].work).rows
  BY <1>4, SavedReaches
<1>5. QED
  BY <1>2, <1>3, <1>4, StepChanges

\* Whose step it is: the one whose request changes.
LEMMA NextHappens ==
  ASSUME AdminInv, [Next]_vars, vars' # vars
  PROVE  \E u \in Unit : Happens(u) /\ \A v \in Unit \ {u} : unit'[v] = unit[v]
<1>1. PICK u \in Unit : Happens(u)
  BY DEF Next, Happens
<1>2. QED
  BY <1>1, StepChanges

\* Requests of one virtual server do not change the rows of another, however they
\* interleave and whichever transaction fails; one that creates a virtual server changes
\* rows of the new one.
THEOREM ChangesStay == Spec => ChangesStayInTenant
<1>1. ASSUME AdminInv, AdminInv', [Next]_vars, NEW u \in Unit, unit'[u] # unit[u], Server(u) # Nil,
             NEW id \in Touched
      PROVE  ServerOf(id)' \in {Nil, Server(u), New1(u, "virtualServer")}
  <2>1. Happens(u)
    <3>1. vars' # vars
      BY <1>1 DEF vars
    <3>2. QED
      BY <1>1, <3>1, NextHappens
  <2>2. Reaches(u, db')
    BY <1>1, <2>1, StepReaches
  <2>3. RequestOK(u) /\ Sound(db) /\ \A i \in DOMAIN db : Whole(db, i)
    BY <1>1 DEF AdminInv, Base, Sound
  <2>4. db' # db
    BY <1>1 DEF Touched
  <2>5. unit[u].pc \in {"handle", "save", "close"}
    <3>1. \/ unit[u].pc = "handle"
          \/ unit[u].pc \in {"save", "close"}
      BY <1>1, <2>1, <2>4, StepChanges
    <3>2. QED
      BY <3>1
  <2>6. Home(u) \in {Server(u), New1(u, "virtualServer")}
    <3>1. Call(u) \in CallsOf[u] /\ Call(u).by # "system"
      BY <1>1, <2>3, <2>5 DEF RequestOK, Call, Server
    <3>2. Call(u).op # "SetPassword"
      BY <3>1, CallsAssumption
    <3>3. QED
      BY <3>2 DEF Home
  <2>7. ServerIn(db', id) \in {Nil, Server(u), Home(u)}
    <3>1. CASE id \in DOMAIN db
      <4>1. Permits(u, db', id)
        BY <1>1, <2>2, <3>1 DEF Touched, Reaches
      <4>2. db[id].kind # "auditLog" /\ Owned(db, Home(u), id)
        BY <4>1 DEF Permits, MayChange
      <4>3. Owned(db', Home(u), id)
        BY <2>2, <2>3, <3>1, <4>2, OwnedStays DEF Reaches
      <4>4. QED
        BY <4>3 DEF Owned
    <3>2. CASE id \notin DOMAIN db
      <4>1. /\ id \in DOMAIN db' \ DOMAIN db
            /\ IF db'[id].kind = "auditLog" THEN db'[id].fields.virtualServerId = Server(u)
               ELSE Owned(db', Home(u), id)
        BY <1>1, <2>2, <3>2 DEF Touched, Reaches
      <4>2. "virtualServerId" \in Fields("auditLog")
        BY DEF Fields, EntityOf, Entity, AuditLog_entity
      <4>3. db'[id].kind = "auditLog" => ServerIn(db', id) = Server(u)
        BY <4>1, <4>2 DEF ServerIn
      <4>4. QED
        BY <4>1, <4>3 DEF Owned
    <3>3. QED
      BY <3>1, <3>2
  <2>8. QED
    BY <2>6, <2>7 DEF ServerOf
<1>2. ASSUME AdminInv, AdminInv', [Next]_vars
      PROVE  [\A u \in Unit : unit'[u] # unit[u] /\ Server(u) # Nil =>
                 \A id \in Touched : ServerOf(id)' \in {Nil, Server(u), New1(u, "virtualServer")}]_vars
  BY <1>1, <1>2
<1>3. QED
  BY <1>2, AdminInvariant, PTL DEF Spec, ChangesStayInTenant

\* What makes somebody an administrator is out of reach of every call but the ones that
\* create a virtual server, which make administrators of that one: no request changes the
\* roles of a system project that there is, or who has them, nor deletes its application
\* or changes the script and the redirect addresses of it.
THEOREM SystemProjectStays == Spec => SystemProjectKept
<1>1. ASSUME AdminInv, [Next]_vars
      PROVE  \/ vars' = vars
             \/ \E u \in Unit : Reaches(u, db')
  <2>1. ASSUME vars' # vars PROVE \E u \in Unit : Reaches(u, db')
    <3>1. PICK u \in Unit : Happens(u)
      BY <1>1, <2>1, NextHappens
    <3>2. QED
      BY <1>1, <3>1, StepReaches
  <2>2. QED
    BY <2>1
<1>2. ASSUME AdminInv, NEW u \in Unit, Reaches(u, db')
      PROVE  /\ \A id \in DOMAIN db : SystemRole(id) \/ Grants(id) => db'[id] = db[id]
             /\ \A id \in DOMAIN db' \ DOMAIN db : SystemRole(id)' => db'[id].fields.projectId \notin DOMAIN db
             /\ \A id \in DOMAIN db' \ DOMAIN db : Grants(id)' => db'[id].fields.roleId \notin DOMAIN db
             /\ \A id \in Rows("application") : db[id].fields.systemApplication =>
                   /\ db'[id].live
                   /\ \A c \in SystemFields : db'[id].fields[c] = db[id].fields[c]
  <2>1. /\ Evolves(db, db', DOMAIN db') /\ \A i \in DOMAIN db : Whole(db, i) /\ Keeps(db, db', i)
    BY <1>2 DEF Reaches, Evolves, AdminInv, Base, Sound
  <2>2. ASSUME NEW id \in DOMAIN db, SystemRole(id) \/ Grants(id), db'[id] # db[id] PROVE FALSE
    <3>1. PICK fields : MayChange(db, Home(u), id, fields)
      BY <1>2, <2>2 DEF Reaches, Permits
    <3>2. QED
      BY <2>2, <3>1 DEF MayChange, SystemRole, Grants
  <2>3. ASSUME NEW id \in DOMAIN db' \ DOMAIN db, SystemRole(id)', db'[id].fields.projectId \in DOMAIN db
        PROVE  FALSE
    <3>1. PICK p : p = db'[id].fields.projectId
      OBVIOUS
    <3>2. db'[id].kind = "role" /\ db'[p].fields.systemProject
      BY <2>3, <3>1 DEF SystemRole
    <3>3. db[p].kind = "project" /\ ~db[p].fields.systemProject
      BY <1>2, <2>3, <3>1, <3>2 DEF Reaches, MayHold
    <3>4. IsFixed("project", "systemProject")
      BY DEF IsFixed
    <3>5. QED
      BY <2>1, <2>3, <3>1, <3>2, <3>3, <3>4 DEF Keeps
  <2>4. ASSUME NEW id \in DOMAIN db' \ DOMAIN db, Grants(id)', db'[id].fields.roleId \in DOMAIN db
        PROVE  FALSE
    <3>1. PICK p : p = db'[id].fields.roleId
      OBVIOUS
    <3>2. db'[id].kind = "assignment" /\ SystemRole(p)'
      BY <2>4, <3>1 DEF Grants, SystemRole
    <3>3. db[p].kind = "role" /\ ~db[db[p].fields.projectId].fields.systemProject
      BY <1>2, <2>4, <3>1, <3>2 DEF Reaches, MayGrant
    <3>4. ~db'[db'[p].fields.projectId].fields.systemProject
      BY <2>1, <2>4, <3>1, <3>3, SystemStays
    <3>5. QED
      BY <3>2, <3>4 DEF SystemRole
  <2>5. ASSUME NEW id \in Rows("application"), db[id].fields.systemApplication
        PROVE  /\ db'[id].live
               /\ \A c \in SystemFields : db'[id].fields[c] = db[id].fields[c]
    <3>1. id \in DOMAIN db /\ db[id].live /\ db[id].kind = "application"
      BY <2>5 DEF Rows
    <3>2. CASE db'[id] = db[id]
      BY <3>1, <3>2
    <3>3. CASE db'[id] # db[id]
      <4>1. PICK fields :
               /\ MayChange(db, Home(u), id, fields)
               /\ \A c \in Fields(db[id].kind) \ fields : db'[id].fields[c] = db[id].fields[c]
               /\ db[id].live /\ ~db'[id].live => SystemFields \subseteq fields
        BY <1>2, <3>1, <3>3 DEF Reaches, Permits
      <4>2. fields \intersect SystemFields = {}
        BY <2>5, <3>1, <4>1 DEF MayChange
      <4>3. SystemFields \subseteq Fields("application") /\ SystemFields # {}
        BY DEF Fields, EntityOf, Entity, Application_entity, SystemFields
      <4>4. QED
        BY <3>1, <4>1, <4>2, <4>3
    <3>4. QED
      BY <3>2, <3>3
  <2>6. QED
    BY <2>2, <2>3, <2>4, <2>5
<1> DEFINE A == /\ \A id \in DOMAIN db : SystemRole(id) \/ Grants(id) => db'[id] = db[id]
                /\ \A id \in DOMAIN db' \ DOMAIN db : SystemRole(id)' => db'[id].fields.projectId \notin DOMAIN db
                /\ \A id \in DOMAIN db' \ DOMAIN db : Grants(id)' => db'[id].fields.roleId \notin DOMAIN db
                /\ \A id \in Rows("application") : db[id].fields.systemApplication =>
                      /\ db'[id].live
                      /\ \A c \in SystemFields : db'[id].fields[c] = db[id].fields[c]
<1>3. ASSUME AdminInv, [Next]_vars PROVE A \/ vars' = vars
  BY <1>1, <1>2, <1>3
<1>4. ASSUME AdminInv, [Next]_vars PROVE [A]_vars
  BY <1>3, <1>4
<1>5. QED
  BY <1>4, AdminInvariant, PTL DEF Spec, SystemProjectKept

\* A transaction stores what the handler tracked, whatever other requests have changed
\* since the handler read the rows: an update is written only if nobody else has.
THEOREM SavedIsTracked == Spec => SavedAsTracked
<1>1. ASSUME AdminInv, [Next]_vars, NEW u \in Unit, Postgres, unit'[u] # unit[u], db' # db,
             NEW e \in Range(unit[u].work)
      PROVE  /\ e.change = "deleted" => ~IsLive(db', e.id)
             /\ e.change = "added" \/ (e.change = "updated" /\ e.changed # {}) =>
                   \A c \in DOMAIN e.fields \ {"requireEmailVerification"} : db'[e.id].fields[c] = e.fields[c]
  <2>1. Happens(u)
    <3>1. vars' # vars
      BY <1>1 DEF vars
    <3>2. QED
      BY <1>1, <3>1, NextHappens
  <2>2. PICK w, s : w = unit[u].work /\ s = Saved(db, w)
    OBVIOUS
  <2>3. unit[u].pc \in {"save", "close"} /\ s.ok /\ db' = s.rows
    BY <1>1, <2>1, <2>2, StepChanges
  <2>4. RequestOK(u) /\ Sound(db) /\ BackendOK
    BY <1>1, AdministrationAssumption DEF AdminInv, Base, BackendOK
  <2>5. WorkFits(db, u, Home(u), w)
    BY <2>2, <2>3, <2>4 DEF RequestOK
  <2>6. Effects(db, w, db', Len(w))
    <3>1. Effects(db, w, s.rows, s.done) /\ s.done = Len(w)
      BY <2>2, <2>3, <2>4, <2>5, SaveAdvances
    <3>2. QED
      BY <2>3, <3>1
  <2>7. PICK i \in 1 .. Len(w) : e = w[i]
    <3>1. DOMAIN w = 1 .. Len(w)
      BY <2>5 DEF WorkFits, Tracker
    <3>2. QED
      BY <1>1, <2>2, <3>1 DEF Range
  <2>8. EntryFits(db, u, e) /\ e.kind \in Kind /\ Effected(db, db', e)
    BY <2>5, <2>6, <2>7 DEF WorkFits, Fits, EntryFits, IsEntry, Effects
  <2>9. CASE e.change = "deleted"
    BY <2>8, <2>9 DEF Effected, IsLive
  <2>10. CASE e.change = "added"
    <3>1. DOMAIN e.fields = Fields(e.kind) /\ db'[e.id] = Row(e.kind, Stored(e))
      BY <2>8, <2>10 DEF EntryFits, Effected
    <3>2. db'[e.id].fields = Stored(e)
      BY <3>1 DEF Row
    <3>3. \A c \in Fields(e.kind) \ {"requireEmailVerification"} : Stored(e)[c] = e.fields[c]
      BY <2>8, <3>1, AllInserted DEF Stored
    <3>4. QED
      BY <2>10, <3>1, <3>2, <3>3
  <2>11. CASE e.change = "updated" /\ e.changed # {}
    <3>1. PICK row : row = db[e.id]
      OBVIOUS
    <3>2. /\ e.id \in DOMAIN db /\ row.kind = e.kind /\ DOMAIN e.fields = Fields(e.kind)
          /\ db'[e.id] = Updated(row, e) /\ row.version = e.version
          /\ \A c \in Fields(e.kind) \ e.changed : e.fields[c] = row.fields[c]
      BY <1>1, <2>8, <2>11, <3>1 DEF EntryFits, Effected
    <3>3. Complete(row)
      BY <2>4, <3>1, <3>2 DEF Sound, Whole
    <3>4. Updated(row, e).fields = Written(row, e)
      <4>1. PICK new : new = Updated(row, e)
        OBVIOUS
      <4>2. new = [kind |-> row.kind, fields |-> Written(row, e), version |-> row.version + 1, live |-> row.live]
        BY <3>3, <4>1 DEF Updated, Complete
      <4>3. QED
        BY <4>1, <4>2
    <3>5. \A c \in Fields(e.kind) : Written(row, e)[c] = e.fields[c]
      <4>1. DOMAIN row.fields = Fields(e.kind)
        BY <3>2, <3>3 DEF Complete
      <4>2. \A c \in Fields(e.kind) : Written(row, e)[c] = IF c \in e.changed THEN e.fields[c] ELSE row.fields[c]
        BY <4>1 DEF Written
      <4>3. QED
        BY <3>2, <4>2
    <3>6. QED
      BY <2>11, <3>2, <3>4, <3>5
  <2>12. QED
    BY <2>9, <2>10, <2>11
<1>2. ASSUME AdminInv, [Next]_vars
      PROVE  [\A u \in Unit : Postgres /\ unit'[u] # unit[u] /\ db' # db =>
                 \A e \in Range(unit[u].work) :
                    /\ e.change = "deleted" => ~IsLive(db', e.id)
                    /\ e.change = "added" \/ (e.change = "updated" /\ e.changed # {}) =>
                          \A c \in DOMAIN e.fields \ {"requireEmailVerification"} :
                              db'[e.id].fields[c] = e.fields[c]]_vars
  BY <1>1, <1>2
<1>3. QED
  BY <1>2, AdminInvariant, PTL DEF Spec, SavedAsTracked

-----------------------------------------------------------------------------
(* What queries answer.                                                    *)

\* A row that a query addressed to the virtual server s may answer.
Answerable(s, id) ==
    /\ ServerOf(id) \in {Nil, s}
    /\ db[id].kind = "appUserMetadata" => ServerOf(db[id].fields.applicationId) = s

\* The kinds that are asked for by their virtual server.
Listed == {"application", "auditLog", "group", "passwordRule", "project", "resourceServer",
           "role", "scope", "template", "user"}

\* Both back ends look at the virtual server that is asked for.
LEMMA ListedByServer ==
  ASSUME NEW kind \in Listed, BackendOK
  PROVE  /\ kind # "virtualServer" /\ kind # "appUserMetadata"
         /\ "virtualServerId" \in Fields(kind) /\ "virtualServerId" \in Where(backend, kind)
<1>1. "virtualServerId" \in Fields(kind)
  <2> USE DEF Fields, EntityOf, Entity, Listed
  <2>1. CASE kind \in {"application", "auditLog", "group", "passwordRule", "project"}
    BY <2>1 DEF Application_entity, AuditLog_entity, Group_entity, PasswordRule_entity, Project_entity
  <2>2. CASE kind \in {"resourceServer", "role", "scope", "template"}
    BY <2>2 DEF ResourceServer_entity, Role_entity, Scope_entity, Template_entity
  <2>3. CASE kind = "user"
    BY <2>3 DEF User_entity
  <2>4. QED
    BY <2>1, <2>2, <2>3
<1>2. "virtualServerId" \in Where(backend, kind)
  <2> USE DEF Where, ReadOf, Read, ReadAs, MatchesOf, Matches
  <2>1. CASE kind = "application"
    BY <2>1 DEF Application_read, Application_memory
  <2>2. CASE kind = "auditLog"
    BY <2>2 DEF AuditLog_read, AuditLog_memory
  <2>3. CASE kind = "group"
    BY <2>3 DEF Group_read, Group_memory
  <2>4. CASE kind = "passwordRule"
    BY <2>4 DEF PasswordRule_read, PasswordRule_memory
  <2>5. CASE kind = "project"
    BY <2>5 DEF Project_read, Project_memory
  <2>6. CASE kind = "resourceServer"
    BY <2>6 DEF ResourceServer_read, ResourceServer_memory
  <2>7. CASE kind = "role"
    BY <2>7 DEF Role_read, Role_memory
  <2>8. CASE kind = "scope"
    BY <2>8 DEF Scope_read, Scope_memory
  <2>9. CASE kind = "template"
    BY <2>9 DEF Template_read, Template_memory
  <2>10. CASE kind = "user"
    BY <2>10 DEF User_read, User_memory
  <2>11. QED
    BY <2>1, <2>2, <2>3, <2>4, <2>5, <2>6, <2>7, <2>8, <2>9, <2>10 DEF Listed
<1>3. kind # "virtualServer" /\ kind # "appUserMetadata"
  BY DEF Listed
<1>4. QED
  BY <1>1, <1>2, <1>3

\* What a query finds satisfies the conditions that the back end looks at.
LEMMA FoundRow ==
  ASSUME NEW kind, NEW filter, NEW id \in Found(kind, filter)
  PROVE  /\ id \in DOMAIN db /\ db[id].live /\ db[id].kind = kind
         /\ \A c \in DOMAIN filter \intersect Where(backend, kind) :
               Holds(c, filter[c], id, db[id].fields)
BY DEF Found, Select, SelectOn, Rows

\* A query for the rows of a virtual server answers such rows only, whatever else it asks.
LEMMA FoundInIsOf ==
  ASSUME BackendOK, NEW s, NEW kind \in Listed, NEW filter, NEW id \in FoundIn(s, kind, filter)
  PROVE  /\ id \in DOMAIN db /\ db[id].live /\ db[id].kind = kind
         /\ ServerOf(id) = s /\ Answerable(s, id)
<1>1. PICK f : f = [virtualServerId |-> s] ++ filter
  OBVIOUS
<1>2. "virtualServerId" \in DOMAIN f /\ f["virtualServerId"] = s
  BY <1>1 DEF ++
<1>3. id \in Found(kind, f)
  BY <1>1 DEF FoundIn
<1>4. /\ id \in DOMAIN db /\ db[id].live /\ db[id].kind = kind
      /\ Holds("virtualServerId", s, id, db[id].fields)
  BY <1>2, <1>3, FoundRow, ListedByServer
<1>5. db[id].fields.virtualServerId = s
  BY <1>4 DEF Holds
<1>6. ServerOf(id) = s
  BY <1>4, <1>5, ListedByServer DEF ServerOf, ServerIn
<1>7. QED
  BY <1>4, <1>6, ListedByServer DEF Answerable

\* So does one for the rows of a project.
LEMMA FoundInProjectIsOf ==
  ASSUME BackendOK, NEW s, NEW slug, NEW kind \in Listed, NEW filter,
         NEW id \in FoundInProject(s, slug, kind, filter)
  PROVE  /\ id \in DOMAIN db /\ db[id].live /\ db[id].kind = kind
         /\ ServerOf(id) = s /\ Answerable(s, id)
<1>1. PICK p \in GetProject(s, slug) : id \in FoundIn(s, kind, [projectId |-> p] ++ filter)
  BY DEF FoundInProject
<1>2. PICK f : f = [projectId |-> p] ++ filter
  OBVIOUS
<1>3. QED
  BY <1>1, <1>2, FoundInIsOf

\* The passkeys of a user and its metadata are of the user's virtual server, and so are the
\* applications that the metadata is for.
LEMMA FoundOfOwner ==
  ASSUME BackendOK, Sound(db), NEW s, NEW user, NEW id \in GetUser(s, user),
         NEW kind \in {"credential", "appUserMetadata"}, NEW filter,
         "userId" \in DOMAIN filter, filter["userId"] = id, NEW x \in Found(kind, filter)
  PROVE  Answerable(s, x)
<1>1. id \in DOMAIN db /\ db[id].kind = "user" /\ ServerOf(id) = s
  <2>1. "user" \in Listed
    BY DEF Listed
  <2>2. PICK f : f = [id |-> user]
    OBVIOUS
  <2>3. id \in FoundIn(s, "user", f)
    BY <2>2 DEF GetUser
  <2>4. QED
    BY <2>1, <2>3, FoundInIsOf
<1>2. db[id].fields.virtualServerId = s
  BY <1>1, Searched DEF ServerOf, ServerIn
<1>3. "userId" \in Where(backend, kind)
  BY DEF BackendOK, Where, ReadOf, Read, ReadAs, MatchesOf, Matches, Credential_read, Credential_memory,
         AppUserMetadata_read, AppUserMetadata_memory
<1>4. x \in DOMAIN db /\ db[x].kind = kind /\ Holds("userId", id, x, db[x].fields)
  BY <1>3, FoundRow
<1>5. db[x].fields.userId = id
  BY <1>4 DEF Holds
<1>6. "virtualServerId" \notin Fields(kind) /\ "userId" \in Fields(kind) /\ kind # "virtualServer"
  BY DEF Fields, EntityOf, Entity, Credential_entity, AppUserMetadata_entity, NoFields
<1>7. ServerOf(x) = s
  BY <1>2, <1>4, <1>5, <1>6 DEF ServerOf, ServerIn
<1>8. ASSUME kind = "appUserMetadata" PROVE ServerOf(db[x].fields.applicationId) = s
  <2>1. PICK a : a = db[x].fields.applicationId
    OBVIOUS
  <2>2. "applicationId" \in DOMAIN RefersTo(kind) /\ RefersTo(kind)["applicationId"] = "application"
    BY <1>8 DEF RefersTo, TableOf, AppUserMetadata_table, Table
  <2>3. a \in DOMAIN db /\ db[a].kind = "application"
    BY <1>4, <2>1, <2>2 DEF Sound, Whole
  <2>4. a # Nil /\ Whole(db, a)
    BY <2>3 DEF Sound
  <2>5. ServerIn(db, a) \in {Nil, s}
    BY <1>4, <1>7, <1>8, <2>1, <2>2, <2>4 DEF Sound, Apart, ServerOf
  <2>6. ServerIn(db, a) = db[a].fields.virtualServerId
    BY <2>3 DEF ServerIn, Fields, EntityOf, Entity, Application_entity
  <2>7. db[a].fields.virtualServerId \in DOMAIN db
    <3>1. "virtualServerId" \in DOMAIN RefersTo("application")
      BY DEF RefersTo, TableOf, Application_table, Table
    <3>2. QED
      BY <2>3, <2>4, <3>1 DEF Whole
  <2>8. QED
    BY <2>1, <2>5, <2>6, <2>7 DEF Sound, ServerOf
<1>9. QED
  BY <1>4, <1>7, <1>8 DEF Answerable

\* The users that have a role are of its virtual server, although the role is not asked for
\* in the project.
LEMMA FoundInRole ==
  ASSUME BackendOK, Sound(db), NEW s \in DOMAIN db, NEW slug, NEW r \in Select("role", [virtualServerId |-> s]),
         NEW id \in ListUsersInRole(s, slug, r)
  PROVE  Answerable(s, id)
<1>1. PICK a \in Found("assignment", [roleId |-> r]) : id = db[a].fields.userId
  BY DEF ListUsersInRole
<1>2. r \in DOMAIN db /\ db[r].kind = "role" /\ db[r].fields.virtualServerId = s
  <2>1. r \in First("role", [virtualServerId |-> s]) /\ r \in DOMAIN db
    BY DEF First, Select, SelectOn, Rows
  <2>2. r # Nil
    BY <2>1 DEF Sound
  <2>3. PICK f : f = [virtualServerId |-> s]
    OBVIOUS
  <2>4. "virtualServerId" \in DOMAIN f /\ f["virtualServerId"] = s
    BY <2>3
  <2>5. "role" \in Listed
    BY DEF Listed
  <2>6. db[r].kind = "role" /\ Holds("virtualServerId", s, r, db[r].fields)
    BY <2>1, <2>2, <2>3, <2>4, <2>5, LookedUp, ListedByServer
  <2>7. QED
    BY <2>1, <2>6 DEF Holds
<1>3. a \in DOMAIN db /\ db[a].kind = "assignment" /\ db[a].fields.roleId = r
  <2>1. "roleId" \in Where(backend, "assignment")
    BY DEF BackendOK, Where, ReadOf, Read, ReadAs, MatchesOf, Matches, Assignment_read, Assignment_memory
  <2>2. PICK f : f = [roleId |-> r]
    OBVIOUS
  <2>3. "roleId" \in DOMAIN f /\ f["roleId"] = r
    BY <2>2
  <2>4. a \in DOMAIN db /\ db[a].kind = "assignment" /\ Holds("roleId", r, a, db[a].fields)
    BY <1>1, <2>1, <2>2, <2>3, FoundRow
  <2>5. QED
    BY <2>4 DEF Holds
<1>4. /\ "roleId" \in DOMAIN RefersTo("assignment")
      /\ "userId" \in DOMAIN RefersTo("assignment") /\ RefersTo("assignment")["userId"] = "user"
  BY DEF RefersTo, TableOf, Assignment_table, Table
<1>5. id \in DOMAIN db /\ db[id].kind = "user"
  BY <1>1, <1>3, <1>4 DEF Sound, Whole
<1>6. ServerIn(db, r) = s
  BY <1>2 DEF ServerIn, Fields, EntityOf, Entity, Role_entity
<1>7. ServerIn(db, r) \in {Nil, ServerIn(db, a)}
  <2>1. r # Nil /\ Apart(db, a)
    BY <1>2, <1>3 DEF Sound
  <2>2. QED
    BY <1>3, <1>4, <2>1 DEF Apart
<1>8. s # Nil
  BY DEF Sound
<1>9. ServerIn(db, a) = db[id].fields.virtualServerId
  BY <1>1, <1>3 DEF ServerIn, Fields, EntityOf, Entity, Assignment_entity, NoFields
<1>10. ServerIn(db, id) = db[id].fields.virtualServerId
  BY <1>5, Searched DEF ServerIn
<1>11. QED
  BY <1>5, <1>6, <1>7, <1>8, <1>9, <1>10 DEF Answerable, ServerOf

\* A template and its file: a file is of no virtual server.
LEMMA FoundTemplate ==
  ASSUME BackendOK, NEW s, NEW type, NEW id \in GetTemplate(s, type)
  PROVE  Answerable(s, id)
<1>1. PICK f : f = [templateType |-> type]
  OBVIOUS
<1>2. PICK t \in FoundIn(s, "template", f) : id = t \/ id \in Found("file", [id |-> db[t].fields.fileId])
  BY <1>1 DEF GetTemplate
<1>3. "template" \in Listed
  BY DEF Listed
<1>4. CASE id = t
  BY <1>2, <1>3, <1>4, FoundInIsOf
<1>5. CASE id \in Found("file", [id |-> db[t].fields.fileId])
  <2>1. db[id].kind = "file"
    BY <1>5, FoundRow
  <2>2. QED
    BY <2>1 DEF Answerable, ServerOf, ServerIn, Fields, EntityOf, Entity, File_entity, NoFields
<1>6. QED
  BY <1>2, <1>4, <1>5

\* On PostgreSQL a virtual server is found by its name, and no other is.
LEMMA FoundByName ==
  ASSUME Postgres, Distinct(db), NEW s \in Rows("virtualServer")
  PROVE  Found("virtualServer", [name |-> db[s].fields.name]) = {s}
<1>1. PICK f : f = [name |-> db[s].fields.name]
  OBVIOUS
<1>2. DOMAIN f = {"name"} /\ f["name"] = db[s].fields.name
  BY <1>1
<1>3. "name" \in Where(backend, "virtualServer")
  BY DEF Postgres, Where, ReadOf, Read, ReadAs, VirtualServer_read
<1>4. Readable("virtualServer")
  BY DEF Readable, ReadOf, Read, ReadAs, VirtualServer_read
<1>5. ASSUME NEW x
      PROVE  x \in Found("virtualServer", f) <=>
                x \in Rows("virtualServer") /\ db[x].fields.name = db[s].fields.name
  <2>1. Holds("name", f["name"], x, db[x].fields) <=> db[x].fields["name"] = f["name"]
    BY DEF Holds
  <2>2. QED
    BY <1>2, <1>3, <1>4, <2>1 DEF Found, Select, SelectOn
<1>6. {"name"} \in TableOf["virtualServer"].unique /\ DOMAIN RefersTo("virtualServer") = {}
  BY DEF TableOf, RefersTo, VirtualServer_table, Table
<1>7. ASSUME NEW x \in Rows("virtualServer"), db[x].fields.name = db[s].fields.name
      PROVE  x = s
  <2>1. /\ s \in DOMAIN db /\ db[s].live /\ db[s].kind = "virtualServer"
        /\ x \in DOMAIN db /\ db[x].live /\ db[x].kind = "virtualServer"
    BY <1>7 DEF Rows
  <2>2. \A c \in {"name"} : db[x].fields[c] = db[s].fields[c]
    BY <1>7
  <2>3. QED
    BY <1>6, <2>1, <2>2 DEF Distinct
<1>8. QED
  BY <1>1, <1>5, <1>7

\* Between requests, a query answers rows of the virtual server it is addressed to, whatever
\* the commands before have stored; ListUsersInRole if it is asked for a role of that server.
\* On PostgreSQL the name of a server finds it alone.
THEOREM AnswersStay == Spec => []AnswersStayInTenant
<1>1. ASSUME AdminInv PROVE AnswersStayInTenant
  <2>1. BackendOK /\ Sound(db) /\ (Postgres => Distinct(db))
    BY <1>1, AdministrationAssumption DEF AdminInv, Base, BackendOK
  <2>2. {"application", "auditLog", "group", "passwordRule", "project", "resourceServer",
         "role", "scope", "template", "user"} \subseteq Listed
    BY DEF Listed
  <2>3. ASSUME NEW s \in Rows("virtualServer"), NEW id \in Answers(s) PROVE Answerable(s, id)
    <3>1. s \in DOMAIN db
      BY <2>3 DEF Rows
    <3>2. CASE id \in ListProjects(s) \union ListUsers(s) \union ListGroups(s) \union ListPasswordRules(s)
                        \union ListTemplates(s) \union ListAuditEntries(s)
      <4>1. \E kind \in Listed : id \in FoundIn(s, kind, NoFilter)
        BY <2>2, <3>2 DEF ListProjects, ListUsers, ListGroups, ListPasswordRules, ListTemplates, ListAuditEntries
      <4>2. QED
        BY <2>1, <4>1, FoundInIsOf
    <3>3. CASE id \in GetTemplate(s, "email_verification")
      BY <2>1, <3>3, FoundTemplate
    <3>4. ASSUME NEW user, id \in ListPasskeys(s, user) PROVE Answerable(s, id)
      <4>1. PICK of \in GetUser(s, user) : id \in Found("credential", [userId |-> of, type |-> "webauthn"])
        BY <3>4 DEF ListPasskeys
      <4>2. PICK f : f = [userId |-> of, type |-> "webauthn"]
        OBVIOUS
      <4>3. "userId" \in DOMAIN f /\ f["userId"] = of
        BY <4>2
      <4>4. QED
        BY <2>1, <4>1, <4>2, <4>3, FoundOfOwner
    <3>5. ASSUME NEW user, id \in GetUserMetadata(s, user, All) PROVE Answerable(s, id)
      <4>1. PICK of \in GetUser(s, user) :
               \E a : id \in Found("appUserMetadata", [applicationIds |-> a, userId |-> of])
        BY <3>5 DEF GetUserMetadata
      <4>2. PICK apps : id \in Found("appUserMetadata", [applicationIds |-> apps, userId |-> of])
        BY <4>1
      <4>3. PICK f : f = [applicationIds |-> apps, userId |-> of]
        OBVIOUS
      <4>4. "userId" \in DOMAIN f /\ f["userId"] = of
        BY <4>3
      <4>5. QED
        BY <2>1, <4>1, <4>2, <4>3, <4>4, FoundOfOwner
    <3>6. ASSUME NEW slug, NEW r,
                 \/ id \in ListApplications(s, slug) \union ListRoles(s, slug) \union ListResourceServers(s, slug)
                 \/ id \in GetApplication(s, slug, r) \/ id \in GetRole(s, slug, r)
                 \/ id \in GetResourceServer(s, slug, r)
          PROVE  Answerable(s, id)
      <4>1. \E kind \in Listed : \E f : id \in FoundInProject(s, slug, kind, f)
        BY <2>2, <3>6 DEF ListApplications, ListRoles, ListResourceServers, GetApplication, GetRole, GetResourceServer
      <4>2. QED
        BY <2>1, <4>1, FoundInProjectIsOf
    <3>7. ASSUME NEW slug, NEW r, NEW scope,
                 \/ id \in ListResourceServerScopes(s, slug, r)
                 \/ id \in GetResourceServerScope(s, slug, r, scope)
          PROVE  Answerable(s, id)
      <4>1. \E f : id \in FoundInProject(s, slug, "scope", f)
        BY <3>7 DEF ListResourceServerScopes, GetResourceServerScope
      <4>2. QED
        BY <2>1, <2>2, <4>1, FoundInProjectIsOf
    <3>8. ASSUME NEW slug, NEW r \in Select("role", [virtualServerId |-> s]), id \in ListUsersInRole(s, slug, r)
          PROVE  Answerable(s, id)
      BY <2>1, <3>1, <3>8, FoundInRole
    <3>9. QED
      BY <2>3, <3>2, <3>3, <3>4, <3>5, <3>6, <3>7, <3>8 DEF Answers
  <2>4. ASSUME NEW s \in Rows("virtualServer"), Postgres
        PROVE  LET name == db[s].fields.name IN
               GetVirtualServer(name) = {s} /\ GetVirtualServerPublicInfo(name) = {s}
    BY <2>1, <2>4, FoundByName DEF GetVirtualServer, GetVirtualServerPublicInfo
  <2>5. QED
    BY <2>3, <2>4 DEF AnswersStayInTenant, Answerable
<1>2. QED
  BY <1>1, AdminInvariant, PTL

-----------------------------------------------------------------------------
(* What a request that was refused leaves.                                 *)

\* What cannot be executed on PostgreSQL stays so, whatever happens to the rows: a unique
\* column is taken for good, a row that is gone does not come back, the version of a row
\* grows, and what refers to a row stays.  Only the name of an application can become free.
LEMMA StuckStays ==
  ASSUME Postgres, NEW rows, Sound(rows), NEW r, NEW new, Evolves(rows, r, new), Sound(r), NEW u, NEW H, NEW e,
         EntryFits(rows, u, e), ~Executable(rows, e),
         e.change = "added" =>
            /\ e.kind # "application"
            /\ \A c \in DOMAIN RefersTo(e.kind) : (c = "groupId" /\ e.fields[c] = Nil) \/ Refers(rows, H, e, c)
  PROVE  ~Executable(r, e)
<1>1. backend # "memory" /\ e.kind \in Kind
  BY DEF Postgres, EntryFits, IsEntry
<1>2. ASSUME NEW id \in DOMAIN rows PROVE id \in DOMAIN r /\ Keeps(rows, r, id) /\ Whole(rows, id) /\ id # Nil
  BY DEF Evolves, Keeps, Sound
<1>3. CASE e.change = "added"
  <2>1. e.stamped \/ Conflicts(rows, e) \/ Dangles(rows, e)
    BY <1>1, <1>3 DEF Executable
  <2>2. CASE e.stamped
    BY <1>1, <1>3, <2>2 DEF Executable
  <2>3. CASE Conflicts(rows, e)
    <3>1. PICK id \in DOMAIN rows \ {e.id}, columns \in TableOf[e.kind].unique :
            /\ rows[id].live /\ rows[id].kind = e.kind
            /\ \A c \in columns : rows[id].fields[c] = e.fields[c]
            /\ \A c \in columns \intersect DOMAIN RefersTo(e.kind) : e.fields[c] # Nil
      BY <2>3 DEF Conflicts
    <3>2. e.kind \notin Removed
      BY <1>1, <1>3, <3>1, References DEF Removed
    <3>3. r[id].live /\ r[id].kind = e.kind
      BY <1>2, <3>1, <3>2 DEF Keeps
    <3>4. \A c \in columns : r[id].fields[c] = e.fields[c]
      BY <1>2, <3>1 DEF Keeps, IsFixed
    <3>5. id \in DOMAIN r \ {e.id}
      BY <1>2, <3>1
    <3>6. Conflicts(r, e)
      BY <3>1, <3>3, <3>4, <3>5 DEF Conflicts
    <3>7. QED
      BY <1>1, <1>3, <3>6 DEF Executable
  <2>4. CASE Dangles(rows, e)
    <3>1. PICK c \in DOMAIN RefersTo(e.kind) :
            /\ e.fields[c] # Nil
            /\ IsLive(rows, e.fields[c]) => rows[e.fields[c]].kind # RefersTo(e.kind)[c]
      BY <2>4 DEF Dangles
    <3>2. Refers(rows, H, e, c)
      BY <1>3, <3>1
    <3>3. e.fields[c] \in DOMAIN rows /\ ~rows[e.fields[c]].live
      BY <3>1, <3>2 DEF Refers, IsLive
    <3>4. ~r[e.fields[c]].live
      BY <1>2, <3>3 DEF Keeps
    <3>5. Dangles(r, e)
      BY <3>1, <3>4 DEF Dangles, IsLive
    <3>6. QED
      BY <1>1, <1>3, <3>5 DEF Executable
  <2>5. QED
    BY <2>1, <2>2, <2>3, <2>4
<1>4. CASE e.change = "updated"
  <2>1. e.id \in DOMAIN rows /\ e.version \in Nat /\ e.version <= rows[e.id].version
    BY <1>4 DEF EntryFits
  <2>2. e.changed # {} /\ (~(e.changed \subseteq WriteOf[e.kind].updated) \/ ~IsLive(rows, e.id)
                             \/ rows[e.id].version # e.version)
    BY <1>4 DEF Executable
  <2>3. ~IsLive(rows, e.id) => ~IsLive(r, e.id)
    BY <1>2, <2>1 DEF Keeps, IsLive
  <2>4. rows[e.id].version # e.version => r[e.id].version # e.version
    <3>1. r[e.id].version >= rows[e.id].version /\ rows[e.id].version \in Nat /\ r[e.id].version \in Nat
      BY <1>2, <2>1 DEF Keeps, Sound, Whole, Complete
    <3>2. QED
      BY <2>1, <3>1
  <2>5. QED
    BY <1>1, <1>4, <2>2, <2>3, <2>4 DEF Executable
<1>5. CASE e.change = "deleted"
  <2>1. e.id \in DOMAIN rows /\ rows[e.id].kind = e.kind /\ e.kind \in Removed
    BY <1>5 DEF EntryFits
  <2>2. ASSUME Referenced(rows, e.id) PROVE Referenced(r, e.id)
    <3>1. PICK id \in DOMAIN rows : \E c \in DOMAIN RefersTo(rows[id].kind) :
            rows[id].live /\ rows[id].fields[c] = e.id
      BY <2>2 DEF Referenced
    <3>2. PICK c \in DOMAIN RefersTo(rows[id].kind) : rows[id].live /\ rows[id].fields[c] = e.id
      BY <3>1
    <3>3. RefersTo(rows[id].kind)[c] = e.kind /\ rows[id].kind \in Kind
      BY <1>2, <2>1, <3>2 DEF Whole, Complete
    <3>4. rows[id].kind \notin Removed
      BY <2>1, <3>3, References
    <3>5. r[id].live /\ r[id].kind = rows[id].kind /\ r[id].fields[c] = e.id
      BY <1>2, <3>2, <3>4 DEF Keeps, IsFixed
    <3>6. QED
      BY <1>2, <3>2, <3>5 DEF Referenced
  <2>3. QED
    BY <1>1, <1>5, <2>2 DEF Executable
<1>6. QED
  BY <1>3, <1>4, <1>5 DEF EntryFits

\* What a step adds to the history.
LEMMA StepRecords ==
  ASSUME AdminInv, NEW u \in Unit, Happens(u)
  PROVE  /\ wrote' \subseteq wrote \union {u} /\ (db' = db => wrote' = wrote)
         /\ overlap => overlap'
         /\ unit[u].pc \in {"idle", "handle", "save", "close"}
         /\ unit[u].pc = "idle" /\ ~overlap' => \A v \in Unit \ {u} : ~Running(v)
<1>1. CASE Admit(u)
  BY <1>1 DEF Admit, At
<1>2. CASE Handle(u)
  <2>1. unit[u].pc = "handle"
    BY <1>2, HandleSteps
  <2>2. RequestOK(u) /\ Base
    BY DEF AdminInv
  <2>3. Ready(u)
    BY <2>1, <2>2, AdministrationAssumption DEF RequestOK, Base, Ready, Call, Server, BackendOK
  <2>4. PICK set, w, ok : Return(u, ok, set, w)
    BY <1>2, <2>3, HandleHandled DEF Handled, Returns, Refuses
  <2>5. QED
    BY <2>1, <2>4 DEF Return
<1>3. CASE Save(u) \/ SaveLost(u) \/ Close(u)
  <2>1. overlap' = overlap /\ unit[u].pc \in {"save", "close"}
    BY <1>3 DEF Save, SaveLost, Close, At
  <2>2. \E rows, rest : Commit(u, rows, rest)
    <3>1. CASE Save(u)
      <4>1. PICK s, closing : s = Saved(db, unit[u].work) /\ closing = [unit[u] EXCEPT !.pc = "close"]
        OBVIOUS
      <4>2. IF s.ok THEN Commit(u, s.rows, [closing EXCEPT !.work = AuditEntry(u)])
            ELSE Commit(u, db, [closing EXCEPT !.failed = TRUE, !.work = AfterFailure(@, s.done)])
        BY <3>1, <4>1 DEF Save
      <4>3. QED
        BY <4>2
    <3>2. CASE SaveLost(u)
      BY <3>2, Zenon DEF SaveLost
    <3>3. CASE Close(u)
      BY <3>3, Zenon DEF Close
    <3>4. QED
      BY <1>3, <3>1, <3>2, <3>3
  <2>3. PICK rows, rest : Commit(u, rows, rest)
    BY <2>2
  <2>4. QED
    BY <2>1, <2>3 DEF Commit
<1>4. QED
  BY <1>1, <1>2, <1>3 DEF Happens

\* That the requests run alone is a matter of how they overlap.
LEMMA AloneStays ==
  ASSUME AdminInv, RefusedInv, NEW u \in Unit, Happens(u)
  PROVE  Alone'
<1>1. /\ overlap => overlap'
      /\ unit[u].pc \in {"idle", "handle", "save", "close"}
      /\ unit[u].pc = "idle" /\ ~overlap' => \A v \in Unit \ {u} : ~Running(v)
  BY StepRecords
<1>2. \A v \in Unit \ {u} : Running(v)' <=> Running(v)
  BY StepChanges DEF Running
<1>3. ASSUME ~overlap', NEW v \in Unit \ {u} PROVE ~Running(v)'
  <2>1. unit[u].pc # "idle" => Running(u)
    BY <1>1 DEF Running
  <2>2. QED
    BY <1>1, <1>2, <1>3, <2>1 DEF RefusedInv, Alone
<1>4. QED
  BY <1>3 DEF Alone

\* A request that was refused is not helped by a step of another one.
LEMMA OthersRefused ==
  ASSUME AdminInv, AdminInv', RefusedInv, NEW u \in Unit, Happens(u), NEW v \in Unit \ {u}
  PROVE  RefusedOK(v)'
<1>1. /\ backend' = backend /\ unit'[v] = unit[v] /\ wrote' \subseteq wrote \union {u}
      /\ overlap => overlap'
  BY StepChanges, StepRecords
<1>2. Evolves(db, db', DOMAIN db') /\ Sound(db) /\ Sound(db')
  BY StepReaches DEF Reaches, AdminInv, Base
<1>3. RefusedOK(v) /\ RequestOK(v) /\ (Postgres' <=> Postgres)
  BY <1>1 DEF RefusedInv, AdminInv, Postgres
<1>4. Spared(v)' => Spared(v)
  BY <1>1 DEF Spared, Call
<1>5. PICK w : w = unit[v].work
  OBVIOUS
<1>6. Single(v, w)' <=> Single(v, w)
  BY <1>1 DEF Single, Call
<1>7. ASSUME Postgres, unit[v].pc = "close", Spared(v)', w # <<>>
      PROVE  ~Executable(db', w[1])
  <2>1. ~Executable(db, w[1]) /\ Single(v, w)
    BY <1>3, <1>4, <1>5, <1>7 DEF RefusedOK
  <2>2. PICK H : H = Home(v)
    OBVIOUS
  <2>3. w = <<w[1]>> /\ WorkFits(db, v, H, w)
    BY <1>3, <1>5, <1>7, <2>1, <2>2 DEF Single, RequestOK
  <2>4. Len(w) = 1
    BY <2>3
  <2>5. PICK e : e = w[1]
    OBVIOUS
  <2>6. Fits(db, v, H, w, 1) /\ EntryFits(db, v, e)
    BY <2>3, <2>4, <2>5 DEF WorkFits, Fits
  <2>7. ASSUME e.change = "added" PROVE e.kind # "application"
    <3>1. ASSUME e.kind = "application" PROVE FALSE
      <4>1. Call(v).op = "CreateApplication"
        BY <1>7, <2>1, <2>5, <2>7, <3>1 DEF Single
      <4>2. ~overlap'
        BY <1>1, <1>7, <4>1 DEF Spared, Call
      <4>3. Running(v)
        BY <1>7 DEF Running
      <4>4. QED
        BY <1>1, <4>2, <4>3, StepRecords DEF RefusedInv, Alone, Running
    <3>2. QED
      BY <3>1
  <2>8. ASSUME e.change = "added", NEW c \in DOMAIN RefersTo(e.kind)
        PROVE  (c = "groupId" /\ e.fields[c] = Nil) \/ Refers(db, H, e, c)
    BY <2>5, <2>6, <2>8 DEF Fits
  <2>9. ~Executable(db', e)
    BY <1>2, <1>7, <2>1, <2>5, <2>6, <2>7, <2>8, StuckStays
  <2>10. QED
    BY <2>5, <2>9
<1>8. Executable(db, w[1])' <=> Executable(db', w[1])
  BY <1>1 DEF Executable
<1>9. QED
  BY <1>1, <1>3, <1>4, <1>5, <1>6, <1>7, <1>8 DEF RefusedOK, Call

\* A request that is admitted, or refused by its policy, has changed nothing.
LEMMA AdmitRefuses ==
  ASSUME AdminInv, RefusedInv, NEW u \in Unit, Admit(u)
  PROVE  RefusedOK(u)'
<1>1. unit[u].pc = "idle" /\ wrote' = wrote /\ backend' = backend
  BY DEF Admit, At
<1>2. unit'[u].pc \in {"handle", "done"}
  <2>1. PICK c \in CallsOf[u] :
         \E server \in IF c.by = "system" THEN {Nil} ELSE First("virtualServer", [name |-> c.at]) :
             LET admitted == (server # Nil \/ c.by = "system") /\ Allowed(c.by, c.op) IN
             unit' = [unit EXCEPT ![u] =
                [pc |-> IF admitted THEN "handle" ELSE "done", call |-> c, server |-> server,
                 seen |-> IF server = Nil THEN Nil ELSE db[server], work |-> <<>>,
                 failed |-> ~admitted, lost |-> FALSE]]
    BY DEF Admit
  <2>2. \E pc, server, seen, failed :
           /\ unit' = [unit EXCEPT ![u] = Request(pc, c, server, seen, <<>>, failed, FALSE)]
           /\ pc \in {"handle", "done"}
    BY <2>1 DEF Request
  <2>3. PICK pc, server, seen, failed :
           /\ unit' = [unit EXCEPT ![u] = Request(pc, c, server, seen, <<>>, failed, FALSE)]
           /\ pc \in {"handle", "done"}
    BY <2>2
  <2>4. u \in DOMAIN unit
    BY DEF AdminInv, Base
  <2>5. QED
    BY <2>3, <2>4 DEF Request
<1>3. u \notin wrote \/ ~Postgres
  BY <1>1 DEF RefusedInv, RefusedOK
<1>4. Postgres' <=> Postgres
  BY <1>1 DEF Postgres
<1>5. QED
  BY <1>1, <1>2, <1>3, <1>4 DEF RefusedOK

\* A handler that refuses tracks nothing, and one that does not tracks one entry, but for
\* those that are excepted.
LEMMA HandleRefuses ==
  ASSUME AdminInv, RefusedInv, NEW u \in Unit, Handle(u)
  PROVE  RefusedOK(u)'
<1>1. unit[u].pc = "handle"
  BY HandleSteps
<1>2. RequestOK(u) /\ Base /\ u \in DOMAIN unit
  BY DEF AdminInv, Base
<1>3. Ready(u)
  BY <1>1, <1>2, AdministrationAssumption DEF RequestOK, Base, Ready, Call, Server, BackendOK
<1>4. PICK set, w :
         /\ Legit(u, set, w)
         /\ \/ Returns(u, set, w) /\ (Call(u).op \notin LateFailures => Len(w) <= 1)
            \/ Refuses(u, set, w) /\ (Call(u).op \notin LateFailures => w = <<>>)
  BY <1>3, HandleHandled DEF Handled
<1>5. PICK ok \in BOOLEAN :
         /\ Return(u, ok, set, w)
         /\ Call(u).op \notin LateFailures => IF ok THEN Len(w) <= 1 ELSE w = <<>>
  BY <1>4 DEF Returns, Refuses
<1>6. PICK o : o = unit[u]
  OBVIOUS
<1>7. PICK pc, failed : /\ pc = IF ok /\ Call(u).op \notin Unchecked THEN "save" ELSE "close"
                       /\ failed \in BOOLEAN /\ (failed <=> ~ok)
  OBVIOUS
<1>8. unit'[u] = Request(pc, o.call, o.server, o.seen, w, failed, o.lost)
  <2>1. failed = ~ok
    BY <1>7
  <2>2. unit' = [unit EXCEPT ![u] = [o EXCEPT !.pc = pc, !.failed = failed, !.work = w]]
    BY <1>5, <1>6, <1>7, <2>1 DEF Return
  <2>3. IsRequest(o)
    BY <1>2, <1>6 DEF RequestOK, IsRequest, Request
  <2>4. [o EXCEPT !.pc = pc, !.failed = failed, !.work = w]
           = Request(pc, o.call, o.server, o.seen, w, failed, o.lost)
    BY <2>3, Handed, Zenon
  <2>5. QED
    BY <1>2, <2>2, <2>4
<1>9. /\ unit'[u].pc = pc /\ unit'[u].call = o.call /\ unit'[u].work = w /\ unit'[u].failed = failed
      /\ pc \in {"save", "close"} /\ (pc = "save" => ok)
  BY <1>7, <1>8 DEF Request
<1>10. Call(u)' = Call(u)
  BY <1>6, <1>9 DEF Call
<1>11. Postgres => u \notin wrote
  BY <1>1 DEF RefusedInv, RefusedOK
<1>12. backend' = backend /\ (Postgres => wrote' = wrote)
  BY <1>5 DEF Return
<1>13. ASSUME ok, Call(u).op \notin LateFailures PROVE Single(u, w)
  <2>1. Len(w) \in Nat /\ w = [i \in 1 .. Len(w) |-> w[i]] /\ Len(w) <= 1
    BY <1>4, <1>5, <1>13 DEF Legit, WorkFits, Tracker
  <2>2. CASE Len(w) = 0
    <3>1. w = <<>>
      BY <2>1, <2>2
    <3>2. QED
      BY <3>1 DEF Single
  <2>3. CASE Len(w) = 1
    <3>1. w = <<w[1]>>
      BY <2>1, <2>3
    <3>2. w[1].change = "added" /\ w[1].kind = "application" => Call(u).op = "CreateApplication"
      BY <1>4, <1>13, <2>3 DEF Legit
    <3>3. QED
      BY <3>1, <3>2 DEF Single
  <2>4. QED
    BY <2>1, <2>2, <2>3
<1>14. Single(u, w)' <=> Single(u, w)
  BY <1>10 DEF Single
<1>15. ASSUME Spared(u)' PROVE w = <<>>
  BY <1>5, <1>7, <1>9, <1>10, <1>15 DEF Spared
<1>16. Single(u, <<>>)'
  BY DEF Single
<1>17. Postgres' <=> Postgres
  BY <1>12 DEF Postgres
<1>18. QED
  BY <1>9, <1>10, <1>11, <1>12, <1>13, <1>14, <1>15, <1>16, <1>17 DEF RefusedOK

\* A save that is refused changes nothing, and what could not be executed is left.
LEMMA SaveRefuses ==
  ASSUME AdminInv, RefusedInv, NEW u \in Unit, Save(u)
  PROVE  RefusedOK(u)'
<1>1. unit[u].pc = "save" /\ backend' = backend
  BY DEF Save, At
<1>2. PICK w : w = unit[u].work
  OBVIOUS
<1>3. PICK s : s = Saved(db, w)
  OBVIOUS
<1>4. /\ s.ok \in BOOLEAN /\ ~unit[u].failed
  BY <1>1, <1>2, <1>3, Saving
<1>5. RequestOK(u) /\ u \in DOMAIN unit
  BY DEF AdminInv, Base
<1>6. PICK o : o = unit[u] /\ IsRequest(o)
  BY <1>5 DEF RequestOK, IsRequest, Request
<1>7. Postgres' <=> Postgres
  BY <1>1 DEF Postgres
<1>8. CASE s.ok
  <2>1. PICK v : v = AuditEntry(u)
    OBVIOUS
  <2>2. unit' = [unit EXCEPT ![u] = [[o EXCEPT !.pc = "close"] EXCEPT !.work = v]]
    BY <1>2, <1>3, <1>6, <1>8, <2>1 DEF Save, Commit
  <2>3. [[o EXCEPT !.pc = "close"] EXCEPT !.work = v]
           = Request("close", o.call, o.server, o.seen, v, o.failed, o.lost)
    BY <1>6, Closed
  <2>4. unit'[u].pc = "close" /\ ~unit'[u].failed
    BY <1>4, <1>5, <1>6, <2>2, <2>3 DEF Request
  <2>5. QED
    BY <2>4 DEF RefusedOK, Spared
<1>9. CASE ~s.ok
  <2>1. PICK v : v = AfterFailure(w, s.done)
    OBVIOUS
  <2>2. PICK a : a = [o EXCEPT !.pc = "close"]
    OBVIOUS
  <2>3. a = Request("close", o.call, o.server, o.seen, o.work, o.failed, o.lost)
    BY <1>6, <2>2 DEF IsRequest, Request
  <2>4. a.work = w
    BY <1>2, <1>6, <2>3 DEF Request
  <2>5. Commit(u, db, [a EXCEPT !.failed = TRUE, !.work = v])
    BY <1>2, <1>3, <1>6, <1>9, <2>1, <2>2, <2>4 DEF Save
  <2>6. [a EXCEPT !.failed = TRUE, !.work = v] = Request("close", o.call, o.server, o.seen, v, TRUE, o.lost)
    <3>1. IsRequest(a) /\ a.pc = "close" /\ a.call = o.call /\ a.server = o.server /\ a.seen = o.seen
          /\ a.lost = o.lost
      BY <2>3 DEF IsRequest, Request
    <3>2. PICK yes : yes = TRUE
      OBVIOUS
    <3>3. IsRequest(a)
      BY <3>1
    <3>4. [a EXCEPT !.failed = yes, !.work = v] = Request(a.pc, a.call, a.server, a.seen, v, yes, a.lost)
      BY <3>3, Refused, Zenon
    <3>5. QED
      BY <3>1, <3>2, <3>4
  <2>7. /\ unit'[u].pc = "close" /\ unit'[u].call = o.call /\ unit'[u].work = v
        /\ wrote' = wrote /\ db' = db
    BY <1>5, <2>5, <2>6 DEF Commit, Request
  <2>8. Call(u)' = Call(u)
    BY <1>6, <2>7 DEF Call
  <2>9. Postgres => u \notin wrote
    BY <1>1 DEF RefusedInv, RefusedOK
  <2>10. ASSUME Postgres, Spared(u)' PROVE Single(u, v) /\ (v # <<>> => ~Executable(db, v[1]))
    <3>1. Single(u, w)
      BY <1>1, <1>2, <2>8, <2>10 DEF RefusedInv, RefusedOK, Spared
    <3>2. w # <<>>
      BY <1>3, <1>9, SavedNone DEF Begin
    <3>3. PICK e : e = w[1]
      OBVIOUS
    <3>4. w = <<e>>
      BY <3>1, <3>2, <3>3 DEF Single
    <3>5. s = IF Executable(db, e) THEN [rows |-> Execute(db, e), ok |-> TRUE, done |-> 1]
              ELSE [rows |-> db, ok |-> FALSE, done |-> 0]
      BY <1>3, <3>4, SavedOne
    <3>6. ~Executable(db, e) /\ s.done = 0
      BY <1>9, <3>5
    <3>7. DOMAIN w = 1 .. 1 /\ v = [i \in 1 .. 1 |-> w[i]]
      BY <2>1, <3>4, <3>6 DEF AfterFailure
    <3>8. v = w
      BY <3>4, <3>7
    <3>9. QED
      BY <3>1, <3>3, <3>6, <3>8
  <2>11. Single(u, v)' <=> Single(u, v)
    BY <2>8 DEF Single
  <2>12. Executable(db, v[1])' <=> Executable(db, v[1])
    BY <1>1, <2>7 DEF Executable
  <2>13. QED
    BY <1>7, <2>7, <2>9, <2>10, <2>11, <2>12 DEF RefusedOK
<1>10. QED
  BY <1>4, <1>8, <1>9

\* A transaction that is lost is not one that was refused.
LEMMA SaveLostRefuses ==
  ASSUME AdminInv, NEW u \in Unit, SaveLost(u)
  PROVE  RefusedOK(u)'
<1>1. PICK o : o = unit[u] /\ IsRequest(o)
  BY DEF AdminInv, RequestOK, IsRequest, Request
<1>2. PICK yes \in BOOLEAN : yes
  OBVIOUS
<1>3. PICK c : c = [[[o EXCEPT !.pc = "close"] EXCEPT !.failed = yes] EXCEPT !.lost = yes]
  OBVIOUS
<1>4. \E rows, v : Commit(u, rows, [c EXCEPT !.work = v])
  <2>1. yes = TRUE
    BY <1>2
  <2>2. c = [o EXCEPT !.pc = "close", !.failed = TRUE, !.lost = TRUE]
    BY <1>3, <2>1
  <2>3. QED
    BY <1>1, <2>2, Zenon DEF SaveLost
<1>5. PICK rows, v : Commit(u, rows, [c EXCEPT !.work = v])
  BY <1>4
<1>6. PICK a, b : a = [o EXCEPT !.pc = "close"] /\ b = [a EXCEPT !.failed = yes]
  OBVIOUS
<1>7. a = Request("close", o.call, o.server, o.seen, o.work, o.failed, o.lost)
  BY <1>1, <1>6 DEF IsRequest, Request
<1>8. b = Request("close", o.call, o.server, o.seen, o.work, yes, o.lost)
  BY <1>6, <1>7 DEF Request
<1>9. c = Request("close", o.call, o.server, o.seen, o.work, yes, yes)
  BY <1>3, <1>6, <1>8 DEF Request
<1>10. [c EXCEPT !.work = v] = Request("close", o.call, o.server, o.seen, v, yes, yes)
  BY <1>9 DEF Request
<1>11. unit' = [unit EXCEPT ![u] = Request("close", o.call, o.server, o.seen, v, yes, yes)]
  BY <1>5, <1>10 DEF Commit
<1>12. u \in DOMAIN unit
  BY DEF AdminInv, Base
<1>13. unit'[u].pc = "close" /\ unit'[u].lost = yes
  BY <1>11, <1>12 DEF Request
<1>14. QED
  BY <1>2, <1>13 DEF RefusedOK, Spared

\* The close of the scope saves again what is left, which cannot be executed.
LEMMA CloseRefuses ==
  ASSUME AdminInv, RefusedInv, NEW u \in Unit, Close(u)
  PROVE  RefusedOK(u)'
<1>1. unit[u].pc = "close" /\ backend' = backend /\ overlap' = overlap
  BY DEF Close, At
<1>2. PICK w : w = unit[u].work
  OBVIOUS
<1>3. PICK s : s = Saved(db, w)
  OBVIOUS
<1>4. PICK o : o = unit[u] /\ IsRequest(o)
  BY DEF AdminInv, RequestOK, IsRequest, Request
<1>5. PICK rows : /\ Commit(u, rows, [o EXCEPT !.pc = "done", !.work = <<>>])
                  /\ s.ok => rows = s.rows
                  /\ ~s.ok => rows = db
  BY <1>2, <1>3, <1>4 DEF Close
<1>6. [o EXCEPT !.pc = "done", !.work = <<>>] = Request("done", o.call, o.server, o.seen, <<>>, o.failed, o.lost)
  BY <1>4, Closed
<1>7. u \in DOMAIN unit
  BY DEF AdminInv, Base
<1>8. /\ unit'[u].pc = "done" /\ unit'[u].call = o.call /\ unit'[u].failed = o.failed /\ unit'[u].lost = o.lost
      /\ rows = db => wrote' = wrote
  BY <1>5, <1>6, <1>7 DEF Commit, Request
<1>9. Spared(u)' => Spared(u)
  BY <1>1, <1>4, <1>8 DEF Spared, Call
<1>10. ASSUME Postgres, Spared(u) PROVE rows = db /\ u \notin wrote
  <2>1. /\ u \notin wrote
        /\ Single(u, w) /\ (w # <<>> => ~Executable(db, w[1]))
    BY <1>1, <1>2, <1>10 DEF RefusedInv, RefusedOK
  <2>2. CASE w = <<>>
    BY <1>3, <1>5, <2>1, <2>2, SavedNone DEF Begin
  <2>3. CASE w # <<>>
    <3>1. PICK e : e = w[1]
      OBVIOUS
    <3>2. w = <<e>> /\ ~Executable(db, e)
      BY <2>1, <2>3, <3>1 DEF Single
    <3>3. s = IF Executable(db, e) THEN [rows |-> Execute(db, e), ok |-> TRUE, done |-> 1]
              ELSE [rows |-> db, ok |-> FALSE, done |-> 0]
      BY <1>3, <3>2, SavedOne
    <3>4. QED
      BY <1>5, <2>1, <3>2, <3>3
  <2>4. QED
    BY <2>2, <2>3
<1>11. Postgres' <=> Postgres
  BY <1>1 DEF Postgres
<1>12. QED
  BY <1>8, <1>9, <1>10, <1>11 DEF RefusedOK

\* No request has been refused at the start,
LEMMA RefusedInit == ASSUME Init PROVE RefusedInv
<1>1. \A u \in Unit : unit[u].pc = "idle" /\ u \notin wrote
  BY DEF Init, Waiting
<1>2. QED
  BY <1>1 DEF RefusedInv, Alone, Running, RefusedOK

\* and every step keeps the database as it was for those that are.
LEMMA RefusedNext == ASSUME AdminInv, AdminInv', RefusedInv, [Next]_vars PROVE RefusedInv'
<1>1. CASE vars' = vars
  <2>1. ASSUME NEW u \in Unit PROVE RefusedOK(u)'
    <3>1. PICK w : w = unit[u].work
      OBVIOUS
    <3>2. UNCHANGED <<backend, db, unit, wrote, overlap>> /\ RefusedOK(u)
      BY <1>1 DEF vars, RefusedInv
    <3>3. /\ Spared(u)' <=> Spared(u)
          /\ Single(u, w)' <=> Single(u, w)
          /\ Executable(db, w[1])' <=> Executable(db, w[1])
      BY <3>2 DEF Spared, Single, Executable, Call
    <3>4. QED
      BY <3>1, <3>2, <3>3 DEF RefusedOK, Postgres, Call
  <2>2. Alone'
    BY <1>1 DEF vars, RefusedInv, Alone, Running
  <2>3. QED
    BY <2>1, <2>2 DEF RefusedInv
<1>2. ASSUME vars' # vars PROVE RefusedInv'
  <2>1. PICK u \in Unit : Happens(u)
    BY <1>2, NextHappens
  <2>2. RefusedOK(u)'
    BY <2>1, AdmitRefuses, HandleRefuses, SaveRefuses, SaveLostRefuses, CloseRefuses DEF Happens
  <2>3. \A v \in Unit \ {u} : RefusedOK(v)'
    BY <2>1, OthersRefused
  <2>4. Alone'
    BY <2>1, AloneStays
  <2>5. QED
    BY <2>2, <2>3, <2>4 DEF RefusedInv
<1>3. QED
  BY <1>1, <1>2

\* A request that was refused, by its policy, by its handler or by the statement of its
\* change, has changed nothing when it is over, although the close of the scope saves again
\* what is still tracked, and whatever the other requests do before that.
THEOREM RefusedChangeNothing == Spec => []RefusedChangesNothing
<1>1. ASSUME AdminInv, RefusedInv PROVE RefusedChangesNothing
  <2>1. ASSUME NEW u \in Unit, Postgres, unit[u].failed, ~unit[u].lost, Call(u).op \notin LateFailures,
               Call(u).op = "CreateApplication" => ~overlap
        PROVE  u \notin wrote
    <3>1. RefusedOK(u) /\ RequestOK(u)
      BY <1>1 DEF RefusedInv, AdminInv
    <3>2. Spared(u)
      BY <2>1 DEF Spared
    <3>3. QED
      BY <2>1, <3>1, <3>2 DEF RefusedOK, RequestOK
  <2>2. QED
    BY <2>1 DEF RefusedChangesNothing
<1>2. Init => RefusedInv
  BY RefusedInit
<1>3. AdminInv /\ AdminInv' /\ RefusedInv /\ [Next]_vars => RefusedInv'
  BY RefusedNext
<1>4. QED
  BY <1>1, <1>2, <1>3, AdminInvariant, PTL DEF Spec

-----------------------------------------------------------------------------
(* The algorithms of applications.                                         *)

\* The columns that matter are those of their kinds, and are inserted.
LEMMA AlgorithmColumns ==
  /\ "signingAlgorithm" \in Fields("application") /\ AlgorithmFields \subseteq Fields("virtualServer")
  /\ {"signingAlgorithm", "virtualServerId"} \subseteq WriteOf["application"].inserted
  /\ {"signingAlgorithm", "virtualServerId"} \subseteq Fields("application")
  /\ "virtualServerId" \in DOMAIN RefersTo("application")
  /\ RefersTo("application")["virtualServerId"] = "virtualServer"
<1>1. /\ "signingAlgorithm" \in Fields("application")
      /\ {"signingAlgorithm", "virtualServerId"} \subseteq Fields("application")
  BY DEF Fields, EntityOf, Entity, Application_entity
<1>2. AlgorithmFields \subseteq Fields("virtualServer")
  BY DEF AlgorithmFields, Fields, EntityOf, Entity, VirtualServer_entity
<1>3. {"signingAlgorithm", "virtualServerId"} \subseteq WriteOf["application"].inserted
  BY DEF WriteOf, Write, Application_write, Columns, Application_read, Read, ReadAs, Range
<1>4. QED
  BY <1>1, <1>2, <1>3, ReferencesOf

\* A column of a row stays, unless an update that was tracked changes it.
LEMMA ColumnStays ==
  ASSUME NEW rows, NEW u, NEW H, NEW w, NEW r, StoredAs(rows, u, H, w, r),
         NEW id \in DOMAIN rows, NEW c \in Fields(rows[id].kind)
  PROVE  \/ r[id].fields[c] = rows[id].fields[c]
         \/ \E i \in 1 .. Len(w) : w[i].change = "updated" /\ w[i].id = id /\ c \in w[i].changed
<1>1. CASE \A i \in 1 .. Len(w) : w[i].id # id
  BY <1>1 DEF StoredAs, Effects
<1>2. ASSUME NEW i \in 1 .. Len(w), w[i].id = id
      PROVE  \/ r[id].fields[c] = rows[id].fields[c]
             \/ w[i].change = "updated" /\ c \in w[i].changed
  <2>1. PICK e : e = w[i]
    OBVIOUS
  <2>2. Effected(rows, r, e) /\ EntryFits(rows, u, e)
    BY <2>1 DEF StoredAs, Effects, WorkFits, Fits
  <2>3. e.change \in {"added", "updated", "deleted"} /\ (e.change = "updated" => rows[id].kind = e.kind)
    BY <1>2, <2>1, <2>2 DEF EntryFits
  <2>4. QED
    BY <1>2, <2>1, <2>2, <2>3 DEF Effected
<1>3. QED
  BY <1>1, <1>2

\* On PostgreSQL a row that was updated is as it was tracked.
LEMMA UpdatedAsTracked ==
  ASSUME Postgres, NEW rows, NEW u, NEW H, NEW w, NEW r, StoredAs(rows, u, H, w, r),
         NEW i \in 1 .. Len(w), w[i].change = "updated", w[i].changed # {},
         NEW c \in Fields(w[i].kind)
  PROVE  r[w[i].id].fields[c] = w[i].fields[c]
<1>1. PICK e : e = w[i]
  OBVIOUS
<1>2. Effected(rows, r, e) /\ EntryFits(rows, u, e)
  BY <1>1 DEF StoredAs, Effects, WorkFits, Fits
<1>3. /\ r[e.id] = Updated(rows[e.id], e) /\ rows[e.id].version = e.version
      /\ r[e.id].fields[c] = rows[e.id].fields[c] \/ c \in e.changed
  BY <1>1, <1>2 DEF Effected
<1>4. e.id \in DOMAIN rows /\ rows[e.id].kind = e.kind
      /\ (c \notin e.changed => e.fields[c] = rows[e.id].fields[c])
  BY <1>1, <1>2, <1>3 DEF EntryFits
<1>5. PICK row : row = rows[e.id]
  OBVIOUS
<1>6. Complete(row) /\ c \in DOMAIN row.fields
  BY <1>1, <1>4, <1>5 DEF StoredAs, Sound, Whole, Complete
<1>7. r[e.id].fields = Written(row, e)
  BY <1>3, <1>5, <1>6 DEF Updated, Complete
<1>8. QED
  BY <1>1, <1>3, <1>4, <1>6, <1>7 DEF Written

\* A virtual server offers what it did, or what an update of it that was tracked says.
LEMMA AlgorithmsStay ==
  ASSUME Postgres, NEW rows, NEW u, NEW H, NEW w, NEW r, StoredAs(rows, u, H, w, r),
         NEW s \in DOMAIN rows, rows[s].kind = "virtualServer"
  PROVE  \/ Algorithms(r[s].fields) = Algorithms(rows[s].fields)
         \/ \E i \in 1 .. Len(w) :
               /\ w[i].change = "updated" /\ w[i].id = s /\ AlgorithmFields \intersect w[i].changed # {}
               /\ Algorithms(r[s].fields) = Algorithms(w[i].fields)
<1>1. CASE \A c \in AlgorithmFields : r[s].fields[c] = rows[s].fields[c]
  BY <1>1 DEF AlgorithmFields, Algorithms
<1>2. ASSUME NEW c \in AlgorithmFields, r[s].fields[c] # rows[s].fields[c]
      PROVE  \E i \in 1 .. Len(w) :
               /\ w[i].change = "updated" /\ w[i].id = s /\ AlgorithmFields \intersect w[i].changed # {}
               /\ Algorithms(r[s].fields) = Algorithms(w[i].fields)
  <2>1. c \in Fields(rows[s].kind)
    BY <1>2, AlgorithmColumns
  <2>2. PICK i \in 1 .. Len(w) : w[i].change = "updated" /\ w[i].id = s /\ c \in w[i].changed
    BY <1>2, <2>1, ColumnStays
  <2>3. w[i].kind = "virtualServer"
    BY <2>2 DEF StoredAs, WorkFits, Fits, EntryFits
  <2>4. \A d \in AlgorithmFields : r[s].fields[d] = w[i].fields[d]
    BY <2>2, <2>3, AlgorithmColumns, UpdatedAsTracked
  <2>5. Algorithms(r[s].fields) = Algorithms(w[i].fields)
    BY <2>4 DEF AlgorithmFields, Algorithms
  <2>6. QED
    BY <1>2, <2>2, <2>5
<1>3. QED
  BY <1>1, <1>2

\* What is saved with care leaves applications with algorithms that are offered: a new one
LEMMA NewOffered ==
  ASSUME Postgres, NEW rows, NEW u, NEW H, NEW w, NEW r, StoredAs(rows, u, H, w, r),
         \A i \in 1 .. Len(w) : Careful(rows, w, i),
         NEW a \in DOMAIN r \ DOMAIN rows, r[a].kind = "application", r[a].fields.signingAlgorithm # Nothing
  PROVE  r[a].fields.signingAlgorithm \in Algorithms(r[r[a].fields.virtualServerId].fields)
<1>1. PICK i \in 1 .. Len(w) : w[i].id = a
  BY DEF StoredAs, Effects
<1>2. PICK e : e = w[i]
  OBVIOUS
<1>3. Effected(rows, r, e) /\ EntryFits(rows, u, e) /\ Fits(rows, u, H, w, i) /\ Len(w) \in Nat
  BY <1>2 DEF StoredAs, Effects, WorkFits, Fits, Tracker
<1>4. e.change = "added"
  BY <1>1, <1>2, <1>3 DEF EntryFits
<1>5. r[a] = Row(e.kind, Stored(e)) /\ ~e.stamped
  BY <1>1, <1>2, <1>3, <1>4 DEF Effected
<1>6. e.kind = "application" /\ DOMAIN e.fields = Fields("application")
  BY <1>3, <1>4, <1>5 DEF EntryFits, Row
<1>7. \A c \in {"signingAlgorithm", "virtualServerId"} : r[a].fields[c] = e.fields[c]
  BY <1>5, <1>6, AlgorithmColumns DEF Row, Stored
<1>8. PICK s : s = e.fields.virtualServerId
  OBVIOUS
<1>9. Len(w) = 1 /\ e.fields.signingAlgorithm \in Algorithms(rows[s].fields)
  BY <1>2, <1>4, <1>5, <1>6, <1>7, <1>8 DEF Careful
<1>10. i = 1
  BY <1>9
<1>11. s \in DOMAIN rows
  BY <1>2, <1>3, <1>4, <1>6, <1>8, <1>10, AlgorithmColumns DEF Fits, Refers
<1>12. r[s] = rows[s]
  <2>1. \A j \in 1 .. Len(w) : w[j].id # s
    BY <1>1, <1>9, <1>10, <1>11
  <2>2. QED
    BY <1>11, <2>1 DEF StoredAs, Effects
<1>13. QED
  BY <1>7, <1>8, <1>9, <1>12

\* and one that was there.
LEMMA OldOffered ==
  ASSUME Postgres, NEW rows, NEW u, NEW H, NEW w, NEW r, StoredAs(rows, u, H, w, r), Offers(rows),
         \A i \in 1 .. Len(w) : Careful(rows, w, i),
         NEW a \in DOMAIN rows, r[a].kind = "application", r[a].live, r[a].fields.signingAlgorithm # Nothing
  PROVE  r[a].fields.signingAlgorithm \in Algorithms(r[r[a].fields.virtualServerId].fields)
<1>1. Keeps(rows, r, a)
  BY DEF StoredAs, After, Evolves
<1>2. rows[a].kind = "application" /\ rows[a].live /\ Complete(rows[a]) /\ Whole(rows, a)
  BY <1>1 DEF Keeps, StoredAs, Sound, Whole, Complete
<1>3. PICK s : s = rows[a].fields.virtualServerId
  OBVIOUS
<1>4. r[a].fields.virtualServerId = s
  <2>1. IsFixed("application", "virtualServerId")
    BY AlgorithmColumns DEF IsFixed
  <2>2. QED
    BY <1>1, <1>2, <1>3, <2>1 DEF Keeps
<1>5. s \in DOMAIN rows /\ rows[s].kind = "virtualServer" /\ s # a
  BY <1>2, <1>3, AlgorithmColumns DEF Whole
<1>6. CASE r[a].fields.signingAlgorithm = rows[a].fields.signingAlgorithm
  <2>1. rows[a].fields.signingAlgorithm \in Algorithms(rows[s].fields)
    BY <1>2, <1>3, <1>6 DEF Offers
  <2>2. CASE Algorithms(r[s].fields) = Algorithms(rows[s].fields)
    BY <1>4, <1>6, <2>1, <2>2
  <2>3. ASSUME NEW i \in 1 .. Len(w),
               w[i].change = "updated", w[i].id = s, AlgorithmFields \intersect w[i].changed # {},
               Algorithms(r[s].fields) = Algorithms(w[i].fields)
        PROVE  rows[a].fields.signingAlgorithm \in Algorithms(r[s].fields)
    <3>1. Suits(rows, s, w[i].fields, w[i].changed)
      BY <2>3 DEF Careful
    <3>2. rows[a].fields.signingAlgorithm \in {Nothing} \union Algorithms(w[i].fields)
      BY <1>2, <1>3, <1>5, <2>3, <3>1 DEF Suits
    <3>3. QED
      BY <1>6, <2>3, <3>2
  <2>4. QED
    BY <1>4, <1>5, <1>6, <2>2, <2>3, AlgorithmsStay
<1>7. CASE r[a].fields.signingAlgorithm # rows[a].fields.signingAlgorithm
  <2>1. PICK i \in 1 .. Len(w) :
           w[i].change = "updated" /\ w[i].id = a /\ "signingAlgorithm" \in w[i].changed
    BY <1>2, <1>7, ColumnStays, AlgorithmColumns
  <2>2. w[i].kind = "application" /\ Len(w) \in Nat
    BY <1>2, <2>1 DEF StoredAs, WorkFits, Fits, EntryFits, Tracker
  <2>3. Suits(rows, a, w[i].fields, w[i].changed) /\ Len(w) = 1
    BY <2>1, <2>2 DEF Careful
  <2>4. w[i].fields.signingAlgorithm \in Algorithms(rows[s].fields)
    BY <1>2, <1>3, <2>1, <2>3 DEF Suits
  <2>5. r[a].fields.signingAlgorithm = w[i].fields.signingAlgorithm
    BY <2>1, <2>2, UpdatedAsTracked, AlgorithmColumns
  <2>6. \A j \in 1 .. Len(w) : w[j].id # s
    BY <1>5, <2>1, <2>3
  <2>7. r[s] = rows[s]
    BY <1>5, <2>6 DEF StoredAs, Effects
  <2>8. QED
    BY <1>4, <2>4, <2>5, <2>7
<1>8. QED
  BY <1>6, <1>7

\* So all of them.
LEMMA SavedOffers ==
  ASSUME Postgres, NEW rows, NEW u, NEW H, NEW w, NEW r, StoredAs(rows, u, H, w, r), Offers(rows),
         \A i \in 1 .. Len(w) : Careful(rows, w, i)
  PROVE  Offers(r)
<1>1. ASSUME NEW a \in DOMAIN r, r[a].kind = "application", r[a].live, r[a].fields.signingAlgorithm # Nothing
      PROVE  r[a].fields.signingAlgorithm \in Algorithms(r[r[a].fields.virtualServerId].fields)
  <2>1. CASE a \in DOMAIN rows
    BY <1>1, <2>1, OldOffered
  <2>2. CASE a \notin DOMAIN rows
    BY <1>1, <2>2, NewOffered
  <2>3. QED
    BY <2>1, <2>2
<1>2. QED
  BY <1>1 DEF Offers

\* Care survives a save that failed: what was executed is not executed again.
LEMMA FailedCareful ==
  ASSUME NEW rows, NEW u, NEW H, NEW w, WorkFits(rows, u, H, w), NEW done \in Nat,
         NEW v, v = AfterFailure(w, done), \A i \in 1 .. Len(w) : Careful(rows, w, i)
  PROVE  /\ \A i \in 1 .. Len(v) : Careful(rows, v, i)
         /\ done = Len(w) => \A r : \A i \in 1 .. Len(v) : Careful(r, v, i)
<1>1. /\ Len(v) = Len(w)
      /\ \A i \in 1 .. Len(v) :
            /\ v[i].change = w[i].change /\ v[i].kind = w[i].kind /\ v[i].id = w[i].id
            /\ v[i].fields = w[i].fields /\ v[i].changed \in {w[i].changed, {}}
            /\ w[i].stamped => v[i].stamped
            /\ i <= done => v[i].changed = {}
            /\ i <= done /\ v[i].change = "added" => v[i].stamped
  BY FailedFits
<1>2. \A r, id, fields : Suits(r, id, fields, {})
  BY DEF Suits
<1>3. ASSUME NEW i \in 1 .. Len(v) PROVE Careful(rows, v, i)
  <2>1. PICK e, f : e = w[i] /\ f = v[i]
    OBVIOUS
  <2>2. /\ f.change = e.change /\ f.kind = e.kind /\ f.id = e.id /\ f.fields = e.fields
        /\ f.changed \in {e.changed, {}} /\ (e.stamped => f.stamped)
    BY <1>1, <2>1
  <2>3. /\ /\ e.change = "added" /\ ~e.stamped /\ e.kind = "application"
           /\ e.fields.signingAlgorithm # Nothing
           => /\ Len(v) = 1
              /\ e.fields.signingAlgorithm \in Algorithms(rows[e.fields.virtualServerId].fields)
        /\ e.change = "updated" => Suits(rows, e.id, e.fields, e.changed)
        /\ e.change = "updated" /\ e.kind \in {"application", "virtualServer"} => Len(v) = 1
    BY <1>1, <2>1 DEF Careful
  <2>4. f.change = "updated" => Suits(rows, f.id, f.fields, f.changed)
    BY <1>2, <2>2, <2>3
  <2>5. QED
    BY <2>1, <2>2, <2>3, <2>4 DEF Careful
<1>4. ASSUME done = Len(w), NEW r, NEW i \in 1 .. Len(v) PROVE Careful(r, v, i)
  <2>1. PICK e, f : e = w[i] /\ f = v[i]
    OBVIOUS
  <2>2. Len(w) \in Nat
    BY DEF WorkFits, Tracker
  <2>3. /\ f.change = e.change /\ f.kind = e.kind /\ f.id = e.id /\ f.fields = e.fields
        /\ f.changed = {} /\ (f.change = "added" => f.stamped)
    BY <1>1, <1>4, <2>1, <2>2
  <2>4. Suits(r, f.id, f.fields, f.changed)
    BY <1>2, <2>3
  <2>5. f.change = "updated" /\ f.kind \in {"application", "virtualServer"} => Len(v) = 1
    BY <1>1, <2>1, <2>3 DEF Careful
  <2>6. QED
    BY <2>1, <2>3, <2>4, <2>5 DEF Careful
<1>5. QED
  BY <1>3, <1>4

\* A request that is admitted has read the virtual server as it is.
LEMMA AdmitOffers ==
  ASSUME AdminInv, Offers(db), NEW u \in Unit, Admit(u)
  PROVE  Offering(u)'
<1>1. db' = db
  BY DEF Admit
<1>2. PICK c \in CallsOf[u] :
         \E server \in IF c.by = "system" THEN {Nil} ELSE First("virtualServer", [name |-> c.at]) :
             LET admitted == (server # Nil \/ c.by = "system") /\ Allowed(c.by, c.op) IN
             unit' = [unit EXCEPT ![u] =
                [pc |-> IF admitted THEN "handle" ELSE "done", call |-> c, server |-> server,
                 seen |-> IF server = Nil THEN Nil ELSE db[server], work |-> <<>>,
                 failed |-> ~admitted, lost |-> FALSE]]
  BY DEF Admit
<1>3. \E pc, server, seen, failed :
         /\ unit' = [unit EXCEPT ![u] = Request(pc, c, server, seen, <<>>, failed, FALSE)]
         /\ pc \in {"handle", "done"}
         /\ pc = "handle" => c.by = "system" \/ seen = db[server]
  <2>1. PICK server : LET admitted == (server # Nil \/ c.by = "system") /\ Allowed(c.by, c.op) IN
             unit' = [unit EXCEPT ![u] =
                [pc |-> IF admitted THEN "handle" ELSE "done", call |-> c, server |-> server,
                 seen |-> IF server = Nil THEN Nil ELSE db[server], work |-> <<>>,
                 failed |-> ~admitted, lost |-> FALSE]]
    BY <1>2
  <2>2. PICK admitted \in BOOLEAN : admitted <=> (server # Nil \/ c.by = "system") /\ Allowed(c.by, c.op)
    OBVIOUS
  <2>3. PICK pc : pc = IF admitted THEN "handle" ELSE "done"
    OBVIOUS
  <2>4. PICK seen : seen = IF server = Nil THEN Nil ELSE db[server]
    OBVIOUS
  <2>5. PICK failed : failed = ~((server # Nil \/ c.by = "system") /\ Allowed(c.by, c.op))
    OBVIOUS
  <2>6. unit' = [unit EXCEPT ![u] = Request(pc, c, server, seen, <<>>, failed, FALSE)]
    BY <2>1, <2>2, <2>3, <2>4, <2>5 DEF Request
  <2>7. pc \in {"handle", "done"} /\ (pc = "handle" => c.by = "system" \/ seen = db[server])
    BY <2>2, <2>3, <2>4
  <2>8. QED
    BY <2>6, <2>7
<1>4. PICK pc, server, seen, failed :
         /\ unit' = [unit EXCEPT ![u] = Request(pc, c, server, seen, <<>>, failed, FALSE)]
         /\ pc \in {"handle", "done"}
         /\ pc = "handle" => c.by = "system" \/ seen = db[server]
  BY <1>3
<1>5. u \in DOMAIN unit
  BY DEF AdminInv, Base
<1>6. unit'[u].pc = pc /\ unit'[u].call = c /\ unit'[u].server = server /\ unit'[u].seen = seen
  BY <1>4, <1>5 DEF Request
<1>7. pc = "handle" => Current(u)'
  BY <1>1, <1>4, <1>6 DEF Current, Call, Server
<1>8. Offers(db)'
  BY <1>1
<1>9. QED
  BY <1>4, <1>6, <1>7, <1>8 DEF Offering, OfferOK

\* Its handler tracks with care.
LEMMA HandleOffers ==
  ASSUME AdminInv, Postgres, Offers(db), NEW u \in Unit, OfferOK(u), Handle(u)
  PROVE  Offering(u)'
<1>1. unit[u].pc = "handle"
  BY HandleSteps
<1>2. RequestOK(u) /\ Base /\ u \in DOMAIN unit
  BY DEF AdminInv, Base
<1>3. Ready(u)
  BY <1>1, <1>2, AdministrationAssumption DEF RequestOK, Base, Ready, Call, Server, BackendOK
<1>4. PICK set, w : Legit(u, set, w) /\ (Returns(u, set, w) \/ Refuses(u, set, w))
  BY <1>3, HandleHandled DEF Handled
<1>5. PICK ok \in BOOLEAN : Return(u, ok, set, w)
  BY <1>4 DEF Returns, Refuses
<1>6. \A i \in 1 .. Len(w) : Careful(db, w, i)
  BY <1>1, <1>4 DEF Legit, OfferOK
<1>7. PICK o : o = unit[u] /\ IsRequest(o)
  BY <1>2 DEF RequestOK, IsRequest, Request
<1>8. PICK pc, failed : /\ pc = IF ok /\ Call(u).op \notin Unchecked THEN "save" ELSE "close"
                       /\ failed = ~ok
  OBVIOUS
<1>9. unit'[u] = Request(pc, o.call, o.server, o.seen, w, failed, o.lost)
  <2>1. unit' = [unit EXCEPT ![u] = [o EXCEPT !.pc = pc, !.failed = failed, !.work = w]]
    BY <1>5, <1>7, <1>8 DEF Return
  <2>2. IsRequest(o)
    BY <1>7
  <2>3. [o EXCEPT !.pc = pc, !.failed = failed, !.work = w]
           = Request(pc, o.call, o.server, o.seen, w, failed, o.lost)
    BY <2>2, Handed, Zenon
  <2>4. QED
    BY <1>2, <2>1, <2>3
<1>10. unit'[u].pc \in {"save", "close"} /\ unit'[u].work = w
  BY <1>8, <1>9 DEF Request
<1>11. db' = db
  BY <1>5 DEF Return
<1>12. Offers(db)' /\ \A i \in 1 .. Len(w) : Careful(db, w, i)'
  BY <1>6, <1>11
<1>13. QED
  BY <1>10, <1>12 DEF Offering, OfferOK

\* An audit entry is tracked with care,
LEMMA AuditCareful ==
  ASSUME NEW rows, NEW u, NEW v, v = AuditEntry(u)
  PROVE  \A i \in 1 .. Len(v) : Careful(rows, v, i)
<1>1. CASE v = <<>>
  BY <1>1
<1>2. CASE v # <<>>
  <2>1. PICK e : v = <<e>> /\ e.change = "added" /\ e.kind = "auditLog"
    BY <1>2 DEF AuditEntry, Insertion, Entry
  <2>2. QED
    BY <2>1 DEF Careful
<1>3. QED
  BY <1>1, <1>2

\* and what is saved with care keeps the applications' algorithms offered.
LEMMA TrackedOffers ==
  ASSUME AdminInv, Postgres, Offers(db), NEW u \in Unit, OfferOK(u), unit[u].pc \in {"save", "close"},
         NEW w, w = unit[u].work, NEW s, s = Saved(db, w)
  PROVE  /\ WorkFits(db, u, Home(u), w) /\ \A i \in 1 .. Len(w) : Careful(db, w, i)
         /\ s.ok \in BOOLEAN /\ s.done \in 0 .. Len(w) /\ (s.ok => s.done = Len(w))
         /\ s.ok => Offers(s.rows)
<1>1. PICK H : H = Home(u)
  OBVIOUS
<1>2. WorkFits(db, u, H, w) /\ Sound(db) /\ BackendOK
  BY <1>1, AdministrationAssumption DEF AdminInv, Base, RequestOK, BackendOK
<1>3. \A i \in 1 .. Len(w) : Careful(db, w, i)
  BY DEF OfferOK
<1>4. /\ s.ok \in BOOLEAN /\ s.done \in 0 .. Len(w) /\ (s.ok <=> s.done = Len(w))
      /\ After(db, H, w, s.rows, s.done) /\ Effects(db, w, s.rows, s.done)
  BY <1>2, SavedWork
<1>5. s.ok => StoredAs(db, u, H, w, s.rows)
  BY <1>2, <1>4 DEF StoredAs
<1>6. s.ok => Offers(s.rows)
  BY <1>3, <1>5, SavedOffers
<1>7. QED
  BY <1>1, <1>2, <1>3, <1>4, <1>6

\* What the steps of the end of a request leave behind.
LEMMA SettleOffers ==
  ASSUME AdminInv, NEW u \in Unit, Offers(db'), NEW o, o = unit[u], NEW pc, pc \in {"close", "done"},
         NEW w, NEW failed, NEW lost,
         pc = "close" => \A i \in 1 .. Len(w) : Careful(db', w, i),
         unit' = [unit EXCEPT ![u] = Request(pc, o.call, o.server, o.seen, w, failed, lost)]
  PROVE  Offering(u)'
<1>1. u \in DOMAIN unit
  BY DEF AdminInv, Base
<1>2. unit'[u].pc = pc /\ unit'[u].work = w
  BY <1>1 DEF Request
<1>3. Offers(db)' /\ (pc = "close" => \A i \in 1 .. Len(w) : Careful(db, w, i)')
  OBVIOUS
<1>4. QED
  BY <1>2, <1>3 DEF Offering, OfferOK

\* SaveChangesBehaviour.
LEMMA SaveOffers ==
  ASSUME AdminInv, Postgres, Offers(db), NEW u \in Unit, OfferOK(u), Save(u)
  PROVE  Offering(u)'
<1>1. unit[u].pc = "save"
  BY DEF Save, At
<1>2. PICK w : w = unit[u].work
  OBVIOUS
<1>3. PICK s : s = Saved(db, w)
  OBVIOUS
<1>4. /\ WorkFits(db, u, Home(u), w) /\ \A i \in 1 .. Len(w) : Careful(db, w, i)
      /\ s.ok \in BOOLEAN /\ s.done \in 0 .. Len(w) /\ (s.ok => Offers(s.rows))
  BY <1>1, <1>2, <1>3, TrackedOffers
<1>5. PICK o : o = unit[u] /\ IsRequest(o)
  BY DEF AdminInv, RequestOK, IsRequest, Request
<1>6. CASE s.ok
  <2>1. PICK v : v = AuditEntry(u)
    OBVIOUS
  <2>2. db' = s.rows /\ unit' = [unit EXCEPT ![u] = [[o EXCEPT !.pc = "close"] EXCEPT !.work = v]]
    BY <1>2, <1>3, <1>5, <1>6, <2>1 DEF Save, Commit
  <2>3. [[o EXCEPT !.pc = "close"] EXCEPT !.work = v]
           = Request("close", o.call, o.server, o.seen, v, o.failed, o.lost)
    BY <1>5, Closed
  <2>4. \A i \in 1 .. Len(v) : Careful(db', v, i)
    BY <2>1, AuditCareful
  <2>5. Offers(db') /\ unit' = [unit EXCEPT ![u] = Request("close", o.call, o.server, o.seen, v, o.failed, o.lost)]
    BY <1>4, <1>6, <2>2, <2>3
  <2>6. QED
    BY <1>5, <2>4, <2>5, SettleOffers
<1>7. CASE ~s.ok
  <2>1. PICK v : v = AfterFailure(w, s.done)
    OBVIOUS
  <2>2. PICK a : a = [o EXCEPT !.pc = "close"]
    OBVIOUS
  <2>3. a = Request("close", o.call, o.server, o.seen, o.work, o.failed, o.lost)
    BY <1>5, <2>2 DEF IsRequest, Request
  <2>4. /\ IsRequest(a) /\ a.pc = "close" /\ a.call = o.call /\ a.server = o.server /\ a.seen = o.seen
        /\ a.work = w /\ a.lost = o.lost
    BY <1>2, <1>5, <2>3 DEF IsRequest, Request
  <2>5. db' = db /\ unit' = [unit EXCEPT ![u] = [a EXCEPT !.failed = TRUE, !.work = v]]
    BY <1>2, <1>3, <1>5, <1>7, <2>1, <2>2, <2>4 DEF Save, Commit
  <2>6. [a EXCEPT !.failed = TRUE, !.work = v] = Request("close", o.call, o.server, o.seen, v, TRUE, o.lost)
    <3>1. PICK yes : yes = TRUE
      OBVIOUS
    <3>2. IsRequest(a)
      BY <2>4
    <3>3. [a EXCEPT !.failed = yes, !.work = v] = Request(a.pc, a.call, a.server, a.seen, v, yes, a.lost)
      BY <3>2, Refused, Zenon
    <3>4. QED
      BY <2>4, <3>1, <3>3
  <2>7. \A i \in 1 .. Len(v) : Careful(db', v, i)
    <3>1. s.done \in Nat
      BY <1>4
    <3>2. \A i \in 1 .. Len(v) : Careful(db, v, i)
      BY <1>4, <2>1, <3>1, FailedCareful
    <3>3. QED
      BY <2>5, <3>2
  <2>8. Offers(db') /\ unit' = [unit EXCEPT ![u] = Request("close", o.call, o.server, o.seen, v, TRUE, o.lost)]
    BY <2>5, <2>6
  <2>9. QED
    BY <1>5, <2>7, <2>8, SettleOffers
<1>8. QED
  BY <1>4, <1>6, <1>7

\* A transaction that is lost, whether or not it was committed.
LEMMA SaveLostOffers ==
  ASSUME AdminInv, Postgres, Offers(db), NEW u \in Unit, OfferOK(u), SaveLost(u)
  PROVE  Offering(u)'
<1>1. unit[u].pc = "save"
  BY DEF SaveLost, At
<1>2. PICK w : w = unit[u].work
  OBVIOUS
<1>3. PICK s : s = Saved(db, w)
  OBVIOUS
<1>4. /\ WorkFits(db, u, Home(u), w) /\ \A i \in 1 .. Len(w) : Careful(db, w, i)
      /\ s.ok \in BOOLEAN /\ s.done \in 0 .. Len(w) /\ (s.ok => s.done = Len(w))
      /\ s.ok => Offers(s.rows)
  BY <1>1, <1>2, <1>3, TrackedOffers
<1>5. PICK o : o = unit[u] /\ IsRequest(o)
  BY DEF AdminInv, RequestOK, IsRequest, Request
<1>6. PICK yes \in BOOLEAN : yes
  OBVIOUS
<1>7. PICK a, b : a = [o EXCEPT !.pc = "close"] /\ b = [a EXCEPT !.failed = yes]
  OBVIOUS
<1>8. PICK c : c = [b EXCEPT !.lost = yes]
  OBVIOUS
<1>9. a = Request("close", o.call, o.server, o.seen, o.work, o.failed, o.lost)
  BY <1>5, <1>7 DEF IsRequest, Request
<1>10. b = Request("close", o.call, o.server, o.seen, o.work, yes, o.lost)
  BY <1>7, <1>9 DEF Request
<1>11. c = Request("close", o.call, o.server, o.seen, w, yes, yes)
  BY <1>2, <1>5, <1>8, <1>10 DEF Request
<1>12. c.work = w
  BY <1>11 DEF Request
<1>13. \E rows, done, v :
          /\ Commit(u, rows, [c EXCEPT !.work = v]) /\ v = AfterFailure(c.work, done)
          /\ \/ rows = db /\ done \in 0 .. s.done
             \/ s.ok /\ rows = s.rows /\ done = s.done
  <2>1. yes = TRUE
    BY <1>6
  <2>2. c = [o EXCEPT !.pc = "close", !.failed = TRUE, !.lost = TRUE]
    BY <1>7, <1>8, <2>1
  <2>3. s = Saved(db, unit[u].work)
    BY <1>2, <1>3
  <2>4. QED
    BY <1>5, <2>2, <2>3, Zenon DEF SaveLost
<1>14. PICK rows, done, v :
          /\ Commit(u, rows, [c EXCEPT !.work = v]) /\ v = AfterFailure(c.work, done)
          /\ \/ rows = db /\ done \in 0 .. s.done
             \/ s.ok /\ rows = s.rows /\ done = s.done
  BY <1>13
<1>15. [c EXCEPT !.work = v] = Request("close", o.call, o.server, o.seen, v, yes, yes)
  BY <1>11 DEF Request
<1>16. db' = rows /\ unit' = [unit EXCEPT ![u] = Request("close", o.call, o.server, o.seen, v, yes, yes)]
  BY <1>14, <1>15 DEF Commit
<1>17. Offers(rows) /\ \A i \in 1 .. Len(v) : Careful(rows, v, i)
  <2>1. done \in Nat /\ v = AfterFailure(w, done)
    BY <1>4, <1>12, <1>14
  <2>2. /\ \A i \in 1 .. Len(v) : Careful(db, v, i)
        /\ done = Len(w) => \A r : \A i \in 1 .. Len(v) : Careful(r, v, i)
    BY <1>4, <2>1, FailedCareful
  <2>3. QED
    BY <1>4, <1>14, <2>2
<1>18. QED
  BY <1>5, <1>16, <1>17, SettleOffers

\* The close of the scope.
LEMMA CloseOffers ==
  ASSUME AdminInv, Postgres, Offers(db), NEW u \in Unit, OfferOK(u), Close(u)
  PROVE  Offering(u)'
<1>1. unit[u].pc = "close"
  BY DEF Close, At
<1>2. PICK w : w = unit[u].work
  OBVIOUS
<1>3. PICK s : s = Saved(db, w)
  OBVIOUS
<1>4. s.ok \in BOOLEAN /\ (s.ok => Offers(s.rows))
  BY <1>1, <1>2, <1>3, TrackedOffers
<1>5. PICK o : o = unit[u] /\ IsRequest(o)
  BY DEF AdminInv, RequestOK, IsRequest, Request
<1>6. PICK rows : /\ Commit(u, rows, [o EXCEPT !.pc = "done", !.work = <<>>])
                  /\ s.ok => rows = s.rows
                  /\ ~s.ok => rows = db
  BY <1>2, <1>3, <1>5 DEF Close
<1>7. [o EXCEPT !.pc = "done", !.work = <<>>] = Request("done", o.call, o.server, o.seen, <<>>, o.failed, o.lost)
  BY <1>5, Closed
<1>8. db' = rows /\ unit' = [unit EXCEPT ![u] = Request("done", o.call, o.server, o.seen, <<>>, o.failed, o.lost)]
  BY <1>6, <1>7 DEF Commit
<1>9. Offers(rows)
  BY <1>4, <1>6
<1>10. QED
  BY <1>5, <1>8, <1>9, SettleOffers

\* Applications have algorithms that are offered at the start,
LEMMA OfferInit == ASSUME Init PROVE OfferInv
<1>1. \A u \in Unit : unit[u].pc = "idle"
  BY DEF Init, Waiting
<1>2. Postgres => Offers(db)
  BY OffersAssumption DEF Init, Postgres
<1>3. QED
  BY <1>1, <1>2 DEF OfferInv, OfferOK

\* and every step keeps it so.
LEMMA OfferNext == ASSUME AdminInv, RefusedInv, OfferInv, [Next]_vars PROVE OfferInv'
<1>1. CASE vars' = vars
  <2>1. UNCHANGED <<backend, db, unit, overlap>>
    BY <1>1 DEF vars
  <2>2. ASSUME NEW u \in Unit, OfferOK(u) PROVE OfferOK(u)'
    <3>1. Current(u)' <=> Current(u)
      BY <2>1 DEF Current, Call, Server
    <3>2. QED
      BY <2>1, <2>2, <3>1 DEF OfferOK
  <2>3. QED
    BY <2>1, <2>2 DEF OfferInv, Postgres
<1>2. ASSUME vars' # vars, Postgres', ~overlap' PROVE Offers(db)' /\ \A u \in Unit : OfferOK(u)'
  <2>1. PICK u \in Unit : Happens(u)
    BY <1>2, NextHappens
  <2>2. Postgres /\ ~overlap
    BY <1>2, <2>1, StepChanges, StepRecords DEF Postgres
  <2>3. Offers(db) /\ OfferOK(u)
    BY <2>2 DEF OfferInv
  <2>4. Offering(u)'
    BY <2>1, <2>2, <2>3, AdmitOffers, HandleOffers, SaveOffers, SaveLostOffers, CloseOffers DEF Happens
  <2>5. ASSUME NEW v \in Unit \ {u} PROVE OfferOK(v)'
    <3>1. ~Running(v)
      <4>1. Alone
        BY DEF RefusedInv
      <4>2. unit[u].pc \in {"idle", "handle", "save", "close"}
            /\ (unit[u].pc = "idle" => ~Running(v))
        BY <1>2, <2>1, StepRecords
      <4>3. unit[u].pc # "idle" => Running(u)
        BY <4>2 DEF Running
      <4>4. QED
        BY <2>2, <4>1, <4>2, <4>3 DEF Alone
    <3>2. unit'[v] = unit[v]
      BY <2>1, StepChanges
    <3>3. QED
      BY <3>1, <3>2 DEF Running, OfferOK
  <2>6. QED
    BY <2>4, <2>5 DEF Offering
<1>3. QED
  BY <1>1, <1>2 DEF OfferInv

\* On PostgreSQL an application that is live signs with an algorithm that its virtual server
\* offers, as long as no two requests overlap: whatever a handler checked against the server
\* that the request has seen is still true when it is saved.
THEOREM AlgorithmsOffered == Spec => []AlgorithmOffered
<1>1. OfferInv => AlgorithmOffered
  BY DEF OfferInv, AlgorithmOffered
<1>2. Init => OfferInv
  BY OfferInit
<1>3. AdminInv /\ RefusedInv /\ OfferInv /\ [Next]_vars => OfferInv'
  BY OfferNext
<1>4. Spec => []RefusedInv
  <2>1. Init => RefusedInv
    BY RefusedInit
  <2>2. AdminInv /\ AdminInv' /\ RefusedInv /\ [Next]_vars => RefusedInv'
    BY RefusedNext
  <2>3. QED
    BY <2>1, <2>2, AdminInvariant, PTL DEF Spec
<1>5. QED
  BY <1>1, <1>2, <1>3, <1>4, AdminInvariant, PTL DEF Spec
-----------------------------------------------------------------------------
(* A new virtual server.                                                   *)

\* The columns it is known by are fixed, but for the name of a role, and are inserted.
LEMMA NeededColumns ==
  /\ IsFixed("virtualServer", "name") /\ IsFixed("template", "virtualServerId")
  /\ IsFixed("project", "virtualServerId") /\ IsFixed("project", "systemProject")
  /\ IsFixed("application", "virtualServerId") /\ IsFixed("application", "projectId")
  /\ IsFixed("user", "virtualServerId")
  /\ IsFixed("assignment", "roleId") /\ IsFixed("assignment", "userId")
  /\ "name" \in Fields("virtualServer") /\ "virtualServerId" \in Fields("template")
  /\ {"virtualServerId", "systemProject"} \subseteq Fields("project")
  /\ {"virtualServerId", "projectId", "systemApplication"} \subseteq Fields("application")
  /\ {"virtualServerId", "projectId", "name"} \subseteq Fields("role")
  /\ "virtualServerId" \in Fields("user") /\ {"roleId", "userId"} \subseteq Fields("assignment")
<1>1. /\ "virtualServerId" \in DOMAIN RefersTo("template") /\ "virtualServerId" \in DOMAIN RefersTo("project")
      /\ {"virtualServerId", "projectId"} \subseteq DOMAIN RefersTo("application")
      /\ "virtualServerId" \in DOMAIN RefersTo("user")
      /\ {"roleId", "userId"} \subseteq DOMAIN RefersTo("assignment")
      /\ {"virtualServerId", "projectId"} \subseteq DOMAIN RefersTo("role")
  BY ReferencesOf
<1>2. IsFixed("virtualServer", "name")
  BY DEF IsFixed, TableOf, Table, VirtualServer_table
<1>3. IsFixed("project", "systemProject")
  BY DEF IsFixed
<1>4. "name" \in Fields("virtualServer")
  BY DEF Fields, EntityOf, Entity, VirtualServer_entity
<1>5. "systemApplication" \in Fields("application") /\ "systemProject" \in Fields("project")
      /\ "name" \in Fields("role")
  BY FieldsOf
<1>6. \A kind \in Kind : DOMAIN RefersTo(kind) \subseteq Fields(kind)
  BY FixedFields
<1>7. {"template", "project", "application", "user", "assignment", "role"} \subseteq Kind
  BY Kinds
<1>8. QED
  BY <1>1, <1>2, <1>3, <1>4, <1>5, <1>6, <1>7 DEF IsFixed

\* What a virtual server needs keeps its columns while rows evolve, or is left alone.
LEMMA NeedStays ==
  ASSUME NEW u, NEW fields, NEW admins, NEW id, NEW kind, NEW values, Needs(u, fields, admins, id, kind, values),
         NEW rows, Stands(rows, id, kind, values), NEW r, NEW new, Evolves(rows, r, new), r[id].live,
         kind = "role" => r[id] = rows[id]
  PROVE  Stands(r, id, kind, values)
<1>1. Keeps(rows, r, id) /\ id \in DOMAIN r /\ r[id].kind = kind
  BY DEF Stands, Evolves, Keeps
<1>2. ASSUME NEW c \in DOMAIN values PROVE r[id].fields[c] = rows[id].fields[c]
  <2>1. CASE kind = "role"
    BY <2>1
  <2>2. CASE kind = "application"
    <3>1. c \in {"virtualServerId", "projectId", "systemApplication"}
      BY <1>2, <2>2 DEF Needs
    <3>2. QED
      BY <1>1, <2>2, <3>1, NeededColumns DEF Keeps, Stands
  <2>3. CASE kind \notin {"role", "application"}
    <3>1. IsFixed(kind, c)
      BY <1>2, <2>3, NeededColumns DEF Needs
    <3>2. QED
      BY <1>1, <3>1 DEF Keeps, Stands
  <2>4. QED
    BY <2>1, <2>2, <2>3
<1>3. QED
  BY <1>1, <1>2 DEF Stands

\* A virtual server that has what it needs keeps it, whatever a request reaches: what makes
\* administrators of its administrators is out of reach.
LEMMA FurnishedStays ==
  ASSUME AdminInv, NEW v \in Unit, NEW r, Reaches(v, r), NEW u, NEW fields, NEW admins, Furnished(db, u, fields, admins)
  PROVE  Furnished(r, u, fields, admins)
<1>1. Evolves(db, r, DOMAIN r)
  BY DEF Reaches
<1>2. PICK p : p = Default(u, "project")
  OBVIOUS
<1>3. db[p].fields.systemProject
  <2>1. PICK values : values = [virtualServerId |-> New1(u, "virtualServer"), systemProject |-> TRUE]
    OBVIOUS
  <2>2. Needs(u, fields, admins, p, "project", values)
    BY <1>2, <2>1 DEF Needs
  <2>3. \A c \in DOMAIN values : db[p].fields[c] = values[c]
    BY <2>2 DEF Furnished, Stands
  <2>4. "systemProject" \in DOMAIN values /\ values["systemProject"] = TRUE
    BY <2>1
  <2>5. QED
    BY <2>3, <2>4
<1>4. ASSUME NEW id, NEW kind, NEW values, Needs(u, fields, admins, id, kind, values)
      PROVE  Stands(r, id, kind, values)
  <2>1. Stands(db, id, kind, values) /\ id \in DOMAIN db /\ db[id].kind = kind /\ db[id].live
    BY <1>4 DEF Furnished, Stands
  <2>2. Keeps(db, r, id)
    BY <1>1, <2>1 DEF Evolves
  <2>3. ASSUME r[id] # db[id]
        PROVE  \E f : MayChange(db, Home(v), id, f) /\ (~r[id].live => SystemFields \subseteq f)
    BY <2>1, <2>3 DEF Reaches, Permits
  <2>4. CASE kind = "role"
    <3>1. db[id].fields.projectId = p
      <4>1. values = [virtualServerId |-> New1(u, "virtualServer"), projectId |-> p, name |-> "admin"]
        BY <1>2, <1>4, <2>4 DEF Needs
      <4>2. "projectId" \in DOMAIN values /\ values["projectId"] = p
        BY <4>1
      <4>3. QED
        BY <2>1, <4>2 DEF Stands
    <3>2. r[id] = db[id]
      BY <1>3, <2>1, <2>3, <2>4, <3>1 DEF MayChange
    <3>3. QED
      BY <1>1, <1>4, <2>1, <3>2, NeedStays
  <2>5. CASE kind = "application"
    <3>1. db[id].fields.systemApplication
      <4>1. values = [virtualServerId |-> New1(u, "virtualServer"), projectId |-> p, systemApplication |-> TRUE]
        BY <1>2, <1>4, <2>5 DEF Needs
      <4>2. "systemApplication" \in DOMAIN values /\ values["systemApplication"] = TRUE
        BY <4>1
      <4>3. QED
        BY <2>1, <4>2 DEF Stands
    <3>2. SystemFields # {}
      BY DEF SystemFields
    <3>3. r[id].live
      BY <2>1, <2>3, <2>5, <3>1, <3>2 DEF MayChange
    <3>4. QED
      BY <1>1, <1>4, <2>1, <2>5, <3>3, NeedStays
  <2>6. CASE kind \notin {"role", "application"}
    <3>1. kind \notin Removed
      BY <1>4, <2>6 DEF Needs, Removed
    <3>2. r[id].live
      BY <2>1, <2>2, <3>1 DEF Keeps
    <3>3. QED
      BY <1>1, <1>4, <2>1, <2>6, <3>2, NeedStays
  <2>7. QED
    BY <2>4, <2>5, <2>6
<1>5. QED
  BY <1>4 DEF Furnished

\* A tracker that inserts all of it leaves it to the rows, when it is saved.
LEMMA TracksFurnishes ==
  ASSUME NEW rows, NEW u, NEW H, NEW w, NEW r, StoredAs(rows, u, H, w, r),
         NEW x, NEW fields, NEW admins, Tracks(w, x, fields, admins)
  PROVE  Furnished(r, x, fields, admins)
<1>1. ASSUME NEW id, NEW kind, NEW values, Needs(x, fields, admins, id, kind, values)
      PROVE  Stands(r, id, kind, values)
  <2>1. PICK i \in 1 .. Len(w) :
           /\ w[i].change = "added" /\ w[i].id = id /\ w[i].kind = kind
           /\ \A c \in DOMAIN values : w[i].fields[c] = values[c]
    BY <1>1 DEF Tracks, Adds
  <2>2. PICK e : e = w[i]
    OBVIOUS
  <2>3. EntryFits(rows, u, e) /\ e.kind \in Kind /\ Effected(rows, r, e)
    BY <2>1, <2>2 DEF StoredAs, WorkFits, Fits, EntryFits, IsEntry, Effects
  <2>4. DOMAIN e.fields = Fields(kind)
    BY <2>1, <2>2, <2>3 DEF EntryFits
  <2>5. id \in DOMAIN r /\ r[id] = Row(kind, Stored(e))
    BY <2>1, <2>2, <2>3 DEF Effected
  <2>6. r[id].kind = kind /\ r[id].live /\ r[id].fields = Stored(e)
    BY <2>5 DEF Row
  <2>7. DOMAIN values \subseteq Fields(kind) \ {"requireEmailVerification"}
    BY <1>1, NeededColumns DEF Needs
  <2>8. \A c \in DOMAIN values : Stored(e)[c] = values[c]
    BY <2>1, <2>2, <2>3, <2>4, <2>7, AllInserted DEF Stored
  <2>9. QED
    BY <2>5, <2>6, <2>8 DEF Stands
<1>2. QED
  BY <1>1 DEF Furnished

\* Only a request that creates a virtual server inserts one, and it is not what is left to a
\* request that succeeded.
LEMMA ServerIsNew ==
  ASSUME AdminInv, NEW u \in Unit, unit[u].pc \in {"save", "close"}, NEW s, s = Saved(db, unit[u].work), s.ok,
         NEW id \in DOMAIN s.rows \ DOMAIN db, s.rows[id].kind = "virtualServer"
  PROVE  Call(u).op = "CreateVirtualServer" /\ (unit[u].pc = "close" => unit[u].failed)
<1>1. RequestOK(u) /\ AuditOK(u) /\ Base /\ Sound(db) /\ BackendOK
  BY AdministrationAssumption DEF AdminInv, Base, BackendOK
<1>2. PICK w, H : w = unit[u].work /\ H = Home(u)
  OBVIOUS
<1>3. WorkFits(db, u, H, w)
  BY <1>1, <1>2 DEF RequestOK
<1>4. Effects(db, w, s.rows, Len(w))
  BY <1>1, <1>2, <1>3, SaveAdvances
<1>5. PICK i \in 1 .. Len(w) :
         w[i].id = id /\ w[i].change = "added" /\ Fits(db, u, H, w, i) /\ w[i].kind = "virtualServer"
  BY <1>3, <1>4, AddedRow
<1>6. id = H
  BY <1>5 DEF Fits, Belongs
<1>7. Call(u).op = "CreateVirtualServer"
  <2>1. ASSUME Call(u).op # "CreateVirtualServer" PROVE H \in DOMAIN db
    <3>1. Call(u) \in CallsOf[u]
      BY <1>1 DEF RequestOK, Call
    <3>2. CASE Call(u).op = "SetPassword"
      <4>1. IsUser(Call(u).on)
        BY <3>1, <3>2, CallsAssumption
      <4>2. PICK user : user = Call(u).on
        OBVIOUS
      <4>3. user \in DOMAIN InitialRows /\ InitialRows[user].kind = "user" /\ Whole(InitialRows, user)
        BY <4>1, <4>2, InitialRowsAssumption DEF IsUser
      <4>4. InitialRows[user].fields.virtualServerId \in DOMAIN InitialRows
        BY <4>3, ReferencesOf DEF Whole
      <4>5. QED
        BY <1>1, <1>2, <2>1, <3>2, <4>2, <4>4 DEF Home, Base, Keeps
    <3>3. CASE Call(u).op # "SetPassword"
      <4>1. Call(u).by # "system"
        BY <3>1, <3>3, CallsAssumption
      <4>2. Server(u) \in DOMAIN db
        BY <1>1, <4>1 DEF RequestOK, Seen, Call
      <4>3. QED
        BY <1>2, <2>1, <3>3, <4>2 DEF Home
    <3>4. QED
      BY <3>2, <3>3
  <2>2. QED
    BY <1>6, <2>1
<1>8. ASSUME unit[u].pc = "close", ~unit[u].failed PROVE FALSE
  <2>1. Call(u).op \notin Unchecked
    BY <1>7 DEF Unchecked
  <2>2. w = AuditEntry(u)
    BY <1>1, <1>2, <1>8, <2>1 DEF AuditOK, Call
  <2>3. w # <<>> => w[1].kind = "auditLog" /\ Len(w) = 1
    BY <2>2 DEF AuditEntry, Insertion, Entry
  <2>4. QED
    BY <1>5, <2>3
<1>9. QED
  BY <1>7, <1>8, <1>1 DEF RequestOK


\* Before the handler runs there is no row of the request.
LEMMA NotBegun ==
  ASSUME AdminInv, NEW u \in Unit, unit[u].pc \in {"idle", "handle"}
  PROVE  ~HasServer(db, u)
<1>1. RequestOK(u)
  BY DEF AdminInv
<1>2. \A id \in DOMAIN db : id[1] # u
  BY <1>1 DEF RequestOK
<1>3. New1(u, "virtualServer")[1] = u
  BY DEF New1
<1>4. QED
  BY <1>2, <1>3 DEF HasServer

\* What a transaction stores.
LEMMA CommitFurnishes ==
  ASSUME AdminInv, NEW u \in Unit, CreationOK(u), unit[u].pc \in {"save", "close"},
         unit[u].failed => unit[u].lost, NEW s, s = Saved(db, unit[u].work),
         NEW rows, rows = db \/ (s.ok /\ rows = s.rows), HasServer(rows, u)
  PROVE  Furnished(rows, u, Begun(u), Admins(u)) /\ Keyed(u)
<1>1. CASE rows = db
  BY <1>1 DEF CreationOK
<1>2. CASE s.ok /\ rows = s.rows
  <2>1. PICK sv : sv = New1(u, "virtualServer")
    OBVIOUS
  <2>2. sv \in DOMAIN rows /\ rows[sv].kind = "virtualServer"
    BY <2>1 DEF HasServer
  <2>3. CASE sv \in DOMAIN db
    <3>1. Reaches(u, rows)
      BY <1>2, SavedReaches
    <3>2. db[sv].kind = "virtualServer"
      BY <2>2, <2>3, <3>1 DEF Reaches, Evolves, Keeps
    <3>3. Furnished(db, u, Begun(u), Admins(u)) /\ Keyed(u)
      BY <2>1, <2>3, <3>2 DEF CreationOK, HasServer
    <3>4. QED
      BY <3>1, <3>3, FurnishedStays
  <2>4. CASE sv \notin DOMAIN db
    <3>1. Call(u).op = "CreateVirtualServer" /\ (unit[u].pc = "close" => unit[u].failed)
      BY <1>2, <2>2, <2>4, ServerIsNew
    <3>2. PICK w, H : w = unit[u].work /\ H = Home(u)
      OBVIOUS
    <3>3. Tracks(w, u, Begun(u), Admins(u)) /\ Keyed(u)
      BY <3>1, <3>2 DEF CreationOK
    <3>4. WorkFits(db, u, H, w) /\ Sound(db) /\ BackendOK
      BY <3>2, AdministrationAssumption DEF AdminInv, Base, RequestOK, BackendOK
    <3>5. s.done = Len(w) /\ After(db, H, w, s.rows, s.done) /\ Effects(db, w, s.rows, s.done)
      BY <1>2, <3>2, <3>4, SavedWork
    <3>6. StoredAs(db, u, H, w, rows)
      BY <1>2, <3>4, <3>5 DEF StoredAs
    <3>7. QED
      BY <3>3, <3>6, TracksFurnishes
  <2>5. QED
    BY <2>3, <2>4
<1>3. QED
  BY <1>1, <1>2

\* How a request may go on at its end: one that is lost still tracks what it creates.
Settles(u, o, pc, w, failed, lost) ==
    /\ o.pc \in {"save", "close"} /\ pc \in {"close", "done"}
    /\ (failed => lost) => (o.failed => o.lost)
    /\ pc = "close" /\ failed /\ lost /\ o.call.op = "CreateVirtualServer"
          => Tracks(w, u, Begun(u), Admins(u)) /\ Keyed(u)

\* What these steps leave behind.
LEMMA SettleCreates ==
  ASSUME AdminInv, NEW u \in Unit, CreationOK(u), keys' = keys, NEW o, o = unit[u],
         NEW pc, NEW w, NEW failed, NEW lost, Settles(u, o, pc, w, failed, lost),
         NEW s, s = Saved(db, o.work), db' = db \/ (s.ok /\ db' = s.rows),
         unit' = [unit EXCEPT ![u] = Request(pc, o.call, o.server, o.seen, w, failed, lost)]
  PROVE  CreationOK(u)'
<1>1. u \in DOMAIN unit
  BY DEF AdminInv, Base
<1>2. /\ unit'[u].pc = pc /\ unit'[u].call = o.call /\ unit'[u].work = w
      /\ unit'[u].failed = failed /\ unit'[u].lost = lost
  BY <1>1 DEF Request
<1>3. Begun(u)' = Begun(u) /\ Admins(u)' = Admins(u) /\ Call(u)' = o.call
  BY <1>2 DEF Begun, Admins, New1, Values, Call
<1>4. Keyed(u)' <=> Keyed(u)
  BY <1>3 DEF Keyed
<1>5. ASSUME HasServer(db', u), failed => lost PROVE Furnished(db', u, Begun(u), Admins(u)) /\ Keyed(u)
  BY <1>5, CommitFurnishes DEF Settles
<1>6. HasServer(db, u)' <=> HasServer(db', u)
  BY DEF HasServer, New1
<1>7. Furnished(db, u, Begun(u), Admins(u))' <=> Furnished(db', u, Begun(u), Admins(u))
  BY <1>3
<1>8. Tracks(unit[u].work, u, Begun(u), Admins(u))' <=> Tracks(w, u, Begun(u), Admins(u))
  BY <1>2, <1>3
<1>9. QED
  BY <1>2, <1>3, <1>4, <1>5, <1>6, <1>7, <1>8 DEF CreationOK, Settles

\* A request that is admitted has not created anything.
LEMMA AdmitCreates ==
  ASSUME AdminInv, NEW u \in Unit, Admit(u)
  PROVE  CreationOK(u)'
<1>1. unit[u].pc = "idle" /\ db' = db
  BY DEF Admit, At
<1>2. ~HasServer(db, u)'
  <2>1. ~HasServer(db, u)
    BY <1>1, NotBegun
  <2>2. QED
    BY <1>1, <2>1 DEF HasServer, New1
<1>3. u \in DOMAIN unit
  BY DEF AdminInv, Base
<1>4. unit'[u].pc \in {"handle", "done"} /\ unit'[u].lost = FALSE
  <2>1. PICK c \in CallsOf[u] :
           \E server \in IF c.by = "system" THEN {Nil} ELSE First("virtualServer", [name |-> c.at]) :
             LET admitted == (server # Nil \/ c.by = "system") /\ Allowed(c.by, c.op) IN
             unit' = [unit EXCEPT ![u] =
                [pc |-> IF admitted THEN "handle" ELSE "done", call |-> c, server |-> server,
                 seen |-> IF server = Nil THEN Nil ELSE db[server], work |-> <<>>,
                 failed |-> ~admitted, lost |-> FALSE]]
    BY DEF Admit
  <2>2. PICK server : LET admitted == (server # Nil \/ c.by = "system") /\ Allowed(c.by, c.op) IN
             unit' = [unit EXCEPT ![u] =
                [pc |-> IF admitted THEN "handle" ELSE "done", call |-> c, server |-> server,
                 seen |-> IF server = Nil THEN Nil ELSE db[server], work |-> <<>>,
                 failed |-> ~admitted, lost |-> FALSE]]
    BY <2>1
  <2>3. QED
    BY <1>3, <2>2
<1>5. QED
  BY <1>2, <1>4 DEF CreationOK

\* Its handler creates no row yet; if it succeeds it has generated the keys and tracks all
\* that a virtual server needs.
LEMMA HandleCreates ==
  ASSUME AdminInv, NEW u \in Unit, CreationOK(u), Handle(u)
  PROVE  CreationOK(u)'
<1>1. unit[u].pc = "handle" /\ (Call(u).op = "CreateVirtualServer" => CreateVirtualServer(u))
  BY HandleSteps
<1>2. RequestOK(u) /\ Base /\ u \in DOMAIN unit
  BY DEF AdminInv, Base
<1>3. Ready(u)
  BY <1>1, <1>2, AdministrationAssumption DEF RequestOK, Base, Ready, Call, Server, BackendOK
<1>4. PICK set, w : Legit(u, set, w) /\ (Returns(u, set, w) \/ Refuses(u, set, w))
  BY <1>3, HandleHandled DEF Handled
<1>5. PICK ok \in BOOLEAN : Return(u, ok, set, w)
  BY <1>4 DEF Returns, Refuses
<1>6. PICK o : o = unit[u] /\ IsRequest(o)
  BY <1>2 DEF RequestOK, IsRequest, Request
<1>7. PICK pc, failed : /\ pc = IF ok /\ Call(u).op \notin Unchecked THEN "save" ELSE "close"
                       /\ failed = ~ok
  OBVIOUS
<1>8. unit'[u] = Request(pc, o.call, o.server, o.seen, w, failed, o.lost)
  <2>1. unit' = [unit EXCEPT ![u] = [o EXCEPT !.pc = pc, !.failed = failed, !.work = w]]
    BY <1>5, <1>6, <1>7 DEF Return
  <2>2. IsRequest(o)
    BY <1>6
  <2>3. [o EXCEPT !.pc = pc, !.failed = failed, !.work = w]
           = Request(pc, o.call, o.server, o.seen, w, failed, o.lost)
    BY <2>2, Handed, Zenon
  <2>4. QED
    BY <1>2, <2>1, <2>3
<1>9. /\ unit'[u].pc = pc /\ pc \in {"save", "close"} /\ unit'[u].call = o.call /\ unit'[u].work = w
      /\ unit'[u].failed = failed /\ unit'[u].lost = o.lost
  BY <1>7, <1>8 DEF Request
<1>10. ~o.lost
  BY <1>1, <1>6 DEF CreationOK
<1>11. ~HasServer(db, u)'
  <2>1. DOMAIN db' = DOMAIN db
    BY <1>2, <1>4, <1>5, ReturnAdvances DEF Base, Legit
  <2>2. \A id \in DOMAIN db : id[1] # u
    BY <1>1, <1>2 DEF RequestOK
  <2>3. New1(u, "virtualServer")[1] = u
    BY DEF New1
  <2>4. QED
    BY <2>1, <2>2, <2>3 DEF HasServer, New1
<1>12. Begun(u)' = Begun(u) /\ Admins(u)' = Admins(u) /\ Call(u)' = Call(u)
  BY <1>6, <1>9 DEF Begun, Admins, New1, Values, Call
<1>13. ASSUME Call(u).op = "CreateVirtualServer", pc = "save"
       PROVE  Tracks(w, u, Begun(u), Admins(u)) /\ Keyed(u)'
  <2>1. CreateVirtualServer(u)
    BY <1>1, <1>13
  <2>2. PICK H, values, e1 : /\ H = New1(u, "virtualServer") /\ values = Values(u).server
                            /\ e1 = Insertion(H, "virtualServer", values)
    OBVIOUS
  <2>3. e1.id = H /\ e1.fields = New("virtualServer", values)
    BY <2>2 DEF Insertion, Entry
  <2>4. PICK generated \in BOOLEAN :
           /\ GenerateKeys(e1.fields.name, Algorithms(e1.fields), generated)
           /\ Return(u, generated /\ Values(u).rolesKnown, <<>>,
                     <<e1>> \o IF generated THEN ServerContents(u, H) ELSE <<>>)
    BY <2>1, <2>2, <2>3 DEF CreateVirtualServer
  <2>5. PICK yes \in BOOLEAN : yes <=> generated /\ Values(u).rolesKnown
    OBVIOUS
  <2>6. PICK work : work = <<e1>> \o IF generated THEN ServerContents(u, H) ELSE <<>>
    OBVIOUS
  <2>7. Return(u, yes, <<>>, work)
    BY <2>4, <2>5, <2>6 DEF Return
  <2>8. PICK next, lost : /\ next = IF yes /\ Call(u).op \notin Unchecked THEN "save" ELSE "close"
                         /\ lost = ~yes
    OBVIOUS
  <2>9. unit'[u] = Request(next, o.call, o.server, o.seen, work, lost, o.lost)
    <3>1. unit' = [unit EXCEPT ![u] = [o EXCEPT !.pc = next, !.failed = lost, !.work = work]]
      BY <1>6, <2>7, <2>8 DEF Return
    <3>2. IsRequest(o)
      BY <1>6
    <3>3. [o EXCEPT !.pc = next, !.failed = lost, !.work = work]
             = Request(next, o.call, o.server, o.seen, work, lost, o.lost)
      BY <3>2, Handed, Zenon
    <3>4. QED
      BY <1>2, <3>1, <3>3
  <2>10. next = "save" /\ w = work
    BY <1>9, <1>13, <2>9 DEF Request
  <2>11. yes /\ generated
    BY <2>5, <2>8, <2>10
  <2>12. work = <<e1>> \o ServerContents(u, H)
    BY <2>6, <2>11
  <2>13. Gives(values, "virtualServer", {}) /\ H \notin DOMAIN db /\ \A id \in DOMAIN db : id[1] # u
    <3>1. Gives(values, "virtualServer", {})
      BY <1>3, <1>13, <2>2, CallsAssumption DEF Ready, Values
    <3>2. H[1] = u
      BY <2>2 DEF New1
    <3>3. QED
      BY <1>3, <3>1, <3>2 DEF Ready
  <2>14. Tracks(w, u, Begun(u), Admins(u))
    BY <2>2, <2>10, <2>12, <2>13, ServerContentsFits DEF Begun
  <2>15. Keyed(u)'
    <3>1. keys' = keys \union ({e1.fields.name} \X Algorithms(e1.fields))
      BY <2>4, <2>11 DEF GenerateKeys
    <3>2. e1.fields = Begun(u)'
      BY <1>12, <2>2, <2>3 DEF Begun
    <3>3. QED
      BY <3>1, <3>2 DEF Keyed
  <2>16. QED
    BY <2>14, <2>15
<1>14. Tracks(unit[u].work, u, Begun(u), Admins(u))' <=> Tracks(w, u, Begun(u), Admins(u))
  BY <1>9, <1>12
<1>15. QED
  BY <1>9, <1>10, <1>11, <1>12, <1>13, <1>14 DEF CreationOK

\* A failure forgets nothing that is tracked.
LEMMA FailedTracks ==
  ASSUME NEW rows, NEW u, NEW H, NEW w, WorkFits(rows, u, H, w), NEW done \in Nat,
         NEW v, v = AfterFailure(w, done), NEW x, NEW fields, NEW admins, Tracks(w, x, fields, admins)
  PROVE  Tracks(v, x, fields, admins)
<1>1. /\ Len(v) = Len(w)
      /\ \A i \in 1 .. Len(v) :
            /\ v[i].change = w[i].change /\ v[i].kind = w[i].kind /\ v[i].id = w[i].id
            /\ v[i].fields = w[i].fields
  BY FailedFits
<1>2. ASSUME NEW id, NEW kind, NEW values, Adds(w, id, kind, values) PROVE Adds(v, id, kind, values)
  BY <1>1, <1>2 DEF Adds
<1>3. QED
  BY <1>2 DEF Tracks

\* How far a transaction gets.
LEMMA SavedCounts ==
  ASSUME AdminInv, NEW u \in Unit, unit[u].pc \in {"save", "close"},
         NEW w, w = unit[u].work, NEW s, s = Saved(db, w)
  PROVE  WorkFits(db, u, Home(u), w) /\ s.ok \in BOOLEAN /\ s.done \in Nat
<1>1. PICK H : H = Home(u)
  OBVIOUS
<1>2. WorkFits(db, u, H, w) /\ Sound(db) /\ BackendOK
  BY <1>1, AdministrationAssumption DEF AdminInv, Base, RequestOK, BackendOK
<1>3. s.ok \in BOOLEAN /\ s.done \in 0 .. Len(w)
  BY <1>2, SavedWork
<1>4. QED
  BY <1>1, <1>2, <1>3

\* SaveChangesBehaviour.
LEMMA SaveCreates ==
  ASSUME AdminInv, NEW u \in Unit, CreationOK(u), Save(u)
  PROVE  CreationOK(u)'
<1>1. unit[u].pc = "save" /\ keys' = keys
  BY DEF Save, At
<1>2. PICK w : w = unit[u].work
  OBVIOUS
<1>3. PICK s : s = Saved(db, w)
  OBVIOUS
<1>4. PICK o : o = unit[u] /\ IsRequest(o)
  BY DEF AdminInv, RequestOK, IsRequest, Request
<1>5. PICK f, l : f = o.failed /\ l = o.lost /\ ~f /\ ~l
  BY <1>1, <1>4 DEF CreationOK, AdminInv, AuditOK
<1>6. CASE s.ok
  <2>1. PICK v : v = AuditEntry(u)
    OBVIOUS
  <2>2. db' = s.rows /\ unit' = [unit EXCEPT ![u] = [[o EXCEPT !.pc = "close"] EXCEPT !.work = v]]
    BY <1>2, <1>3, <1>4, <1>6, <2>1 DEF Save, Commit
  <2>3. [[o EXCEPT !.pc = "close"] EXCEPT !.work = v]
           = Request("close", o.call, o.server, o.seen, v, o.failed, o.lost)
    BY <1>4, Closed
  <2>4. unit' = [unit EXCEPT ![u] = Request("close", o.call, o.server, o.seen, v, f, l)]
    BY <1>5, <2>2, <2>3
  <2>5. Settles(u, o, "close", v, f, l)
    BY <1>1, <1>4, <1>5 DEF Settles
  <2>6. db' = db \/ (s.ok /\ db' = s.rows)
    BY <1>6, <2>2
  <2>7. QED
    BY <1>1, <1>2, <1>3, <1>4, <2>4, <2>5, <2>6, SettleCreates
<1>7. CASE ~s.ok
  <2>1. PICK v : v = AfterFailure(w, s.done)
    OBVIOUS
  <2>2. PICK a : a = [o EXCEPT !.pc = "close"]
    OBVIOUS
  <2>3. a = Request("close", o.call, o.server, o.seen, o.work, o.failed, o.lost)
    BY <1>4, <2>2 DEF IsRequest, Request
  <2>4. /\ IsRequest(a) /\ a.pc = "close" /\ a.call = o.call /\ a.server = o.server /\ a.seen = o.seen
        /\ a.work = w /\ a.lost = o.lost
    BY <1>2, <1>4, <2>3 DEF IsRequest, Request
  <2>5. db' = db /\ unit' = [unit EXCEPT ![u] = [a EXCEPT !.failed = TRUE, !.work = v]]
    BY <1>2, <1>3, <1>4, <1>7, <2>1, <2>2, <2>4 DEF Save, Commit
  <2>6. [a EXCEPT !.failed = TRUE, !.work = v] = Request("close", o.call, o.server, o.seen, v, TRUE, o.lost)
    <3>1. PICK yes : yes = TRUE
      OBVIOUS
    <3>2. IsRequest(a)
      BY <2>4
    <3>3. [a EXCEPT !.failed = yes, !.work = v] = Request(a.pc, a.call, a.server, a.seen, v, yes, a.lost)
      BY <3>2, Refused, Zenon
    <3>4. QED
      BY <2>4, <3>1, <3>3
  <2>7. PICK yes \in BOOLEAN : yes
    OBVIOUS
  <2>8. unit' = [unit EXCEPT ![u] = Request("close", o.call, o.server, o.seen, v, yes, l)]
    <3>1. yes = TRUE
      BY <2>7
    <3>2. QED
      BY <1>5, <2>5, <2>6, <3>1
  <2>9. Settles(u, o, "close", v, yes, l)
    BY <1>1, <1>4, <1>5, <2>7 DEF Settles
  <2>10. db' = db
    BY <2>5
  <2>11. QED
    BY <1>1, <1>2, <1>3, <1>4, <2>8, <2>9, <2>10, SettleCreates
<1>8. s.ok \in BOOLEAN
  BY <1>1, <1>2, <1>3, SavedCounts
<1>9. QED
  BY <1>6, <1>7, <1>8

\* A transaction that is lost, whether or not it was committed: all of it is still tracked.
LEMMA SaveLostCreates ==
  ASSUME AdminInv, NEW u \in Unit, CreationOK(u), SaveLost(u)
  PROVE  CreationOK(u)'
<1>1. unit[u].pc = "save" /\ keys' = keys
  BY DEF SaveLost, At
<1>2. PICK w : w = unit[u].work
  OBVIOUS
<1>3. PICK s : s = Saved(db, w)
  OBVIOUS
<1>4. PICK o : o = unit[u] /\ IsRequest(o)
  BY DEF AdminInv, RequestOK, IsRequest, Request
<1>5. PICK yes \in BOOLEAN : yes
  OBVIOUS
<1>6. PICK a, b : a = [o EXCEPT !.pc = "close"] /\ b = [a EXCEPT !.failed = yes]
  OBVIOUS
<1>7. PICK c : c = [b EXCEPT !.lost = yes]
  OBVIOUS
<1>8. a = Request("close", o.call, o.server, o.seen, o.work, o.failed, o.lost)
  BY <1>4, <1>6 DEF IsRequest, Request
<1>9. b = Request("close", o.call, o.server, o.seen, o.work, yes, o.lost)
  BY <1>6, <1>8 DEF Request
<1>10. c = Request("close", o.call, o.server, o.seen, w, yes, yes)
  BY <1>2, <1>4, <1>7, <1>9 DEF Request
<1>11. c.work = w
  BY <1>10 DEF Request
<1>12. \E rows, done, v :
          /\ Commit(u, rows, [c EXCEPT !.work = v]) /\ v = AfterFailure(c.work, done)
          /\ \/ rows = db /\ done \in 0 .. s.done
             \/ s.ok /\ rows = s.rows /\ done = s.done
  <2>1. yes = TRUE
    BY <1>5
  <2>2. c = [o EXCEPT !.pc = "close", !.failed = TRUE, !.lost = TRUE]
    BY <1>6, <1>7, <2>1
  <2>3. s = Saved(db, unit[u].work)
    BY <1>2, <1>3
  <2>4. QED
    BY <1>4, <2>2, <2>3, Zenon DEF SaveLost
<1>13. PICK rows, done, v :
          /\ Commit(u, rows, [c EXCEPT !.work = v]) /\ v = AfterFailure(c.work, done)
          /\ \/ rows = db /\ done \in 0 .. s.done
             \/ s.ok /\ rows = s.rows /\ done = s.done
  BY <1>12
<1>14. [c EXCEPT !.work = v] = Request("close", o.call, o.server, o.seen, v, yes, yes)
  BY <1>10 DEF Request
<1>15. db' = rows /\ unit' = [unit EXCEPT ![u] = Request("close", o.call, o.server, o.seen, v, yes, yes)]
  BY <1>13, <1>14 DEF Commit
<1>16. o.call.op = "CreateVirtualServer" => Tracks(v, u, Begun(u), Admins(u)) /\ Keyed(u)
  <2>1. WorkFits(db, u, Home(u), w) /\ s.done \in Nat
    BY <1>1, <1>2, <1>3, SavedCounts
  <2>2. done \in Nat /\ v = AfterFailure(w, done)
    BY <1>11, <1>13, <2>1
  <2>3. o.call.op = "CreateVirtualServer" => Tracks(w, u, Begun(u), Admins(u)) /\ Keyed(u)
    BY <1>1, <1>2, <1>4 DEF CreationOK, Call
  <2>4. QED
    BY <2>1, <2>2, <2>3, FailedTracks
<1>17. ~o.failed
  BY <1>1, <1>4 DEF AdminInv, AuditOK
<1>18. Settles(u, o, "close", v, yes, yes)
  BY <1>1, <1>4, <1>16, <1>17 DEF Settles
<1>19. QED
  BY <1>1, <1>2, <1>3, <1>4, <1>13, <1>15, <1>18, SettleCreates

\* The close of the scope.
LEMMA CloseCreates ==
  ASSUME AdminInv, NEW u \in Unit, CreationOK(u), Close(u)
  PROVE  CreationOK(u)'
<1>1. unit[u].pc = "close" /\ keys' = keys
  BY DEF Close, At
<1>2. PICK w : w = unit[u].work
  OBVIOUS
<1>3. PICK s : s = Saved(db, w)
  OBVIOUS
<1>4. PICK o : o = unit[u] /\ IsRequest(o)
  BY DEF AdminInv, RequestOK, IsRequest, Request
<1>5. PICK rows : /\ Commit(u, rows, [o EXCEPT !.pc = "done", !.work = <<>>])
                  /\ s.ok => rows = s.rows
                  /\ ~s.ok => rows = db
  BY <1>2, <1>3, <1>4 DEF Close
<1>6. [o EXCEPT !.pc = "done", !.work = <<>>] = Request("done", o.call, o.server, o.seen, <<>>, o.failed, o.lost)
  BY <1>4, Closed
<1>7. db' = rows /\ unit' = [unit EXCEPT ![u] = Request("done", o.call, o.server, o.seen, <<>>, o.failed, o.lost)]
  BY <1>5, <1>6 DEF Commit
<1>8. s.ok \in BOOLEAN
  BY <1>1, <1>2, <1>3, SavedCounts
<1>9. Settles(u, o, "done", <<>>, o.failed, o.lost)
  BY <1>1, <1>4 DEF Settles
<1>10. QED
  BY <1>1, <1>2, <1>3, <1>4, <1>5, <1>7, <1>8, <1>9, SettleCreates

\* The rows that a step adds are those of the request that takes it.
LEMMA NewRowsAre ==
  ASSUME AdminInv, NEW v \in Unit, Happens(v)
  PROVE  \A id \in DOMAIN db' \ DOMAIN db : id[1] = v
<1>1. RequestOK(v) /\ Base /\ Sound(db) /\ BackendOK
  BY AdministrationAssumption DEF AdminInv, Base, BackendOK
<1>2. CASE db' = db
  BY <1>2
<1>3. CASE \E set, ok, w : MaySet(v, set) /\ Return(v, ok, set, w)
  BY <1>1, <1>3, ReturnAdvances
<1>4. CASE /\ unit[v].pc \in {"save", "close"} /\ Saved(db, unit[v].work).ok
           /\ db' = Saved(db, unit[v].work).rows
  <2>1. PICK w, H : w = unit[v].work /\ H = Home(v)
    OBVIOUS
  <2>2. WorkFits(db, v, H, w)
    BY <1>1, <1>4, <2>1 DEF RequestOK
  <2>3. PICK s : s = Saved(db, w)
    OBVIOUS
  <2>4. Advances(v, s.rows)
    BY <1>1, <2>2, <2>3, SaveAdvances
  <2>5. QED
    BY <1>4, <2>1, <2>3, <2>4 DEF Advances
<1>5. QED
  BY <1>2, <1>3, <1>4, StepChanges

\* The step of another request takes nothing from a virtual server.
LEMMA OthersCreate ==
  ASSUME AdminInv, NEW v \in Unit, Happens(v), NEW u \in Unit, u # v, CreationOK(u), keys \subseteq keys'
  PROVE  CreationOK(u)'
<1>1. unit'[u] = unit[u] /\ Reaches(v, db')
  BY StepChanges, StepReaches
<1>2. Begun(u)' = Begun(u) /\ Admins(u)' = Admins(u) /\ Call(u)' = Call(u)
  BY <1>1 DEF Begun, Admins, New1, Values, Call
<1>3. Keyed(u) => Keyed(u)'
  BY <1>2 DEF Keyed
<1>4. HasServer(db, u)' => HasServer(db, u)
  <2>1. New1(u, "virtualServer")[1] = u
    BY DEF New1
  <2>2. PICK sv : sv = New1(u, "virtualServer") /\ sv[1] = u
    BY <2>1
  <2>3. ASSUME sv \in DOMAIN db', db'[sv].kind = "virtualServer"
        PROVE  sv \in DOMAIN db /\ db[sv].kind = "virtualServer"
    <3>1. sv \in DOMAIN db
      BY <2>2, <2>3, NewRowsAre
    <3>2. QED
      BY <1>1, <2>3, <3>1 DEF Reaches, Evolves, Keeps
  <2>4. QED
    BY <2>2, <2>3 DEF HasServer, New1
<1>5. Furnished(db, u, Begun(u), Admins(u)) => Furnished(db, u, Begun(u), Admins(u))'
  <2>1. PICK fields, admins : fields = Begun(u) /\ admins = Admins(u)
    OBVIOUS
  <2>2. Furnished(db, u, fields, admins) => Furnished(db', u, fields, admins)
    BY <1>1, FurnishedStays
  <2>3. QED
    BY <1>2, <2>1, <2>2
<1>6. Tracks(unit[u].work, u, Begun(u), Admins(u))' <=> Tracks(unit[u].work, u, Begun(u), Admins(u))
  BY <1>1, <1>2
<1>7. QED
  BY <1>1, <1>2, <1>3, <1>4, <1>5, <1>6 DEF CreationOK

\* At the start nothing is created.
LEMMA CreationInit == ASSUME Init PROVE CreationInv
<1>1. ASSUME NEW u \in Unit PROVE CreationOK(u)
  <2>1. unit[u] = Waiting
    BY DEF Init
  <2>2. unit[u].pc = "idle" /\ ~unit[u].lost
    BY <2>1 DEF Waiting
  <2>3. ~HasServer(db, u)
    BY <2>2, AdminInit, NotBegun
  <2>4. QED
    BY <2>2, <2>3 DEF CreationOK
<1>2. QED
  BY <1>1 DEF CreationInv

\* Every step keeps it.
LEMMA CreationNext == ASSUME AdminInv, CreationInv, [Next]_vars PROVE CreationInv'
<1>1. CASE UNCHANGED vars
  <2>1. UNCHANGED <<db, unit, keys>>
    BY <1>1 DEF vars
  <2>2. ASSUME NEW u \in Unit PROVE CreationOK(u)'
    <3>1. Begun(u)' = Begun(u) /\ Admins(u)' = Admins(u) /\ Call(u)' = Call(u)
      BY <2>1 DEF Begun, Admins, New1, Values, Call
    <3>2. Keyed(u)' <=> Keyed(u)
      BY <2>1, <3>1 DEF Keyed
    <3>3. HasServer(db, u)' <=> HasServer(db, u)
      BY <2>1 DEF HasServer, New1
    <3>4. Furnished(db, u, Begun(u), Admins(u))' <=> Furnished(db, u, Begun(u), Admins(u))
      BY <2>1, <3>1
    <3>5. Tracks(unit[u].work, u, Begun(u), Admins(u))' <=> Tracks(unit[u].work, u, Begun(u), Admins(u))
      BY <2>1, <3>1
    <3>6. CreationOK(u)
      BY DEF CreationInv
    <3>7. QED
      BY <2>1, <3>1, <3>2, <3>3, <3>4, <3>5, <3>6 DEF CreationOK
  <2>3. QED
    BY <2>2 DEF CreationInv
<1>2. CASE vars' # vars
  <2>1. PICK v \in Unit : Happens(v)
    BY <1>2, NextHappens
  <2>2. CreationOK(v)
    BY DEF CreationInv
  <2>3. CreationOK(v)'
    BY <2>1, <2>2, AdmitCreates, HandleCreates, SaveCreates, SaveLostCreates, CloseCreates DEF Happens
  <2>4. keys \subseteq keys'
    <3>1. CASE Handle(v)
      BY <3>1, HandleSteps
    <3>2. CASE ~Handle(v)
      BY <2>1, <3>2 DEF Happens, Admit, Save, SaveLost, Close
    <3>3. QED
      BY <3>1, <3>2
  <2>5. ASSUME NEW u \in Unit, u # v PROVE CreationOK(u)'
    <3>1. CreationOK(u)
      BY DEF CreationInv
    <3>2. QED
      BY <2>1, <2>4, <2>5, <3>1, OthersCreate
  <2>6. QED
    BY <2>3, <2>5 DEF CreationInv
<1>3. QED
  BY <1>1, <1>2

\* A row that stands is found by the columns it is known by.
LEMMA StandsFound ==
  ASSUME NEW id, NEW kind, NEW values, Stands(db, id, kind, values), NEW filter,
         DOMAIN filter \subseteq {"virtualServerId", "projectId", "name", "roleId", "userId"},
         \A c \in DOMAIN filter : c \in DOMAIN values /\ values[c] = filter[c]
  PROVE  id \in Select(kind, filter)
<1>1. id \in Rows(kind)
  BY DEF Stands, Rows
<1>2. ASSUME NEW c \in DOMAIN filter PROVE Holds(c, filter[c], id, db[id].fields)
  <2>1. db[id].fields[c] = filter[c]
    BY DEF Stands
  <2>2. c \in {"virtualServerId", "projectId", "name", "roleId", "userId"}
    OBVIOUS
  <2>3. QED
    BY <2>1, <2>2 DEF Holds
<1>3. QED
  BY <1>1, <1>2 DEF Select, SelectOn

\* What stands is found: a virtual server with all it needs is equipped.
LEMMA FurnishedFound ==
  ASSUME NEW u, NEW fields, NEW admins, admins \subseteq {New1(u, "user")},
         Furnished(db, u, fields, admins), NEW s, s = New1(u, "virtualServer")
  PROVE  db[s].fields.name = fields.name /\ Equipped(s, admins)
<1> DEFINE of == [virtualServerId |-> s]
<1>1. PICK t : t = Default(u, "template")
  OBVIOUS
<1>2. PICK p : p = Default(u, "project")
  OBVIOUS
<1>3. PICK a : a = Default(u, "application")
  OBVIOUS
<1>4. PICK r : r = Default(u, "role")
  OBVIOUS
<1>5. PICK user : user = New1(u, "user")
  OBVIOUS
<1>6. PICK g : g = <<u, "assignment", "user", "role">>
  OBVIOUS
<1>7. PICK vs : vs = [name |-> fields.name]
  OBVIOUS
<1>8. PICK vt : vt = of
  OBVIOUS
<1>9. PICK vp : vp = [virtualServerId |-> s, systemProject |-> TRUE]
  OBVIOUS
<1>10. PICK va : va = [virtualServerId |-> s, projectId |-> p, systemApplication |-> TRUE]
  OBVIOUS
<1>11. PICK vr : vr = [virtualServerId |-> s, projectId |-> p, name |-> "admin"]
  OBVIOUS
<1>12. PICK vg : vg = [roleId |-> r, userId |-> user]
  OBVIOUS
<1>13. Stands(db, s, "virtualServer", vs)
  <2>1. Needs(u, fields, admins, s, "virtualServer", vs)
    BY <1>7 DEF Needs
  <2>2. QED
    BY <2>1 DEF Furnished
<1>14. Stands(db, t, "template", vt)
  <2>1. Needs(u, fields, admins, t, "template", vt)
    BY <1>1, <1>8 DEF Needs
  <2>2. QED
    BY <2>1 DEF Furnished
<1>15. Stands(db, p, "project", vp)
  <2>1. Needs(u, fields, admins, p, "project", vp)
    BY <1>2, <1>9 DEF Needs
  <2>2. QED
    BY <2>1 DEF Furnished
<1>16. Stands(db, a, "application", va)
  <2>1. Needs(u, fields, admins, a, "application", va)
    BY <1>2, <1>3, <1>10 DEF Needs
  <2>2. QED
    BY <2>1 DEF Furnished
<1>17. Stands(db, r, "role", vr)
  <2>1. Needs(u, fields, admins, r, "role", vr)
    BY <1>2, <1>4, <1>11 DEF Needs
  <2>2. QED
    BY <2>1 DEF Furnished
<1>18. ASSUME user \in admins PROVE Stands(db, user, "user", vt)
  <2>1. Needs(u, fields, admins, user, "user", vt)
    BY <1>8, <1>18 DEF Needs
  <2>2. QED
    BY <2>1 DEF Furnished
<1>19. ASSUME user \in admins PROVE Stands(db, g, "assignment", vg)
  <2>1. Needs(u, fields, admins, g, "assignment", vg)
    BY <1>4, <1>6, <1>12, <1>19 DEF Needs
  <2>2. QED
    BY <2>1 DEF Furnished
<1>20. db[s].fields.name = fields.name
  <2>1. "name" \in DOMAIN vs /\ vs["name"] = fields.name
    BY <1>7
  <2>2. QED
    BY <1>13, <2>1 DEF Stands
<1>21. t \in Select("template", of) /\ (user \in admins => user \in Select("user", of))
  BY <1>8, <1>14, <1>18, StandsFound
<1>22. p \in Select("project", of) /\ db[p].fields.systemProject
  <2>1. "systemProject" \in DOMAIN vp /\ vp["systemProject"] = TRUE
    BY <1>9
  <2>2. \A c \in DOMAIN of : c \in DOMAIN vp /\ vp[c] = of[c]
    BY <1>9
  <2>3. p \in Select("project", of)
    BY <1>15, <2>2, StandsFound
  <2>4. QED
    BY <1>15, <2>1, <2>3 DEF Stands
<1>23. a \in Select("application", [projectId |-> p] ++ of) /\ db[a].fields.systemApplication
  <2>1. "systemApplication" \in DOMAIN va /\ va["systemApplication"] = TRUE
    BY <1>10
  <2>2. PICK fa : fa = [projectId |-> p] ++ of
    OBVIOUS
  <2>3. /\ DOMAIN fa \subseteq {"virtualServerId", "projectId"}
        /\ \A c \in DOMAIN fa : c \in DOMAIN va /\ va[c] = fa[c]
    BY <1>10, <2>2 DEF ++
  <2>4. a \in Select("application", fa)
    BY <1>16, <2>3, StandsFound
  <2>5. QED
    BY <1>16, <2>1, <2>2, <2>4 DEF Stands
<1>24. r \in Select("role", [projectId |-> p, name |-> "admin"] ++ of)
  <2>1. PICK fr : fr = [projectId |-> p, name |-> "admin"] ++ of
    OBVIOUS
  <2>2. /\ DOMAIN fr \subseteq {"virtualServerId", "projectId", "name"}
        /\ \A c \in DOMAIN fr : c \in DOMAIN vr /\ vr[c] = fr[c]
    BY <1>11, <2>1 DEF ++
  <2>3. r \in Select("role", fr)
    BY <1>17, <2>2, StandsFound
  <2>4. QED
    BY <2>1, <2>3
<1>25. user \in admins => g \in Select("assignment", [roleId |-> r, userId |-> user])
  BY <1>12, <1>19, StandsFound
<1>26. \A x \in admins : x \in Select("user", of) /\ Select("assignment", [roleId |-> r, userId |-> x]) # {}
  BY <1>5, <1>21, <1>25
<1>27. QED
  BY <1>20, <1>21, <1>22, <1>23, <1>24, <1>26 DEF Equipped

\* A virtual server comes with what it needs to sign, its system project and the role of its
\* administrators, held by the administrator if the request names one, and keeps it, whoever
\* else is at work: CreateVirtualServer generates the keys before it succeeds and
\* tracks the rest with the row, a transaction stores all that is tracked or nothing, also
\* when the close of the scope repeats it, and no administrator can take away what makes
\* administrators.
THEOREM NewServersComplete == Spec => []NewServerComplete
<1>1. CreationInv => NewServerComplete
  <2>1. ASSUME CreationInv, NEW u \in Unit, NEW s, s = New1(u, "virtualServer"),
               s \in Rows("virtualServer"), unit[u].failed => unit[u].lost
        PROVE  /\ {db[s].fields.name} \X Algorithms(New("virtualServer", Values(u).server)) \subseteq keys
               /\ Equipped(s, Admins(u))
    <3>1. HasServer(db, u)
      BY <2>1 DEF HasServer, Rows
    <3>2. Furnished(db, u, Begun(u), Admins(u)) /\ Keyed(u)
      BY <2>1, <3>1 DEF CreationInv, CreationOK
    <3>3. PICK fields, admins : fields = Begun(u) /\ admins = Admins(u)
      OBVIOUS
    <3>4. db[s].fields.name = fields.name /\ Equipped(s, admins)
      BY <2>1, <3>2, <3>3, FurnishedFound DEF Admins
    <3>5. QED
      BY <3>2, <3>3, <3>4 DEF Keyed, Begun
  <2>2. ASSUME NEW u \in Unit, NEW s, NEW r, Values(u).admin,
               \A user \in Admins(u) : /\ user \in Select("user", [virtualServerId |-> s])
                                       /\ Select("assignment", [roleId |-> r, userId |-> user]) # {}
        PROVE  \E user \in Select("user", [virtualServerId |-> s]) :
                  Select("assignment", [roleId |-> r, userId |-> user]) # {}
    <3>1. New1(u, "user") \in Admins(u)
      BY <2>2 DEF Admins
    <3>2. QED
      BY <2>2, <3>1, Zenon
  <2>3. ASSUME CreationInv, NEW u \in Unit, NEW s, s = New1(u, "virtualServer"),
               s \in Rows("virtualServer"), unit[u].failed => unit[u].lost
        PROVE  LET of == [virtualServerId |-> s] IN
               /\ {db[s].fields.name} \X Algorithms(New("virtualServer", Values(u).server)) \subseteq keys
               /\ Select("template", of) # {}
               /\ \E p \in Select("project", of) :
                     /\ db[p].fields.systemProject
                     /\ \E a \in Select("application", [projectId |-> p] ++ of) : db[a].fields.systemApplication
                     /\ \E r \in Select("role", [projectId |-> p, name |-> "admin"] ++ of) :
                           Values(u).admin => \E user \in Select("user", of) :
                                                 Select("assignment", [roleId |-> r, userId |-> user]) # {}
    <3>1. PICK of : of = [virtualServerId |-> s]
      OBVIOUS
    <3>2. /\ {db[s].fields.name} \X Algorithms(New("virtualServer", Values(u).server)) \subseteq keys
          /\ Equipped(s, Admins(u))
      BY <2>1, <2>3
    <3>3. Select("template", of) # {}
      BY <3>1, <3>2, Zenon DEF Equipped
    <3>4. PICK p \in Select("project", of) :
            /\ db[p].fields.systemProject
            /\ \E a \in Select("application", [projectId |-> p] ++ of) : db[a].fields.systemApplication
            /\ \E r \in Select("role", [projectId |-> p, name |-> "admin"] ++ of) : \A user \in Admins(u) :
                  user \in Select("user", of) /\ Select("assignment", [roleId |-> r, userId |-> user]) # {}
      BY <3>1, <3>2, Zenon DEF Equipped
    <3>5. PICK r \in Select("role", [projectId |-> p, name |-> "admin"] ++ of) : \A user \in Admins(u) :
            user \in Select("user", of) /\ Select("assignment", [roleId |-> r, userId |-> user]) # {}
      BY <3>4
    <3>6. Values(u).admin => \E user \in Select("user", of) :
                                Select("assignment", [roleId |-> r, userId |-> user]) # {}
      BY <2>2, <3>1, <3>5
    <3>7. QED
      BY <3>1, <3>2, <3>3, <3>4, <3>5, <3>6, Zenon
  <2>4. QED
    BY <2>3, Zenon DEF NewServerComplete
<1>2. Init => CreationInv
  BY CreationInit
<1>3. AdminInv /\ CreationInv /\ [Next]_vars => CreationInv'
  BY CreationNext
<1>4. QED
  BY <1>1, <1>2, <1>3, AdminInvariant, PTL DEF Spec


-----------------------------------------------------------------------------
(* Keys are there for a virtual server, or for one that is being created.  *)

\* If the row a tracker begins with can be inserted then so can all that depends on it: a
\* transaction that is not lost fails at its first statement or not at all.
LEMMA WorkLasts ==
  ASSUME NEW rows, NEW u, NEW H, NEW w, WorkFits(rows, u, H, w), Sound(rows), BackendOK, Linked(w),
         NEW s, s = Saved(rows, w), ~s.ok
  PROVE  s.done = 0
<1> SUFFICES ASSUME s.done # 0 PROVE FALSE
  OBVIOUS
<1>1. /\ s.done \in 0 .. Len(w) /\ s.done # Len(w) /\ ~Executable(s.rows, w[s.done + 1])
      /\ Effects(rows, w, s.rows, s.done)
  BY SavedWork
<1>2. PICK k, r : k = s.done /\ r = s.rows
  OBVIOUS
<1>3. PICK e : e = w[k + 1]
  OBVIOUS
<1>4. Len(w) \in Nat /\ k \in 1 .. Len(w) /\ k + 1 \in 1 .. Len(w) /\ k + 1 > 1 /\ (k + 1) - 1 = k
  BY <1>1, <1>2 DEF WorkFits, Tracker
<1>5. e.change = "added" /\ ~e.stamped /\ Attached(w, k + 1) /\ e.kind \in Kind
  BY <1>3, <1>4 DEF Linked, WorkFits, Fits, EntryFits, IsEntry
<1>6. /\ \A c \in DOMAIN RefersTo(e.kind) :
            e.fields[c] = Nil \/ Inserts(w, k + 1, e.fields[c], RefersTo(e.kind)[c])
      /\ \A columns \in TableOf[e.kind].unique : \E c \in columns \intersect DOMAIN RefersTo(e.kind) :
            \/ e.fields[c] = Nil
            \/ \A j \in 1 .. k : w[j].kind = e.kind => \E d \in columns : w[j].fields[d] # e.fields[d]
  BY <1>3, <1>4, <1>5 DEF Attached
<1>7. ASSUME NEW j \in 1 .. k
      PROVE  /\ w[j].id \in DOMAIN r /\ w[j].id \notin DOMAIN rows
             /\ r[w[j].id] = Row(w[j].kind, Stored(w[j]))
             /\ w[j].kind \in Kind /\ DOMAIN w[j].fields = Fields(w[j].kind)
  <2>1. j \in 1 .. Len(w)
    BY <1>4
  <2>2. w[j].change = "added"
    BY <2>1 DEF Linked
  <2>3. Effected(rows, r, w[j])
    BY <1>1, <1>2 DEF Effects
  <2>4. w[j].kind \in Kind /\ DOMAIN w[j].fields = Fields(w[j].kind)
    BY <2>1, <2>2 DEF WorkFits, Fits, EntryFits, IsEntry
  <2>5. QED
    BY <2>2, <2>3, <2>4 DEF Effected
<1>8. ASSUME NEW c \in DOMAIN RefersTo(e.kind), e.fields[c] # Nil
      PROVE  \E j \in 1 .. k : w[j].id = e.fields[c] /\ w[j].kind = RefersTo(e.kind)[c]
  BY <1>4, <1>6, <1>8 DEF Inserts
<1>9. ~Dangles(r, e)
  <2>1. ASSUME NEW c \in DOMAIN RefersTo(e.kind), e.fields[c] # Nil
        PROVE  IsLive(r, e.fields[c]) /\ r[e.fields[c]].kind = RefersTo(e.kind)[c]
    <3>1. PICK j \in 1 .. k : w[j].id = e.fields[c] /\ w[j].kind = RefersTo(e.kind)[c]
      BY <1>8, <2>1
    <3>2. w[j].id \in DOMAIN r /\ r[w[j].id] = Row(w[j].kind, Stored(w[j]))
      BY <1>7
    <3>3. QED
      BY <3>1, <3>2 DEF IsLive, Row
  <2>2. QED
    BY <2>1 DEF Dangles
<1>10. ~Conflicts(r, e)
  <2> SUFFICES ASSUME NEW id \in DOMAIN r \ {e.id}, NEW columns \in TableOf[e.kind].unique,
                      r[id].live, r[id].kind = e.kind, \A c \in columns : r[id].fields[c] = e.fields[c],
                      \A c \in columns \intersect DOMAIN RefersTo(e.kind) : e.fields[c] # Nil
               PROVE  FALSE
    BY DEF Conflicts
  <2>1. PICK c \in columns \intersect DOMAIN RefersTo(e.kind) :
            \/ e.fields[c] = Nil
            \/ \A j \in 1 .. k : w[j].kind = e.kind => \E d \in columns : w[j].fields[d] # e.fields[d]
    BY <1>6
  <2>2. CASE \E j \in 1 .. k : w[j].id = id
    <3>1. PICK j \in 1 .. k : w[j].id = id
      BY <2>2
    <3>2. PICK v : v = w[j]
      OBVIOUS
    <3>3. r[id] = Row(v.kind, Stored(v)) /\ v.kind \in Kind /\ DOMAIN v.fields = Fields(v.kind)
      BY <1>7, <3>1, <3>2
    <3>4. v.kind = e.kind /\ r[id].fields = Stored(v)
      BY <3>3 DEF Row
    <3>5. \A d \in columns : d \in Fields(v.kind) /\ d \in WriteOf[v.kind].inserted
      BY <3>3, <3>4, FixedFields, FixedInserted
    <3>6. \A d \in columns : Stored(v)[d] = v.fields[d]
      BY <3>3, <3>5 DEF Stored
    <3>7. \A d \in columns : v.fields[d] = e.fields[d]
      BY <3>4, <3>6
    <3>8. QED
      BY <2>1, <3>2, <3>4, <3>7
  <2>3. CASE ~ \E j \in 1 .. k : w[j].id = id
    <3>1. id \in DOMAIN rows
      BY <1>1, <1>2, <2>3 DEF Effects
    <3>2. r[id] = rows[id]
      BY <1>1, <1>2, <2>3, <3>1 DEF Effects
    <3>3. Whole(rows, id)
      BY <3>1 DEF Sound
    <3>4. rows[id].fields[c] = Nil \/ rows[id].fields[c] \in DOMAIN rows
      BY <3>2, <3>3 DEF Whole
    <3>5. e.fields[c] # Nil /\ e.fields[c] \in DOMAIN rows
      BY <3>2, <3>4
    <3>6. PICK j \in 1 .. k : w[j].id = e.fields[c]
      BY <1>8, <3>5
    <3>7. QED
      BY <1>7, <3>5, <3>6
  <2>4. QED
    BY <2>2, <2>3
<1>11. Executable(r, e)
  BY <1>5, <1>9, <1>10 DEF Executable
<1>12. QED
  BY <1>1, <1>2, <1>3, <1>11

\* A virtual server keeps its name, and is not deleted.
LEMMA BearsStays ==
  ASSUME NEW rows, NEW r, NEW new, Evolves(rows, r, new), NEW id, NEW name, Bears(rows, id, name)
  PROVE  Bears(r, id, name)
<1>1. Keeps(rows, r, id)
  BY DEF Bears, Evolves
<1>2. IsFixed("virtualServer", "name")
  BY NeededColumns
<1>3. r[id].fields["name"] = rows[id].fields["name"]
  BY <1>1, <1>2 DEF Bears, Keeps
<1>4. "virtualServer" \notin Removed
  BY DEF Removed
<1>5. QED
  BY <1>1, <1>3, <1>4 DEF Bears, Keeps

LEMMA BorneStays ==
  ASSUME NEW rows, NEW r, NEW new, Evolves(rows, r, new), NEW name, Borne(rows, name)
  PROVE  Borne(r, name)
<1>1. PICK id : Bears(rows, id, name)
  BY DEF Borne
<1>2. Bears(r, id, name)
  BY <1>1, BearsStays
<1>3. QED
  BY <1>2 DEF Borne, Bears

\* As long as nothing has failed, nothing had failed before.
LEMMA NothingFailed ==
  ASSUME AdminInv, NEW u \in Unit, Happens(u), faults' = 0
  PROVE  up /\ faults = 0 /\ ~SaveLost(u) /\ ~Fault
<1>1. faults \in Nat
  BY AdministrationAssumption DEF AdminInv, Base
<1>2. ~Fault
  BY <1>1 DEF Fault
<1>3. ~SaveLost(u)
  BY <1>2 DEF SaveLost
<1>4. CASE Handle(u)
  BY <1>2, <1>3, <1>4, HandleSteps
<1>5. CASE ~Handle(u)
  BY <1>2, <1>3, <1>5 DEF Happens, Admit, Save, Close, At
<1>6. QED
  BY <1>4, <1>5

\* A transaction that succeeds stores the server that is pending.
LEMMA PendingStored ==
  ASSUME AdminInv, NEW u \in Unit, Pending(u), NEW s, s = Saved(db, unit[u].work), s.ok
  PROVE  Borne(s.rows, Begun(u).name)
<1>1. PICK w, H : w = unit[u].work /\ H = Home(u)
  OBVIOUS
<1>2. WorkFits(db, u, H, w) /\ Sound(db) /\ BackendOK /\ Len(w) \in Nat
  BY <1>1, AdministrationAssumption DEF AdminInv, Base, RequestOK, BackendOK, Pending, WorkFits, Tracker
<1>3. PICK e : e = w[1]
  OBVIOUS
<1>4. /\ Len(w) >= 1 /\ 1 \in 1 .. Len(w) /\ e.change = "added" /\ e.kind = "virtualServer"
      /\ e.fields = Begun(u)
  BY <1>1, <1>2, <1>3 DEF Pending, Linked
<1>5. Effected(db, s.rows, e)
  <2>1. s.done = Len(w) /\ Effects(db, w, s.rows, s.done)
    BY <1>1, <1>2, SavedWork
  <2>2. QED
    BY <1>3, <1>4, <2>1 DEF Effects
<1>6. e.id \in DOMAIN s.rows /\ s.rows[e.id] = Row("virtualServer", Stored(e))
  BY <1>4, <1>5 DEF Effected
<1>7. Stored(e)["name"] = Begun(u)["name"]
  <2>1. "name" \in Fields("virtualServer")
    BY NeededColumns
  <2>2. DOMAIN e.fields = Fields("virtualServer")
    <3>1. EntryFits(db, u, e)
      BY <1>2, <1>3, <1>4 DEF WorkFits, Fits
    <3>2. QED
      BY <1>4, <3>1 DEF EntryFits, IsEntry
  <2>3. "name" \in WriteOf["virtualServer"].inserted
    <3>1. {"name"} \in TableOf["virtualServer"].unique
      BY DEF TableOf, Table, VirtualServer_table
    <3>2. QED
      BY <3>1, Kinds, FixedInserted
  <2>4. QED
    BY <1>4, <2>1, <2>2, <2>3 DEF Stored
<1>8. Bears(s.rows, e.id, Begun(u).name)
  BY <1>6, <1>7 DEF Bears, Row
<1>9. QED
  BY <1>6, <1>8 DEF Borne

\* What the end of a request leaves: it goes on with what could not be saved, or closes.
LEMMA EndGoesOn ==
  ASSUME AdminInv, NEW u \in Unit, Save(u) \/ Close(u), NEW w, w = unit[u].work,
         NEW s, s = Saved(db, w)
  PROVE  /\ unit'[u].call = unit[u].call /\ unit'[u].pc \in {"close", "done"}
         /\ s.ok => db' = s.rows
         /\ Save(u) /\ ~s.ok => unit'[u].pc = "close" /\ unit'[u].work = AfterFailure(w, s.done)
<1>1. PICK o : o = unit[u] /\ IsRequest(o) /\ u \in DOMAIN unit
  BY DEF AdminInv, Base, RequestOK, IsRequest, Request
<1>2. CASE Close(u)
  <2>1. PICK rows : /\ Commit(u, rows, [o EXCEPT !.pc = "done", !.work = <<>>])
                    /\ s.ok => rows = s.rows
    BY <1>1, <1>2 DEF Close
  <2>2. [o EXCEPT !.pc = "done", !.work = <<>>]
           = Request("done", o.call, o.server, o.seen, <<>>, o.failed, o.lost)
    BY <1>1, Closed
  <2>3. unit'[u] = Request("done", o.call, o.server, o.seen, <<>>, o.failed, o.lost)
    BY <1>1, <2>1, <2>2 DEF Commit
  <2>4. unit'[u].call = o.call /\ unit'[u].pc = "done"
    BY <2>3 DEF Request
  <2>5. ~Save(u)
    BY <1>2 DEF Save, Close, At
  <2>6. QED
    BY <1>1, <2>1, <2>4, <2>5 DEF Commit
<1>3. CASE Save(u) /\ s.ok
  <2>1. PICK v : v = AuditEntry(u)
    OBVIOUS
  <2>2. db' = s.rows /\ unit' = [unit EXCEPT ![u] = [[o EXCEPT !.pc = "close"] EXCEPT !.work = v]]
    BY <1>1, <1>3, <2>1 DEF Save, Commit
  <2>3. [[o EXCEPT !.pc = "close"] EXCEPT !.work = v]
           = Request("close", o.call, o.server, o.seen, v, o.failed, o.lost)
    BY <1>1, Closed
  <2>4. unit'[u] = Request("close", o.call, o.server, o.seen, v, o.failed, o.lost)
    BY <1>1, <2>2, <2>3
  <2>5. QED
    BY <1>1, <1>3, <2>2, <2>4 DEF Request
<1>4. CASE Save(u) /\ ~s.ok
  <2>1. PICK x : x = AfterFailure(w, s.done)
    OBVIOUS
  <2>2. PICK a : a = [o EXCEPT !.pc = "close"]
    OBVIOUS
  <2>3. a = Request("close", o.call, o.server, o.seen, o.work, o.failed, o.lost)
    BY <1>1, <2>2 DEF IsRequest, Request
  <2>4. IsRequest(a) /\ a.pc = "close" /\ a.call = o.call /\ a.work = w
    BY <1>1, <2>3 DEF IsRequest, Request
  <2>5. PICK yes : yes = TRUE
    OBVIOUS
  <2>6. unit' = [unit EXCEPT ![u] = [a EXCEPT !.failed = yes, !.work = x]]
    BY <1>1, <1>4, <2>1, <2>2, <2>4, <2>5 DEF Save, Commit
  <2>7. [a EXCEPT !.failed = yes, !.work = x] = Request(a.pc, a.call, a.server, a.seen, x, yes, a.lost)
    BY <2>4, Refused, Zenon
  <2>8. unit'[u] = Request("close", o.call, a.server, a.seen, x, yes, a.lost)
    BY <1>1, <2>4, <2>6, <2>7
  <2>9. unit'[u].pc = "close" /\ unit'[u].call = o.call /\ unit'[u].work = x
    BY <2>8 DEF Request
  <2>10. QED
    BY <1>1, <1>4, <2>1, <2>9
<1>5. QED
  BY <1>2, <1>3, <1>4

\* A server that is pending stays so until it is stored, or until the process ends: the close
\* of the scope repeats the transaction, and the first statement that fails ends the process.
LEMMA PendingLasts ==
  ASSUME AdminInv, NEW v \in Unit, Happens(v), up', faults' = 0, NEW u \in Unit, Pending(u)
  PROVE  Begun(u)' = Begun(u) /\ (Pending(u)' \/ Borne(db', Begun(u).name))
<1>1. PICK w, o : w = unit[u].work /\ o = unit[u]
  OBVIOUS
<1>2. /\ Call(u).op = "CreateVirtualServer" /\ o.pc \in {"save", "close"} /\ Len(w) >= 1
      /\ w[1].kind = "virtualServer" /\ w[1].fields = Begun(u) /\ Linked(w)
  BY <1>1 DEF Pending
<1>3. IsRequest(o) /\ u \in DOMAIN unit
  BY <1>1 DEF AdminInv, Base, RequestOK, IsRequest, Request
<1>4. ASSUME unit'[u].call = o.call PROVE Begun(u)' = Begun(u) /\ Call(u)' = Call(u)
  BY <1>1, <1>4 DEF Begun, Values, Call
<1>5. ASSUME unit'[u].call = o.call, unit'[u].work = w, unit'[u].pc \in {"save", "close"}
      PROVE  Pending(u)'
  <2>1. Begun(u)' = Begun(u) /\ Call(u)' = Call(u)
    BY <1>4, <1>5
  <2>2. QED
    BY <1>2, <1>5, <2>1 DEF Pending
<1>6. CASE u # v
  <2>1. unit'[u] = unit[u]
    BY <1>6, StepChanges
  <2>2. QED
    BY <1>1, <1>2, <1>4, <1>5, <2>1
<1>7. CASE u = v
  <2>1. PICK s : s = Saved(db, w)
    OBVIOUS
  <2>2. WorkFits(db, u, Home(u), w) /\ s.ok \in BOOLEAN /\ s.done \in Nat
    BY <1>1, <1>2, <2>1, SavedCounts
  <2>3. s.ok => Borne(s.rows, Begun(u).name)
    BY <1>1, <2>1, PendingStored
  <2>4. ~s.ok => s.done = 0
    <3>1. Sound(db) /\ BackendOK
      BY AdministrationAssumption DEF AdminInv, Base, BackendOK
    <3>2. QED
      BY <1>2, <2>1, <2>2, <3>1, WorkLasts
  <2>5. Save(u) \/ Close(u)
    <3>1. ~Handle(u)
      BY <1>1, <1>2, HandleSteps
    <3>2. ~Admit(u)
      BY <1>1, <1>2 DEF Admit, At
    <3>3. QED
      BY <1>7, <3>1, <3>2, NothingFailed DEF Happens
  <2>6. CASE s.ok
    BY <1>1, <1>4, <2>1, <2>3, <2>5, <2>6, EndGoesOn
  <2>7. CASE ~s.ok
    <3>1. ~Close(u)
      <4>1. Len(w) \in Nat /\ 1 \in 1 .. Len(w)
        BY <1>2, <2>2 DEF WorkFits, Tracker
      <4>2. EntryFits(db, u, w[1])
        BY <2>2, <4>1 DEF WorkFits, Fits
      <4>3. w[1].stamped = FALSE
        BY <1>2, <4>1, <4>2 DEF Linked, EntryFits, IsEntry
      <4>4. s.done + 1 = 1
        BY <2>4, <2>7
      <4>5. Close(u) => up' = (w[1].change = "added" /\ w[1].stamped)
        BY <1>1, <2>1, <2>7, <4>4 DEF Close
      <4>6. QED
        BY <4>3, <4>5
    <3>2. PICK x : x = AfterFailure(w, s.done)
      OBVIOUS
    <3>3. x = w
      <4>1. Len(w) \in Nat /\ w = [i \in 1 .. Len(w) |-> w[i]]
        BY <2>2 DEF WorkFits, Tracker
      <4>2. DOMAIN w = 1 .. Len(w)
        BY <4>1
      <4>3. x = [i \in 1 .. Len(w) |-> IF i > 0 THEN w[i]
                   ELSE [w[i] EXCEPT !.stamped = @ \/ w[i].change = "added", !.changed = {}]]
        BY <2>4, <2>7, <3>2, <4>2 DEF AfterFailure
      <4>4. \A i \in 1 .. Len(w) : i > 0
        BY <4>1
      <4>5. x = [i \in 1 .. Len(w) |-> w[i]]
        BY <4>3, <4>4
      <4>6. QED
        BY <4>1, <4>5
    <3>4. unit'[u].pc = "close" /\ unit'[u].call = o.call /\ unit'[u].work = w
      BY <1>1, <2>1, <2>5, <2>7, <3>1, <3>2, <3>3, EndGoesOn
    <3>5. QED
      BY <1>4, <1>5, <3>4
  <2>8. QED
    BY <2>2, <2>6, <2>7
<1>8. QED
  BY <1>6, <1>7

\* The virtual server of a request was found under its name, and keeps it.
LEMMA SeenUnder ==
  ASSUME AdminInv, NEW v \in Unit, Happens(v), ~SaveLost(v), NEW u \in Unit, SeenBears(u)
  PROVE  SeenBears(u)'
<1>1. Reaches(v, db')
  BY StepReaches
<1>2. ASSUME unit'[u] = unit[u] PROVE SeenBears(u)'
  <2>1. Call(u)' = Call(u) /\ Server(u)' = Server(u)
    BY <1>2 DEF Call, Server
  <2>2. PICK id, name : id = Server(u) /\ name = unit[u].seen.fields.name
    OBVIOUS
  <2>3. Bears(db, id, name) => Bears(db', id, name)
    BY <1>1, BearsStays DEF Reaches
  <2>4. QED
    BY <1>1, <1>2, <2>1, <2>2, <2>3 DEF SeenBears
<1>3. CASE u # v
  BY <1>2, <1>3, StepChanges
<1>4. CASE u = v /\ Admit(v)
  <2>1. PICK c \in CallsOf[u] :
           \E server \in IF c.by = "system" THEN {Nil} ELSE First("virtualServer", [name |-> c.at]) :
             LET admitted == (server # Nil \/ c.by = "system") /\ Allowed(c.by, c.op) IN
             unit' = [unit EXCEPT ![u] =
                [pc |-> IF admitted THEN "handle" ELSE "done", call |-> c, server |-> server,
                 seen |-> IF server = Nil THEN Nil ELSE db[server], work |-> <<>>,
                 failed |-> ~admitted, lost |-> FALSE]]
    BY <1>4 DEF Admit
  <2>2. PICK server \in IF c.by = "system" THEN {Nil} ELSE First("virtualServer", [name |-> c.at]) :
             LET admitted == (server # Nil \/ c.by = "system") /\ Allowed(c.by, c.op) IN
             unit' = [unit EXCEPT ![u] =
                [pc |-> IF admitted THEN "handle" ELSE "done", call |-> c, server |-> server,
                 seen |-> IF server = Nil THEN Nil ELSE db[server], work |-> <<>>,
                 failed |-> ~admitted, lost |-> FALSE]]
    BY <2>1
  <2>3. u \in DOMAIN unit
    BY DEF AdminInv, Base
  <2>4. /\ unit'[u].call = c /\ unit'[u].server = server
        /\ unit'[u].pc = "handle" => server # Nil \/ c.by = "system"
        /\ server # Nil => unit'[u].seen = db[server]
    BY <2>2, <2>3
  <2>5. ASSUME unit'[u].pc = "handle", c.by # "system"
        PROVE  Bears(db, server, unit'[u].seen.fields.name)
    <3>1. server # Nil /\ server \in First("virtualServer", [name |-> c.at])
      BY <2>2, <2>4, <2>5
    <3>2. server \in DOMAIN db /\ db[server].kind = "virtualServer" /\ db[server].live
      BY <3>1, LookedUp
    <3>3. QED
      BY <2>4, <3>1, <3>2 DEF Bears
  <2>6. db' = db
    BY <1>4 DEF Admit
  <2>7. Call(u)' = c /\ Server(u)' = server
    BY <2>4 DEF Call, Server
  <2>8. QED
    BY <2>5, <2>6, <2>7 DEF SeenBears
<1>5. CASE u = v /\ ~Admit(v)
  <2>1. unit'[u].pc # "handle"
    <3>1. u \in DOMAIN unit /\ IsRequest(unit[u])
      BY DEF AdminInv, Base, RequestOK, IsRequest, Request
    <3>2. CASE Handle(u)
      <4>1. unit[u].pc = "handle"
        BY <3>2, HandleSteps
      <4>2. RequestOK(u) /\ Base
        BY DEF AdminInv
      <4>3. Ready(u)
        BY <4>1, <4>2, AdministrationAssumption DEF RequestOK, Base, Ready, Call, Server, BackendOK
      <4>4. PICK set, w, ok : Return(u, ok, set, w)
        BY <3>2, <4>3, HandleHandled DEF Handled, Returns, Refuses
      <4>5. PICK pc, failed, o : /\ pc = IF ok /\ Call(u).op \notin Unchecked THEN "save" ELSE "close"
                                 /\ failed = ~ok /\ o = unit[u]
        OBVIOUS
      <4>6. unit' = [unit EXCEPT ![u] = [o EXCEPT !.pc = pc, !.failed = failed, !.work = w]]
        BY <4>4, <4>5 DEF Return
      <4>7. [o EXCEPT !.pc = pc, !.failed = failed, !.work = w]
               = Request(pc, o.call, o.server, o.seen, w, failed, o.lost)
        <5>1. IsRequest(o)
          BY <3>1, <4>5
        <5>2. QED
          BY <5>1, Handed, Zenon
      <4>8. unit'[u].pc = pc
        BY <3>1, <4>6, <4>7 DEF Request
      <4>9. QED
        BY <4>5, <4>8
    <3>3. CASE ~Handle(u)
      BY <1>5, <3>3, EndGoesOn DEF Happens
    <3>4. QED
      BY <3>2, <3>3
  <2>2. QED
    BY <2>1 DEF SeenBears
<1>6. QED
  BY <1>3, <1>4, <1>5

\* A change of a virtual server generates keys under the name that it has.
LEMMA PatchBrings ==
  ASSUME AdminInv, NEW u \in Unit, Handle(u), PatchVirtualServer(u), ~Fault, SeenBears(u),
         NEW k \in keys', k \notin keys
  PROVE  Borne(db, k[1])
<1>1. unit[u].pc = "handle"
  BY HandleSteps
<1>2. RequestOK(u) /\ Base
  BY DEF AdminInv
<1>3. Ready(u)
  BY <1>1, <1>2, AdministrationAssumption DEF RequestOK, Base, Ready, Call, Server, BackendOK
<1>4. Call(u).op = "PatchVirtualServer" /\ DOMAIN Values(u) \subseteq SettersOf["virtualServer"]
  BY <1>3, CallsAssumption DEF PatchVirtualServer, Handles, SetBy, Ready, Values
<1>5. Call(u).by # "system"
  BY <1>3, <1>4, CallsAssumption DEF Ready
<1>6. PICK id, row : id = Server(u) /\ row = ServerRow(u)
  OBVIOUS
<1>7. Bears(db, id, unit[u].seen.fields.name)
  BY <1>1, <1>5, <1>6 DEF SeenBears
<1>8. Bears(db, id, row.fields.name)
  BY <1>6, <1>7 DEF ServerRow, Bears
<1>9. "name" \in DOMAIN row.fields
  <2>1. Seen(u) /\ Complete(db[id])
    BY <1>3, <1>5, <1>7 DEF Ready, Sound, Whole, Bears
  <2>2. Complete(row) /\ row.kind = "virtualServer"
    BY <1>6, <1>7, <2>1 DEF Seen, ServerRow, Bears
  <2>3. QED
    BY <2>2, NeededColumns DEF Complete
<1>10. "name" \notin DOMAIN Values(u)
  <2>1. "virtualServer" \in Kind
    BY Kinds
  <2>2. IsFixed("virtualServer", "name")
    BY NeededColumns
  <2>3. QED
    BY <1>4, <2>1, <2>2, FixedStay
<1>11. PICK fields : fields = Values(u) ++ row.fields
  OBVIOUS
<1>12. fields["name"] = row.fields["name"]
  BY <1>9, <1>10, <1>11 DEF ++
<1>13. PICK ok : GenerateKeys(fields.name, Keyless(fields), ok) \/ keys' = keys
  BY <1>6, <1>11 DEF PatchVirtualServer
<1>14. k \in {fields.name} \X Keyless(fields)
  BY <1>13 DEF GenerateKeys
<1>15. k[1] = row.fields.name
  BY <1>12, <1>14
<1>16. QED
  BY <1>8, <1>15 DEF Borne, Bears

\* The creation of a virtual server generates the keys of a server that it tracks.
LEMMA CreateBrings ==
  ASSUME AdminInv, NEW u \in Unit, Handle(u), CreateVirtualServer(u), ~Fault,
         NEW k \in keys', k \notin keys
  PROVE  Pending(u)' /\ Begun(u)'.name = k[1]
<1>1. unit[u].pc = "handle"
  BY HandleSteps
<1>2. RequestOK(u) /\ Base /\ u \in DOMAIN unit
  BY DEF AdminInv, Base
<1>3. Ready(u)
  BY <1>1, <1>2, AdministrationAssumption DEF RequestOK, Base, Ready, Call, Server, BackendOK
<1>4. Call(u).op = "CreateVirtualServer"
  BY DEF CreateVirtualServer, Handles
<1>5. PICK o : o = unit[u] /\ IsRequest(o)
  BY <1>2 DEF RequestOK, IsRequest, Request
<1>6. PICK H, values, e1 : /\ H = New1(u, "virtualServer") /\ values = Values(u).server
                          /\ e1 = Insertion(H, "virtualServer", values)
  OBVIOUS
<1>7. e1.id = H /\ e1.kind = "virtualServer" /\ e1.fields = New("virtualServer", values)
  BY <1>6 DEF Insertion, Entry
<1>8. PICK generated \in BOOLEAN :
         /\ GenerateKeys(e1.fields.name, Algorithms(e1.fields), generated)
         /\ Return(u, generated /\ Values(u).rolesKnown, <<>>,
                   <<e1>> \o IF generated THEN ServerContents(u, H) ELSE <<>>)
  BY <1>6, <1>7 DEF CreateVirtualServer
<1>9. generated /\ keys' = keys \union ({e1.fields.name} \X Algorithms(e1.fields))
  BY <1>8 DEF GenerateKeys
<1>10. PICK yes \in BOOLEAN : yes <=> generated /\ Values(u).rolesKnown
  OBVIOUS
<1>11. PICK work : work = <<e1>> \o IF generated THEN ServerContents(u, H) ELSE <<>>
  OBVIOUS
<1>12. Return(u, yes, <<>>, work)
  BY <1>8, <1>10, <1>11 DEF Return
<1>13. PICK next, lost : /\ next = IF yes /\ Call(u).op \notin Unchecked THEN "save" ELSE "close"
                        /\ lost = ~yes
  OBVIOUS
<1>14. unit'[u] = Request(next, o.call, o.server, o.seen, work, lost, o.lost)
  <2>1. unit' = [unit EXCEPT ![u] = [o EXCEPT !.pc = next, !.failed = lost, !.work = work]]
    BY <1>5, <1>12, <1>13 DEF Return
  <2>2. IsRequest(o)
    BY <1>5
  <2>3. [o EXCEPT !.pc = next, !.failed = lost, !.work = work]
           = Request(next, o.call, o.server, o.seen, work, lost, o.lost)
    BY <2>2, Handed, Zenon
  <2>4. QED
    BY <1>2, <2>1, <2>3
<1>15. unit'[u].pc = next /\ next \in {"save", "close"} /\ unit'[u].call = o.call /\ unit'[u].work = work
  BY <1>13, <1>14 DEF Request
<1>16. work = <<e1>> \o ServerContents(u, H)
  BY <1>9, <1>11
<1>17. Gives(values, "virtualServer", {}) /\ H \notin DOMAIN db /\ \A id \in DOMAIN db : id[1] # u
  <2>1. Gives(values, "virtualServer", {})
    BY <1>3, <1>4, <1>6, CallsAssumption DEF Ready, Values
  <2>2. H[1] = u
    BY <1>6 DEF New1
  <2>3. QED
    BY <1>3, <2>1, <2>2 DEF Ready
<1>18. Linked(work) /\ Len(work) >= 1 /\ work[1] = e1
  BY <1>6, <1>16, <1>17, ServerContentsFits
<1>19. Begun(u)' = e1.fields /\ Call(u)' = Call(u)
  BY <1>5, <1>6, <1>7, <1>15 DEF Begun, Values, Call
<1>20. Pending(u)'
  BY <1>4, <1>7, <1>15, <1>18, <1>19 DEF Pending
<1>21. k[1] = e1.fields.name
  BY <1>9
<1>22. QED
  BY <1>19, <1>20, <1>21

\* At the start the servers of the keys are there.
LEMMA KeyInit == ASSUME Init PROVE KeyInv
<1>1. db = InitialRows /\ keys = InitialKeys /\ \A u \in Unit : unit[u] = Waiting
  BY DEF Init
<1>2. ASSUME NEW u \in Unit PROVE SeenBears(u)
  BY <1>1 DEF SeenBears, Waiting
<1>3. ASSUME NEW k \in keys PROVE Borne(db, k[1])
  <2>1. PICK id \in DOMAIN InitialRows :
           InitialRows[id].kind = "virtualServer" /\ InitialRows[id].fields.name = k[1]
    BY <1>1, InitialKeysAssumption
  <2>2. InitialRows[id].live
    BY InitialRowsAssumption
  <2>3. QED
    BY <1>1, <2>1, <2>2 DEF Borne, Bears
<1>4. QED
  BY <1>2, <1>3 DEF KeyInv

\* Every step keeps it.
LEMMA KeyNext == ASSUME AdminInv, KeyInv, [Next]_vars PROVE KeyInv'
<1>1. CASE UNCHANGED vars
  <2>1. UNCHANGED <<db, unit, keys, up, faults>>
    BY <1>1 DEF vars
  <2>2. ASSUME NEW u \in Unit
        PROVE  (SeenBears(u)' <=> SeenBears(u)) /\ (Pending(u)' <=> Pending(u)) /\ Begun(u)' = Begun(u)
    <3>1. Call(u)' = Call(u) /\ Server(u)' = Server(u) /\ Begun(u)' = Begun(u)
      BY <2>1 DEF Call, Server, Begun, Values
    <3>2. QED
      BY <2>1, <3>1 DEF SeenBears, Pending
  <2>3. \A name : Coming(name)' <=> Coming(name)
    BY <2>2 DEF Coming
  <2>4. QED
    BY <2>1, <2>2, <2>3 DEF KeyInv
<1>2. CASE vars' # vars
  <2>1. PICK v \in Unit : Happens(v)
    BY <1>2, NextHappens
  <2> SUFFICES ASSUME up', faults' = 0
               PROVE  /\ \A u \in Unit : SeenBears(u)'
                      /\ \A k \in keys' : Borne(db', k[1]) \/ Coming(k[1])'
    BY DEF KeyInv
  <2>2. up /\ faults = 0 /\ ~SaveLost(v) /\ ~Fault
    BY <2>1, NothingFailed
  <2>3. /\ \A u \in Unit : SeenBears(u)
        /\ \A k \in keys : Borne(db, k[1]) \/ Coming(k[1])
    BY <2>2 DEF KeyInv
  <2>4. \A u \in Unit : SeenBears(u)'
    BY <2>1, <2>2, <2>3, SeenUnder
  <2>5. ASSUME NEW name, Borne(db, name) PROVE Borne(db', name)
    <3>1. Reaches(v, db')
      BY <2>1, StepReaches
    <3>2. QED
      BY <2>5, <3>1, BorneStays DEF Reaches
  <2>6. ASSUME NEW name, Coming(name) PROVE Borne(db', name) \/ Coming(name)'
    <3>1. PICK u \in Unit : Pending(u) /\ Begun(u).name = name
      BY <2>6 DEF Coming
    <3>2. Begun(u)' = Begun(u) /\ (Pending(u)' \/ Borne(db', Begun(u).name))
      BY <2>1, <3>1, PendingLasts
    <3>3. QED
      BY <3>1, <3>2 DEF Coming
  <2>7. ASSUME NEW k \in keys', k \notin keys PROVE Borne(db', k[1]) \/ Coming(k[1])'
    <3>1. Handle(v)
      BY <2>1, <2>7 DEF Happens, Admit, Save, SaveLost, Close
    <3>2. CASE PatchVirtualServer(v)
      <4>1. Borne(db, k[1])
        BY <2>2, <2>3, <2>7, <3>1, <3>2, PatchBrings
      <4>2. QED
        BY <2>5, <4>1
    <3>3. CASE CreateVirtualServer(v)
      <4>1. Pending(v)' /\ Begun(v)'.name = k[1]
        BY <2>2, <2>7, <3>1, <3>3, CreateBrings
      <4>2. QED
        BY <4>1 DEF Coming
    <3>4. QED
      BY <2>7, <3>1, <3>2, <3>3, HandleSteps
  <2>8. ASSUME NEW k \in keys' PROVE Borne(db', k[1]) \/ Coming(k[1])'
    BY <2>3, <2>5, <2>6, <2>7
  <2>9. QED
    BY <2>4, <2>8
<1>3. QED
  BY <1>1, <1>2

\* Keys are there for a virtual server, or for one that is being created, as long as the
\* process runs and nothing has failed: no virtual server is deleted or renamed, and the
\* close of the scope either stores the server whose keys CreateVirtualServer has generated
\* or ends the process, because a transaction that fails has failed at the row of the server.
THEOREM KeysAreForServers == Spec => []KeysHaveServer
<1>1. ASSUME AdminInv, KeyInv, NEW k \in keys, up, faults = 0
      PROVE  \/ Select("virtualServer", [name |-> k[1]]) # {}
             \/ \E u \in Unit : Running(u) /\ Call(u).op = "CreateVirtualServer"
  <2>1. CASE Borne(db, k[1])
    <3>1. PICK id \in DOMAIN db : Bears(db, id, k[1])
      BY <2>1 DEF Borne
    <3>2. PICK filter : filter = [name |-> k[1]]
      OBVIOUS
    <3>3. DOMAIN filter = {"name"} /\ filter["name"] = k[1]
      BY <3>2
    <3>4. Stands(db, id, "virtualServer", filter)
      BY <3>1, <3>3 DEF Bears, Stands
    <3>5. id \in Select("virtualServer", filter)
      BY <3>3, <3>4, StandsFound
    <3>6. QED
      BY <3>2, <3>5
  <2>2. CASE Coming(k[1])
    BY <2>2 DEF Coming, Pending, Running
  <2>3. QED
    BY <1>1, <2>1, <2>2 DEF KeyInv
<1>2. AdminInv /\ KeyInv => KeysHaveServer
  <2> SUFFICES ASSUME AdminInv, KeyInv PROVE KeysHaveServer
    OBVIOUS
  <2>1. faults \in Nat
    BY AdministrationAssumption DEF AdminInv, Base
  <2>2. faults = 0 \/ faults > 0
    BY <2>1
  <2>3. ASSUME NEW k \in keys
        PROVE  \/ Select("virtualServer", [name |-> k[1]]) # {}
               \/ \E u \in Unit : Running(u) /\ Call(u).op = "CreateVirtualServer"
               \/ ~up \/ faults > 0
    BY <1>1, <2>2, Zenon
  <2>4. QED
    BY <2>3, Zenon DEF KeysHaveServer
<1>3. Init => KeyInv
  BY KeyInit
<1>4. AdminInv /\ KeyInv /\ [Next]_vars => KeyInv'
  BY KeyNext
<1>5. QED
  BY <1>2, <1>3, <1>4, AdminInvariant, PTL DEF Spec
=============================================================================
