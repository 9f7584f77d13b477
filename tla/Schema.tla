------------------------------- MODULE Schema -------------------------------
(***************************************************************************)
(* The tables of the PostgreSQL database (the migrations): per kind the    *)
(* sets of columns that are unique together, and the columns that refer to *)
(* the row of another table.                                               *)
(***************************************************************************)
EXTENDS TLC

Table(unique, references) == [unique |-> unique, references |-> references]

Application_table ==
    Table({{"name", "virtualServerId"}},
          [virtualServerId |-> "virtualServer", projectId |-> "project"])
AppUserMetadata_table ==
    Table({{"applicationId", "userId"}},
          [applicationId |-> "application", userId |-> "user"])
AuditLog_table == Table({}, [userId |-> "user"])
Credential_table == Table({}, [userId |-> "user"])
File_table == Table({}, <<>>)
Group_table == Table({}, [virtualServerId |-> "virtualServer"])
OutboxMessage_table == Table({}, <<>>)
PasswordRule_table ==
    Table({{"virtualServerId", "type"}},
          [virtualServerId |-> "virtualServer"])
Project_table == Table({{"virtualServerId", "slug"}}, [virtualServerId |-> "virtualServer"])
ResourceServer_table ==
    Table({{"projectId", "slug"}},
          [virtualServerId |-> "virtualServer", projectId |-> "project"])
Scope_table ==
    Table({{"virtualServerId", "scope"}},
          [virtualServerId |-> "virtualServer", projectId |-> "project", resourceServerId |-> "resourceServer"])
Role_table == Table({}, [virtualServerId |-> "virtualServer", projectId |-> "project"])
Session_table == Table({}, [virtualServerId |-> "virtualServer", userId |-> "user"])
Template_table == Table({}, [virtualServerId |-> "virtualServer", fileId |-> "file"])
Assignment_table ==
    Table({{"userId", "roleId", "groupId"}},
          [userId |-> "user", roleId |-> "role", groupId |-> "group"])
User_table == Table({{"username", "virtualServerId"}}, [virtualServerId |-> "virtualServer"])
VirtualServer_table == Table({{"name"}}, <<>>)

TableOf ==
    [application |-> Application_table, appUserMetadata |-> AppUserMetadata_table,
     auditLog |-> AuditLog_table, credential |-> Credential_table, file |-> File_table,
     group |-> Group_table, outboxMessage |-> OutboxMessage_table,
     passwordRule |-> PasswordRule_table, project |-> Project_table,
     resourceServer |-> ResourceServer_table, scope |-> Scope_table, role |-> Role_table,
     session |-> Session_table, template |-> Template_table, assignment |-> Assignment_table,
     user |-> User_table, virtualServer |-> VirtualServer_table]

RefersTo(kind) == TableOf[kind].references

\* The defaults of the columns an insertion may leave out.
ColumnDefault == [requireEmailVerification |-> TRUE]

=============================================================================
