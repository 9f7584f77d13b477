---------------------------- MODULE MemoryRows ----------------------------
(***************************************************************************)
(* The repositories in memory: per kind the conditions of a filter they    *)
(* compare with an entity, and the fields a search looks at.  They read    *)
(* and write whole entities.                                               *)
(***************************************************************************)

Matches(where, search) == [where |-> where, search |-> search]
Application_memory ==
    Matches({"id", "ids", "name", "virtualServerId", "projectId"}, {"name", "displayName"})
AppUserMetadata_memory == Matches({"applicationId", "applicationIds", "userId"}, {})
AuditLog_memory == Matches({"virtualServerId", "userId"}, {})
Credential_memory ==
    Matches({"id", "userId", "type", "detailKid", "detailPublicKey", "detailsId"}, {})
File_memory == Matches({"id"}, {})
Group_memory == Matches({"id", "name", "virtualServerId"}, {"name", "description"})
OutboxMessage_memory == Matches({"id"}, {})
PasswordRule_memory == Matches({"virtualServerId", "type"}, {})
Project_memory == Matches({"id", "virtualServerId", "slug"}, {"name", "slug", "description"})
ResourceServer_memory ==
    Matches({"id", "slug", "virtualServerId", "projectId"}, {"name", "slug"})
Scope_memory ==
    Matches({"id", "virtualServerId", "projectId", "resourceServerId"}, {"name", "scope"})
Role_memory == Matches({"id", "name", "virtualServerId", "projectId"}, {"name", "description"})
Session_memory == Matches({"id", "virtualServerId", "userId"}, {})
Template_memory == Matches({"virtualServerId", "templateType"}, {})
Assignment_memory == Matches({"userId", "roleId", "groupId"}, {})
User_memory ==
    Matches({"id", "virtualServerId", "username", "serviceUser"}, {"username", "displayName"})
VirtualServer_memory == Matches({"name", "id"}, {})

MatchesOf ==
    [application |-> Application_memory, appUserMetadata |-> AppUserMetadata_memory,
     auditLog |-> AuditLog_memory, credential |-> Credential_memory, file |-> File_memory,
     group |-> Group_memory, outboxMessage |-> OutboxMessage_memory,
     passwordRule |-> PasswordRule_memory, project |-> Project_memory,
     resourceServer |-> ResourceServer_memory, scope |-> Scope_memory, role |-> Role_memory,
     session |-> Session_memory, template |-> Template_memory, assignment |-> Assignment_memory,
     user |-> User_memory, virtualServer |-> VirtualServer_memory]

=============================================================================
