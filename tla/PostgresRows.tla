--------------------------- MODULE PostgresRows ---------------------------
(***************************************************************************)
(* The repositories on PostgreSQL: per kind the columns a query selects    *)
(* and the fields they are scanned into (the four of the BaseModel left    *)
(* out), the conditions of a filter it turns into a WHERE clause, the      *)
(* columns a search looks at, the columns an insertion writes, those an    *)
(* update can write, and whether a row can be deleted.                     *)
(***************************************************************************)
EXTENDS SequencesExt

ReadAs(selected, scanned, where, search) ==
    [selected |-> selected, scanned |-> scanned, where |-> where, search |-> search]
Read(columns, where, search) == ReadAs(columns, columns, where, search)
Columns(read) == Range(read.selected)
Write(inserted, updated, deletable) ==
    [inserted |-> inserted, updated |-> updated, deletable |-> deletable]
Application_read ==
    Read(<<"virtualServerId", "projectId", "name", "displayName", "type", "hashedSecret",
         "redirectUris", "postLogoutRedirectUris", "systemApplication", "claimsMappingScript",
         "accessTokenHeaderType", "deviceFlowEnabled", "signingAlgorithm">>, {"name", "id", "ids",
         "virtualServerId", "projectId"}, {"name", "displayName"})
AppUserMetadata_read ==
    Read(<<"applicationId", "userId", "metadata">>, {"applicationId", "applicationIds",
         "userId"}, {})
AuditLog_read ==
    Read(<<"virtualServerId", "userId", "requestType", "request", "response", "allowed",
         "allowReasonType", "allowReason">>, {"virtualServerId", "userId"}, {})
Credential_read ==
    Read(<<"userId", "type", "details">>, {"id", "userId", "type", "detailsId",
         "detailPublicKey", "detailKid"}, {})
File_read == Read(<<"name", "mimeType", "content">>, {"id"}, {})
Group_read ==
    Read(<<"virtualServerId", "name", "description">>, {"id", "name", "virtualServerId"},
         {"name"})
OutboxMessage_read == Read(<<"type", "details">>, {"id"}, {})
PasswordRule_read ==
    ReadAs(<<"virtualServerId", "type", "details">>, <<"virtualServerId", "type">>,
           {"virtualServerId", "type"}, {})
Project_read ==
    Read(<<"virtualServerId", "slug", "name", "description", "systemProject">>, {"id",
         "virtualServerId", "slug"}, {"slug", "name", "description"})
ResourceServer_read ==
    Read(<<"virtualServerId", "projectId", "slug", "name", "description">>, {"virtualServerId",
         "projectId", "id"}, {"name"})
Scope_read ==
    ReadAs(<<"virtualServerId", "projectId", "resourceServerId", "scope", "name",
           "description">>, <<"virtualServerId", "projectId", "resourceServerId", "scope", "name">>,
           {"virtualServerId", "projectId", "resourceServerId", "id"}, {"name"})
Role_read ==
    Read(<<"virtualServerId", "projectId", "name", "description">>, {"name", "id",
         "virtualServerId", "projectId"}, {"name"})
Session_read ==
    Read(<<"virtualServerId", "userId", "hashedToken", "expiresAt", "lastUsedAt">>, {"id",
         "virtualServerId", "userId"}, {})
Template_read ==
    Read(<<"virtualServerId", "fileId", "type">>, {"virtualServerId", "templateType"}, {"type"})
Assignment_read == Read(<<"userId", "roleId", "groupId">>, {"userId", "roleId", "groupId"}, {})
User_read ==
    Read(<<"virtualServerId", "displayName", "username", "primaryEmail", "emailVerified",
         "serviceUser", "metadata">>, {"username", "virtualServerId", "id", "serviceUser"},
         {"username", "displayName"})
VirtualServer_read ==
    Read(<<"displayName", "name", "enableRegistration", "require2fa",
         "requireEmailVerification", "primarySigningAlgorithm", "additionalSigningAlgorithms">>,
         {"name", "id"}, {})

-----------------------------------------------------------------------------
Application_write ==
    Write(Columns(Application_read), {"hashedSecret", "claimsMappingScript",
          "accessTokenHeaderType", "displayName", "redirectUris", "postLogoutRedirectUris",
          "systemApplication", "deviceFlowEnabled", "signingAlgorithm"}, TRUE)
AppUserMetadata_write == Write(Columns(AppUserMetadata_read), {"metadata"}, FALSE)
AuditLog_write == Write(Columns(AuditLog_read), {}, FALSE)
Credential_write == Write(Columns(Credential_read), {"type", "details"}, TRUE)
File_write == Write(Columns(File_read), {}, FALSE)
Group_write == Write(Columns(Group_read), {"name", "description"}, TRUE)
OutboxMessage_write == Write(Columns(OutboxMessage_read), {}, TRUE)
PasswordRule_write == Write(Columns(PasswordRule_read), {"details"}, TRUE)
Project_write == Write(Columns(Project_read), {"description", "name"}, TRUE)
ResourceServer_write == Write(Columns(ResourceServer_read), {"name", "description"}, TRUE)
Scope_write == Write(Columns(Scope_read), {"name", "description"}, TRUE)
Role_write == Write(Columns(Role_read), {"name", "description"}, TRUE)
Session_write == Write(Columns(Session_read), {}, TRUE)
Template_write == Write(Columns(Template_read), {}, FALSE)
Assignment_write == Write(Columns(Assignment_read), {}, FALSE)
User_write == Write(Columns(User_read), {"displayName", "emailVerified"}, FALSE)
VirtualServer_write ==
    Write(Columns(VirtualServer_read) \ {"requireEmailVerification"}, {"displayName",
          "enableRegistration", "require2fa", "requireEmailVerification", "primarySigningAlgorithm",
          "additionalSigningAlgorithms"}, FALSE)

-----------------------------------------------------------------------------
ReadOf ==
    [application |-> Application_read, appUserMetadata |-> AppUserMetadata_read,
     auditLog |-> AuditLog_read, credential |-> Credential_read, file |-> File_read,
     group |-> Group_read, outboxMessage |-> OutboxMessage_read,
     passwordRule |-> PasswordRule_read, project |-> Project_read,
     resourceServer |-> ResourceServer_read, scope |-> Scope_read, role |-> Role_read,
     session |-> Session_read, template |-> Template_read, assignment |-> Assignment_read,
     user |-> User_read, virtualServer |-> VirtualServer_read]
WriteOf ==
    [application |-> Application_write, appUserMetadata |-> AppUserMetadata_write,
     auditLog |-> AuditLog_write, credential |-> Credential_write, file |-> File_write,
     group |-> Group_write, outboxMessage |-> OutboxMessage_write,
     passwordRule |-> PasswordRule_write, project |-> Project_write,
     resourceServer |-> ResourceServer_write, scope |-> Scope_write, role |-> Role_write,
     session |-> Session_write, template |-> Template_write, assignment |-> Assignment_write,
     user |-> User_write, virtualServer |-> VirtualServer_write]

=============================================================================
