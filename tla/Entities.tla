----------------------------- MODULE Entities -----------------------------
(***************************************************************************)
(* The entities of the data model (package repositories): per kind the     *)
(* fields its constructor is given, the fields it sets to a default, the   *)
(* fields that can be set later (each setter tracks the field as changed), *)
(* and the conditions a filter of the kind can carry.  Every entity also   *)
(* has an id, two audit dates and a version (BaseModel).                   *)
(***************************************************************************)
EXTENDS TLC

Entity(given, defaults) == [given |-> given, defaults |-> defaults]
NoFields == <<>>
Nothing == "nil"
Blank == ""
Application_entity ==
    Entity({"virtualServerId", "projectId", "name", "displayName", "type", "redirectUris"},
           [hashedSecret |-> Blank, postLogoutRedirectUris |-> {}, systemApplication |-> FALSE,
           claimsMappingScript |-> Nothing, accessTokenHeaderType |-> "at+jwt",
           deviceFlowEnabled |-> FALSE, signingAlgorithm |-> Nothing])
AppUserMetadata_entity == Entity({"applicationId", "userId", "metadata"}, NoFields)
AuditLog_entity ==
    Entity({"virtualServerId", "userId", "requestType", "request", "response", "allowed",
           "allowReasonType", "allowReason"}, NoFields)
Credential_entity == Entity({"userId", "type", "details"}, NoFields)
File_entity == Entity({"name", "mimeType", "content"}, NoFields)
Group_entity == Entity({"virtualServerId", "name", "description"}, NoFields)
OutboxMessage_entity == Entity({"type", "details"}, NoFields)
PasswordRule_entity == Entity({"virtualServerId", "type", "details"}, NoFields)
Project_entity ==
    Entity({"virtualServerId", "slug", "name", "description"}, [systemProject |-> FALSE])
ResourceServer_entity ==
    Entity({"virtualServerId", "projectId", "slug", "name", "description"}, NoFields)
Scope_entity ==
    Entity({"virtualServerId", "projectId", "resourceServerId", "scope", "name"},
           [description |-> Blank])
Role_entity == Entity({"virtualServerId", "projectId", "name", "description"}, NoFields)
Session_entity ==
    Entity({"virtualServerId", "userId", "expiresAt"}, [hashedToken |-> Blank,
           lastUsedAt |-> Nothing])
Template_entity == Entity({"virtualServerId", "fileId", "type"}, NoFields)
Assignment_entity == Entity({"userId", "roleId", "groupId"}, NoFields)
User_entity ==
    Entity({"username", "displayName", "primaryEmail", "virtualServerId"},
           [serviceUser |-> FALSE, emailVerified |-> FALSE, metadata |-> "{}"])
VirtualServer_entity ==
    Entity({"name", "displayName"}, [enableRegistration |-> FALSE, require2fa |-> FALSE,
           requireEmailVerification |-> FALSE, primarySigningAlgorithm |-> Blank,
           additionalSigningAlgorithms |-> {}])

-----------------------------------------------------------------------------
Application_setters ==
    {"hashedSecret", "claimsMappingScript", "accessTokenHeaderType", "displayName",
     "redirectUris", "postLogoutRedirectUris", "systemApplication", "deviceFlowEnabled",
     "signingAlgorithm"}
AppUserMetadata_setters == {"metadata"}
Credential_setters == {"type", "details"}
Group_setters == {"name", "description"}
PasswordRule_setters == {"details"}
Project_setters == {"description", "name"}
ResourceServer_setters == {"name", "description"}
Scope_setters == {"name", "description"}
Role_setters == {"name", "description"}
Session_setters == {"lastUsedAt"}
User_setters == {"displayName", "emailVerified", "metadata"}
VirtualServer_setters ==
    {"displayName", "enableRegistration", "require2fa", "requireEmailVerification",
     "primarySigningAlgorithm", "additionalSigningAlgorithms"}

-----------------------------------------------------------------------------
Application_filter == {"name", "id", "projectId", "virtualServerId", "ids", "search"}
AppUserMetadata_filter == {"applicationId", "applicationIds", "userId"}
AuditLog_filter == {"virtualServerId", "userId"}
Credential_filter == {"id", "userId", "detailPublicKey", "type", "detailKid", "detailsId"}
File_filter == {"id"}
Group_filter == {"name", "virtualServerId", "id", "search"}
OutboxMessage_filter == {"id"}
PasswordRule_filter == {"virtualServerId", "type"}
Project_filter == {"virtualServerId", "slug", "id", "search"}
ResourceServer_filter == {"id", "slug", "virtualServerId", "projectId", "search"}
Scope_filter == {"virtualServerId", "projectId", "resourceServerId", "id", "search"}
Role_filter == {"name", "id", "projectId", "virtualServerId", "search"}
Session_filter == {"virtualServerId", "userId", "id"}
Template_filter == {"virtualServerId", "templateType", "search"}
Assignment_filter == {"userId", "roleId", "groupId"}
User_filter == {"virtualServerId", "id", "serviceUser", "username", "search"}
VirtualServer_filter == {"name", "id"}

-----------------------------------------------------------------------------
EntityOf ==
    [application |-> Application_entity, appUserMetadata |-> AppUserMetadata_entity,
     auditLog |-> AuditLog_entity, credential |-> Credential_entity, file |-> File_entity,
     group |-> Group_entity, outboxMessage |-> OutboxMessage_entity,
     passwordRule |-> PasswordRule_entity, project |-> Project_entity,
     resourceServer |-> ResourceServer_entity, scope |-> Scope_entity, role |-> Role_entity,
     session |-> Session_entity, template |-> Template_entity, assignment |-> Assignment_entity,
     user |-> User_entity, virtualServer |-> VirtualServer_entity]
SettersOf ==
    [application |-> Application_setters, appUserMetadata |-> AppUserMetadata_setters,
     auditLog |-> {}, credential |-> Credential_setters, file |-> {}, group |-> Group_setters,
     outboxMessage |-> {}, passwordRule |-> PasswordRule_setters, project |-> Project_setters,
     resourceServer |-> ResourceServer_setters, scope |-> Scope_setters, role |-> Role_setters,
     session |-> Session_setters, template |-> {}, assignment |-> {}, user |-> User_setters,
     virtualServer |-> VirtualServer_setters]
FilterOf ==
    [application |-> Application_filter, appUserMetadata |-> AppUserMetadata_filter,
     auditLog |-> AuditLog_filter, credential |-> Credential_filter, file |-> File_filter,
     group |-> Group_filter, outboxMessage |-> OutboxMessage_filter,
     passwordRule |-> PasswordRule_filter, project |-> Project_filter,
     resourceServer |-> ResourceServer_filter, scope |-> Scope_filter, role |-> Role_filter,
     session |-> Session_filter, template |-> Template_filter, assignment |-> Assignment_filter,
     user |-> User_filter, virtualServer |-> VirtualServer_filter]

-----------------------------------------------------------------------------
Kind == DOMAIN EntityOf
Fields(kind) == EntityOf[kind].given \union DOMAIN EntityOf[kind].defaults

\* The given values, and the others as they are.  (@@ and :> of module TLC have no
\* definition that a proof could use.)
given ++ others ==
    [c \in DOMAIN given \union DOMAIN others |-> IF c \in DOMAIN given THEN given[c] ELSE others[c]]
Only(c, value) == [x \in {c} |-> value]

\* A new entity: the constructor, then the setters called on it.
New(kind, values) == values ++ EntityOf[kind].defaults

\* The setters that track a change without comparing the values: they are given a
\* pointer or bytes.
Uncompared == {"claimsMappingScript", "signingAlgorithm", "additionalSigningAlgorithms", "details", "type"}

\* The fields that count as changed after setting values on an entity.
Tracked(kind, fields, values) ==
    {c \in DOMAIN values \intersect SettersOf[kind] :
        values[c] # fields[c] \/ (c \in Uncompared /\ values[c] # Nothing)}
=============================================================================
