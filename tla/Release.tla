------------------------------- MODULE Release -------------------------------
(***************************************************************************)
(* What a checkout ships: migrations, models, tools with the permissions   *)
(* they declare, and the grants of the seeded roles.  A schema is a set of *)
(* tables and the labels of one type, which the migrations and create_all  *)
(* get to along different ways.                                            *)
(***************************************************************************)
EXTENDS Naturals, Sequences, FiniteSets

-----------------------------------------------------------------------------
(* The migrations. *)

NoLabels == {}

FirstLabels == {"CONVERSATIONS", "CREDITS", "AI_USAGE", "USER_PROFILE", "ANALYTICS", "ADMIN", "BILLING", "API_KEYS", "WILDCARD"}

InitialSchema ==
    [creates |-> {"platform_role", "tiers", "rate_limits", "user", "api_keys", "platform_audit_event",
                  "platform_user_role", "key_permissions", "key_usage"},
     refers  |-> {"tiers", "user", "api_keys", "platform_role"}, labels |-> FirstLabels]
KycTables    == [creates |-> {"kyc_case", "kyc_document"}, refers |-> {"user", "kyc_case"}, labels |-> NoLabels]
FlagTable    == [creates |-> {"feature_flag"}, refers |-> {"user"}, labels |-> NoLabels]
FlagResource == [creates |-> {}, refers |-> {"key_permissions"}, labels |-> {"feature_flags"}]

\* Faulty: there is only the migration that adds the value of the member.
FlagMemberValue == [creates |-> {}, refers |-> {"key_permissions"}, labels |-> {"feature_flags"}]

FlagMember   == [creates |-> {}, refers |-> {"key_permissions"}, labels |-> {"FEATURE_FLAGS"}]
RequestTable == [creates |-> {"tool_request"}, refers |-> {"user"}, labels |-> NoLabels]

Revisions == <<InitialSchema, KycTables, FlagTable, FlagResource, FlagMember, RequestTable>>

\* A version is the number of the revision applied last.
Empty == [version |-> 0, tables |-> {}, labels |-> {}]

CreatedBetween(from, to) == UNION {Revisions[i].creates : i \in (from + 1)..to}

\* Faulty: an upgrade to the revision that is there already is an error.
CanUpgradeOnce(schema, head) ==
    /\ schema.version < head
    /\ \A i \in (schema.version + 1)..head : Revisions[i].creates \cap schema.tables = {}

\* A table is created once, after those it refers to; a version from a later checkout cannot be located.
CanUpgrade(schema, head) ==
    /\ schema.version <= head
    /\ \A i \in (schema.version + 1)..head :
          LET before == schema.tables \cup CreatedBetween(schema.version, i - 1)
          IN  /\ Revisions[i].creates \cap before = {}
              /\ Revisions[i].refers \subseteq before \cup Revisions[i].creates

Upgraded(schema, head) ==
    [version |-> head,
     tables  |-> schema.tables \cup CreatedBetween(schema.version, head),
     labels  |-> schema.labels \cup UNION {Revisions[i].labels : i \in (schema.version + 1)..head}]

SchemaAt(head) == Upgraded(Empty, head)

-----------------------------------------------------------------------------
(* The models, by the module that declares them. *)

PlatformTables == {"tiers", "rate_limits", "user", "platform_role", "platform_user_role", "platform_audit_event",
                   "api_keys", "key_usage", "key_permissions"}
ToolTables     == [kyc |-> {"kyc_case", "kyc_document"}, flags |-> {"feature_flag"}, intake |-> {"tool_request"}]

\* SQLAlchemy writes the names of the members.
Resources == FirstLabels \cup {"FEATURE_FLAGS"}

ModelTables(release) == PlatformTables \cup UNION {ToolTables[t] : t \in release.tools}

\* create_all makes what is missing; the type comes with the first table that has it.
CreatedAll(schema, release) ==
    [schema EXCEPT !.tables = @ \cup ModelTables(release),
                   !.labels = IF "key_permissions" \in schema.tables THEN @ ELSE Resources]

Fits(schema, release) == ModelTables(release) \subseteq schema.tables /\ Resources \subseteq schema.labels

-----------------------------------------------------------------------------
(* The tools and the roles. *)

PlatformPermissions == {"audit.read", "platform.admin"}
ToolPermissions == [kyc    |-> {"kyc.review", "kyc.approve", "kyc.escalate"},
                    flags  |-> {"flags.read", "flags.write"},
                    intake |-> {"tools.request", "tools.request.admin"}]

Roles  == <<"analyst", "reviewer", "admin">>
Grants == [analyst  |-> {"kyc.review", "flags.read"},
           reviewer |-> {"kyc.review", "flags.read", "kyc.approve", "kyc.escalate", "tools.request"},
           admin    |-> {}]

\* A tool that cannot be imported is logged and left out.
Catalog(release) == PlatformPermissions \cup UNION {ToolPermissions[t] : t \in release.tools \ release.broken}

\* The permissions of a role, with admin holding whatever there is.
Resolved(release, role) ==
    IF role = "admin" THEN Catalog(release) ELSE release.grants[role]

\* Raises ValueError, and before any role is touched.
SeedsRoles(release) == \A role \in DOMAIN release.grants : Resolved(release, role) \subseteq Catalog(release)

\* A checkout since the label of the type was mended, with the tools merged by then; the
\* tool of requests came with the last migration.
Checkout ==
    {r \in [head : 5..Len(Revisions), tools : SUBSET DOMAIN ToolTables, broken : SUBSET DOMAIN ToolTables,
            grants : [DOMAIN Grants -> SUBSET STRING]] :
        "intake" \in r.tools => r.head = 6}

\* migrations/env.py imports every module of every tool, and stops at one that fails.
Imports(release) == release.broken = {}
=============================================================================
