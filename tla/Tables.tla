------------------------------- MODULE Tables -------------------------------
(***************************************************************************)
(* What the three implementations of store.Store do with each table, as    *)
(* data.  A table of the in-memory store is a map with a key, or a slice   *)
(* (no key); a table of a SQL store is what its INSERT says (columns,      *)
(* conflict target, columns updated on a conflict) and what its schema     *)
(* says (unique columns).  Reads are named after the method: the columns   *)
(* they select by, and the column they sort by.                            *)
(***************************************************************************)

(* Reads *)
Asc(by, column) == [by |-> by, order |-> column, desc |-> FALSE]
Newest(by, column) == [by |-> by, order |-> column, desc |-> TRUE]
Appended(by) == [by |-> by, order |-> "appended", desc |-> FALSE]
Unordered(by) == [by |-> by, order |-> "none", desc |-> FALSE]

(* Tables *)
Map(key, reads) == [key |-> key, reads |-> reads]
Slice(reads) == [key |-> {}, reads |-> reads]

\* INSERT ... ON CONFLICT (key) DO UPDATE SET update
Upsert(cols, key, update, unique, reads) ==
    [cols |-> cols, key |-> key, update |-> update, unique |-> unique, reads |-> reads]
\* INSERT, into a table whose primary key is id
Insert(cols, reads) ==
    [cols |-> cols, key |-> {}, update |-> {}, unique |-> {{"id"}}, reads |-> reads]

-----------------------------------------------------------------------------
(* memory.go *)

memUsers == Map({"id"},
    [GetUser |-> Unordered({"id"}), GetUserByEmail |-> Unordered({"email"}),
     ListUsers |-> Asc({}, "created_at"), ListUsersByKYC |-> Asc({"kyc_status"}, "created_at")])
memGroups == Map({"id"},
    [GetGroup |-> Unordered({"id"}), ListGroups |-> Asc({}, "created_at")])
memMemberships == Map({"group_id", "user_id"},
    [GetMembership |-> Unordered({"group_id", "user_id"}),
     ListMembershipsByGroup |-> Asc({"group_id"}, "joined_at"),
     ListMembershipsByUser |-> Unordered({"user_id"})])
memJoinRequests == Map({"id"},
    [GetJoinRequest |-> Unordered({"id"}),
     ListJoinRequestsByGroup |-> Asc({"group_id"}, "created_at")])
memInvitations == Map({"id"},
    [GetInvitation |-> Unordered({"id"}), ListInvitationsByUser |-> Unordered({"user_id"})])
memCycles == Map({"group_id", "idx"},
    [GetCycle |-> Unordered({"group_id", "idx"}), ListCyclesByGroup |-> Asc({"group_id"}, "idx")])
memContributions == Map({"group_id", "user_id", "cycle_index"},
    [GetContribution |-> Unordered({"group_id", "user_id", "cycle_index"}),
     ListContributionsByCycle |-> Unordered({"group_id", "cycle_index"})])
memPayouts == Slice([ListPayoutsByGroup |-> Appended({"group_id"})])
memEscrow == Slice([ListEscrowByGroup |-> Appended({"group_id"})])
memReputation == Slice(
    [ReputationEvents |-> Appended({"user_id"}), AllReputationEvents |-> Newest({}, "timestamp")])
memWebhooks == Map({"id"},
    [GetWebhook |-> Unordered({"id"}), ListWebhooks |-> Asc({}, "created_at")])
memNotifications == Slice([ListNotificationsByUser |-> Appended({"user_id"})])
memAudit == Slice([ListAudit |-> Newest({}, "created_at")])

-----------------------------------------------------------------------------
(* sqlitestore.go and its schema.sql *)

sqliteUsers == Upsert(
    {"id", "email", "display_name", "wallet_address", "identity_commitment", "kyc_provider",
     "kyc_status", "role", "status", "password_hash", "created_at", "updated_at"},
    {"id"},
    {"email", "display_name", "wallet_address", "identity_commitment", "kyc_provider",
     "kyc_status", "role", "status", "password_hash", "updated_at"},
    {{"id"}, {"email"}},
    [GetUser |-> Unordered({"id"}), GetUserByEmail |-> Unordered({"email"}),
     ListUsers |-> Asc({}, "created_at"), ListUsersByKYC |-> Asc({"kyc_status"}, "created_at")])
sqliteGroups == Upsert(
    {"id", "contract_address", "name", "organizer_id", "contribution_amount", "cycle_length_ns",
     "max_members", "total_cycles", "members", "payout_order", "state", "created_at", "activated_at"},
    {"id"},
    {"contract_address", "name", "organizer_id", "contribution_amount", "cycle_length_ns",
     "max_members", "total_cycles", "members", "payout_order", "state", "activated_at"},
    {{"id"}},
    [GetGroup |-> Unordered({"id"}), ListGroups |-> Asc({}, "created_at")])
sqliteMemberships == Upsert(
    {"id", "group_id", "user_id", "organizer", "status", "joined_at"},
    {"group_id", "user_id"},
    {"id", "organizer", "status"},
    {{"id"}, {"group_id", "user_id"}},
    [GetMembership |-> Unordered({"group_id", "user_id"}),
     ListMembershipsByGroup |-> Asc({"group_id"}, "joined_at"),
     ListMembershipsByUser |-> Unordered({"user_id"})])
\* Mutant: the decision is not among the columns written on a conflict.
sqliteJoinRequestsUndecided == Upsert(
    {"id", "group_id", "user_id", "status", "created_at", "decided_at", "decided_by"},
    {"id"}, {"status"}, {{"id"}},
    [GetJoinRequest |-> Unordered({"id"}),
     ListJoinRequestsByGroup |-> Asc({"group_id"}, "created_at")])
sqliteJoinRequests == Upsert(
    {"id", "group_id", "user_id", "status", "created_at", "decided_at", "decided_by"},
    {"id"}, {"status", "decided_at", "decided_by"}, {{"id"}},
    [GetJoinRequest |-> Unordered({"id"}),
     ListJoinRequestsByGroup |-> Asc({"group_id"}, "created_at")])
sqliteInvitations == Upsert(
    {"id", "group_id", "user_id", "invited_by", "status", "created_at"},
    {"id"}, {"status"}, {{"id"}},
    [GetInvitation |-> Unordered({"id"}), ListInvitationsByUser |-> Asc({"user_id"}, "created_at")])
sqliteCycles == Upsert(
    {"group_id", "idx", "deadline", "payout_user", "settled"},
    {"group_id", "idx"}, {"deadline", "payout_user", "settled"}, {{"group_id", "idx"}},
    [GetCycle |-> Unordered({"group_id", "idx"}), ListCyclesByGroup |-> Asc({"group_id"}, "idx")])
sqliteContributions == Upsert(
    {"id", "group_id", "user_id", "cycle_index", "amount", "commitment", "revealed", "paid_at"},
    {"group_id", "user_id", "cycle_index"},
    {"id", "amount", "commitment", "revealed", "paid_at"},
    {{"id"}, {"group_id", "user_id", "cycle_index"}},
    [GetContribution |-> Unordered({"group_id", "user_id", "cycle_index"}),
     ListContributionsByCycle |-> Unordered({"group_id", "cycle_index"})])
sqlitePayouts == Insert(
    {"id", "group_id", "cycle_index", "payee_user_id", "gross_amount", "expected_amount",
     "shortfall", "disbursement_ref", "settled_at"},
    [ListPayoutsByGroup |-> Asc({"group_id"}, "cycle_index")])
\* Mutant: the ledger is keyed by group, user and cycle, and a conflict updates.
sqliteEscrowKeyed == Upsert(
    {"id", "group_id", "cycle_index", "user_id", "direction", "amount", "reference", "memo", "created_at"},
    {"group_id", "user_id", "cycle_index"}, {"id", "direction", "amount", "created_at"}, {{"id"}},
    [ListEscrowByGroup |-> Asc({"group_id"}, "created_at")])
sqliteEscrow == Insert(
    {"id", "group_id", "cycle_index", "user_id", "direction", "amount", "reference", "memo", "created_at"},
    [ListEscrowByGroup |-> Asc({"group_id"}, "created_at")])
sqliteReputation == Insert(
    {"id", "user_id", "group_id", "cycle_index", "type", "amount", "proof_hash", "timestamp"},
    [ReputationEvents |-> Asc({"user_id"}, "timestamp"),
     AllReputationEvents |-> Newest({}, "timestamp")])
sqliteWebhooks == Upsert(
    {"id", "url", "secret", "active", "created_by", "created_at"},
    {"id"}, {"url", "secret", "active"}, {{"id"}},
    [GetWebhook |-> Unordered({"id"}), ListWebhooks |-> Asc({}, "created_at")])
sqliteNotifications == Upsert(
    {"id", "user_id", "kind", "title", "body", "read", "created_at"},
    {"id"}, {"read"}, {{"id"}},
    [ListNotificationsByUser |-> Asc({"user_id"}, "created_at")])
sqliteAudit == Insert(
    {"id", "actor_id", "action", "target", "detail", "created_at"},
    [ListAudit |-> Newest({}, "created_at")])

-----------------------------------------------------------------------------
(* pgstore.go and its schema.sql *)

pgUsers == Upsert(
    {"id", "email", "display_name", "wallet_address", "identity_commitment", "kyc_provider",
     "kyc_status", "role", "status", "password_hash", "created_at", "updated_at"},
    {"id"},
    {"email", "display_name", "wallet_address", "identity_commitment", "kyc_provider",
     "kyc_status", "role", "status", "password_hash", "updated_at"},
    {{"id"}, {"email"}, {"wallet_address"}, {"identity_commitment"}},
    [GetUser |-> Unordered({"id"}), GetUserByEmail |-> Unordered({"email"}),
     ListUsers |-> Asc({}, "created_at"), ListUsersByKYC |-> Asc({"kyc_status"}, "created_at")])
pgGroups == Upsert(
    {"id", "contract_address", "name", "organizer_id", "contribution_amount", "cycle_length_ns",
     "max_members", "total_cycles", "members", "payout_order", "state", "created_at", "activated_at"},
    {"id"},
    {"contract_address", "name", "organizer_id", "contribution_amount", "cycle_length_ns",
     "max_members", "total_cycles", "members", "payout_order", "state", "activated_at"},
    {{"id"}},
    [GetGroup |-> Unordered({"id"}), ListGroups |-> Asc({}, "created_at")])
pgMemberships == Upsert(
    {"id", "group_id", "user_id", "organizer", "status", "joined_at"},
    {"group_id", "user_id"},
    {"id", "organizer", "status"},
    {{"id"}, {"group_id", "user_id"}},
    [GetMembership |-> Unordered({"group_id", "user_id"}),
     ListMembershipsByGroup |-> Asc({"group_id"}, "joined_at"),
     ListMembershipsByUser |-> Unordered({"user_id"})])
pgJoinRequests == Upsert(
    {"id", "group_id", "user_id", "status", "created_at", "decided_at", "decided_by"},
    {"id"}, {"status", "decided_at", "decided_by"}, {{"id"}},
    [GetJoinRequest |-> Unordered({"id"}),
     ListJoinRequestsByGroup |-> Asc({"group_id"}, "created_at")])
pgInvitations == Upsert(
    {"id", "group_id", "user_id", "invited_by", "status", "created_at"},
    {"id"}, {"status"}, {{"id"}},
    [GetInvitation |-> Unordered({"id"}), ListInvitationsByUser |-> Asc({"user_id"}, "created_at")])
pgCycles == Upsert(
    {"group_id", "idx", "deadline", "payout_user", "settled"},
    {"group_id", "idx"}, {"deadline", "payout_user", "settled"}, {{"group_id", "idx"}},
    [GetCycle |-> Unordered({"group_id", "idx"}), ListCyclesByGroup |-> Asc({"group_id"}, "idx")])
pgContributions == Upsert(
    {"id", "group_id", "user_id", "cycle_index", "amount", "commitment", "revealed", "paid_at"},
    {"group_id", "user_id", "cycle_index"},
    {"id", "amount", "commitment", "revealed", "paid_at"},
    {{"id"}, {"group_id", "user_id", "cycle_index"}},
    [GetContribution |-> Unordered({"group_id", "user_id", "cycle_index"}),
     ListContributionsByCycle |-> Unordered({"group_id", "cycle_index"})])
pgPayouts == Insert(
    {"id", "group_id", "cycle_index", "payee_user_id", "gross_amount", "expected_amount",
     "shortfall", "disbursement_ref", "settled_at"},
    [ListPayoutsByGroup |-> Asc({"group_id"}, "cycle_index")])
pgEscrow == Insert(
    {"id", "group_id", "cycle_index", "user_id", "direction", "amount", "reference", "memo", "created_at"},
    [ListEscrowByGroup |-> Asc({"group_id"}, "created_at")])
\* Mutant: the feed of all events is sorted oldest first.
pgReputationOldestFirst == Insert(
    {"id", "user_id", "group_id", "cycle_index", "type", "amount", "proof_hash", "timestamp"},
    [ReputationEvents |-> Asc({"user_id"}, "timestamp"),
     AllReputationEvents |-> Asc({}, "timestamp")])
pgReputation == Insert(
    {"id", "user_id", "group_id", "cycle_index", "type", "amount", "proof_hash", "timestamp"},
    [ReputationEvents |-> Asc({"user_id"}, "timestamp"),
     AllReputationEvents |-> Newest({}, "timestamp")])
pgWebhooks == Upsert(
    {"id", "url", "secret", "active", "created_by", "created_at"},
    {"id"}, {"url", "secret", "active"}, {{"id"}},
    [GetWebhook |-> Unordered({"id"}), ListWebhooks |-> Asc({}, "created_at")])
pgNotifications == Upsert(
    {"id", "user_id", "kind", "title", "body", "read", "created_at"},
    {"id"}, {"read"}, {{"id"}},
    [ListNotificationsByUser |-> Asc({"user_id"}, "created_at")])
pgAudit == Insert(
    {"id", "actor_id", "action", "target", "detail", "created_at"},
    [ListAudit |-> Newest({}, "created_at")])

-----------------------------------------------------------------------------
memory == [users |-> memUsers, groups |-> memGroups, memberships |-> memMemberships,
    join_requests |-> memJoinRequests, invitations |-> memInvitations, cycles |-> memCycles,
    contributions |-> memContributions, payouts |-> memPayouts, escrow_entries |-> memEscrow,
    reputation_events |-> memReputation, webhooks |-> memWebhooks,
    notifications |-> memNotifications, audit |-> memAudit]
sqlite == [users |-> sqliteUsers, groups |-> sqliteGroups, memberships |-> sqliteMemberships,
    join_requests |-> sqliteJoinRequests, invitations |-> sqliteInvitations, cycles |-> sqliteCycles,
    contributions |-> sqliteContributions, payouts |-> sqlitePayouts, escrow_entries |-> sqliteEscrow,
    reputation_events |-> sqliteReputation, webhooks |-> sqliteWebhooks,
    notifications |-> sqliteNotifications, audit |-> sqliteAudit]
postgres == [users |-> pgUsers, groups |-> pgGroups, memberships |-> pgMemberships,
    join_requests |-> pgJoinRequests, invitations |-> pgInvitations, cycles |-> pgCycles,
    contributions |-> pgContributions, payouts |-> pgPayouts, escrow_entries |-> pgEscrow,
    reputation_events |-> pgReputation, webhooks |-> pgWebhooks,
    notifications |-> pgNotifications, audit |-> pgAudit]
=============================================================================
