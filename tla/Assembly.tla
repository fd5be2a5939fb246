------------------------------ MODULE Assembly ------------------------------
(***************************************************************************)
(* How one group comes together: CreateGroup, join requests, invitations,  *)
(* leaving and removing (internal/app/groups.go) and ActivateGroup         *)
(* (cycles.go), as requests that read the group row, decide, and write it  *)
(* back whole.                                                             *)
(*                                                                         *)
(* The store's upserts are the only atomic steps: SaveGroup overwrites the *)
(* whole row, its member list included, with the copy the handler holds.   *)
(* Every user here passes CanParticipate.                                  *)
(***************************************************************************)
EXTENDS Integers, Sequences, FiniteSets

CONSTANTS
    Users,         \* the users of the platform
    Organizer,     \* the user who creates the group
    Requests,      \* IDs for join requests
    Invitations,   \* IDs for invitations
    NoID,          \* no value in a request's id field
    Threads,       \* HTTP requests that may be in flight at once
    Overlap,       \* TRUE: requests interleave
    MaxMembers,    \* Group.MaxMembers
    MaxFailures    \* bound on failed calls and crashes

ASSUME OrganizerAssumption == Organizer \in Users
ASSUME IDsAssumption == Requests \cap Invitations = {} /\ NoID \notin Requests \cup Invitations
ASSUME OverlapAssumption == Overlap \in BOOLEAN
\* ValidateConfig
ASSUME MaxMembersAssumption == MaxMembers \in Nat /\ MaxMembers >= 2
ASSUME BoundsAssumption == MaxFailures \in Nat

VARIABLES
    group,        \* store: the group row, state "NONE" before it is saved
    membership,   \* store: per user, the status of the membership row
    item,         \* store: join requests and invitations
    cycles,       \* store: the payees of the cycle rows, by index
    contract,     \* chain: the deployed contract's state
    job,          \* each request: the next call and the handler's locals
    failures      \* failed calls and crashes so far

tables == <<group, membership, item, cycles>>
vars == <<tables, contract, job, failures>>

Items == Requests \cup Invitations
NoRow == [state |-> "NONE", members |-> <<>>, order |-> <<>>]
NoItem == [user |-> Organizer, status |-> "none"]
Idle == [pc |-> "idle", user |-> Organizer, id |-> NoID, row |-> NoRow,
         status |-> "none", index |-> 0]

At(t, label) == job[t].pc = label
AllIdle == \A t \in Threads : At(t, "idle")
CanStart(t) == At(t, "idle") /\ (Overlap \/ AllIdle)
Goto(t, label) == job' = [job EXCEPT ![t].pc = label]
Return(t) == job' = [job EXCEPT ![t] = Idle]

HasMember(row, u) == \E i \in 1 .. Len(row.members) : row.members[i] = u

\* Validate: the length of the payout order is checked, and that it holds members
\* only; the member list is checked for duplicates.
Validate(row) ==
    /\ Len(row.members) >= 2
    /\ Len(row.order) = Len(row.members)
    /\ \A i, j \in 1 .. Len(row.members) : row.members[i] = row.members[j] => i = j
    /\ \A i \in 1 .. Len(row.order) : HasMember(row, row.order[i])

Init ==
    /\ group = NoRow
    /\ membership = [u \in Users |-> "none"]
    /\ item = [i \in Items |-> NoItem]
    /\ cycles = <<>>
    /\ contract = "NONE"
    /\ job = [t \in Threads |-> Idle]
    /\ failures = 0

-----------------------------------------------------------------------------
(* What each write does when it takes effect *)

\* An upsert of every column, from the copy the handler read when it started.
SaveGroupEffect(t) ==
    /\ group' = job[t].row
    /\ UNCHANGED <<membership, item, cycles, contract>>

\* An upsert keyed by group and user.
SaveMembershipEffect(t, status) ==
    /\ membership' = [membership EXCEPT ![job[t].user] = status]
    /\ UNCHANGED <<group, item, cycles, contract>>

\* SaveJoinRequest and SaveInvitation: an upsert keyed by ID.
SaveItemEffect(t) ==
    /\ item' = [item EXCEPT ![job[t].id] = [user |-> job[t].user, status |-> job[t].status]]
    /\ UNCHANGED <<group, membership, cycles, contract>>

\* Mutant: the schedule follows the member list instead of the payout order.
SaveCycleJoinOrder(t) ==
    /\ LET k == job[t].index
       IN  cycles' = SubSeq(cycles, 1, k - 1) \o <<job[t].row.members[k]>>
                       \o SubSeq(cycles, k + 1, Len(cycles))
    /\ UNCHANGED <<group, membership, item, contract>>

\* An upsert keyed by group and index.
SaveCycleEffect(t) ==
    /\ LET k == job[t].index
       IN  cycles' = SubSeq(cycles, 1, k - 1) \o <<job[t].row.order[k]>>
                       \o SubSeq(cycles, k + 1, Len(cycles))
    /\ UNCHANGED <<group, membership, item, contract>>

ChainEffect(state) == contract' = state /\ UNCHANGED tables

-----------------------------------------------------------------------------
(* CreateGroup *)

\* Each call makes a group with an ID of its own; this is the one that the
\* variables describe, so a second call is made only while it has no row.
CreateGroup(t) ==
    /\ CanStart(t)
    /\ group = NoRow
    /\ \A s \in Threads : ~ At(s, "deploy") /\ ~ At(s, "saveNew")
    /\ job' = [job EXCEPT ![t] = [Idle EXCEPT !.pc = "deploy",
                 !.row = [state |-> "CREATED", members |-> <<Organizer>>, order |-> <<>>]]]
    /\ UNCHANGED <<tables, contract, failures>>

DeployGroup(t) ==
    /\ At(t, "deploy") /\ ChainEffect("CREATED") /\ Goto(t, "saveNew")
    /\ UNCHANGED failures

SaveNewGroup(t) ==
    /\ At(t, "saveNew") /\ SaveGroupEffect(t) /\ Goto(t, "saveOrganizer")
    /\ UNCHANGED failures

SaveOrganizer(t) ==
    /\ At(t, "saveOrganizer") /\ SaveMembershipEffect(t, "ACTIVE") /\ Return(t)
    /\ UNCHANGED failures

-----------------------------------------------------------------------------
(* Join requests and invitations *)

Open(row) == row.state = "CREATED"

\* Mutant: one member too many.
RoomForOneMore(row) == Len(row.members) <= MaxMembers

HasRoom(row) == Len(row.members) < MaxMembers

\* domain.NewID: an ID that no row and no request in flight has.
Fresh(i) == item[i] = NoItem /\ \A s \in Threads : job[s].id # i

\* Nothing looks for a request or an invitation the user already has.
RequestToJoin(t, u) ==
    /\ CanStart(t)
    /\ Open(group) /\ ~ HasMember(group, u) /\ HasRoom(group)
    /\ \E i \in Requests : Fresh(i) /\ job' = [job EXCEPT ![t] =
          [Idle EXCEPT !.pc = "saveItem", !.id = i, !.user = u, !.status = "PENDING"]]
    /\ UNCHANGED <<tables, contract, failures>>

\* The organizer may invite into a full group.
Invite(t, u) ==
    /\ CanStart(t)
    /\ Open(group) /\ ~ HasMember(group, u)
    /\ \E i \in Invitations : Fresh(i) /\ job' = [job EXCEPT ![t] =
          [Idle EXCEPT !.pc = "saveItem", !.id = i, !.user = u, !.status = "PENDING"]]
    /\ UNCHANGED <<tables, contract, failures>>

\* GetJoinRequest or GetInvitation: the first read of DecideJoinRequest and of
\* RespondInvitation, whose status check fails on this copy or not at all.
ReadItem(t, i, verdict) ==
    /\ CanStart(t)
    /\ item[i].status = "PENDING"
    /\ job' = [job EXCEPT ![t] = [Idle EXCEPT !.pc = "readGroup", !.id = i,
                 !.user = item[i].user, !.status = verdict]]
    /\ UNCHANGED <<tables, contract, failures>>

DecideJoinRequest(t) ==
    \E i \in Requests : ReadItem(t, i, "APPROVED") \/ ReadItem(t, i, "REJECTED")

RespondInvitation(t) ==
    \E i \in Invitations : ReadItem(t, i, "ACCEPTED") \/ ReadItem(t, i, "DECLINED")

Joins(status) == status \in {"APPROVED", "ACCEPTED"}

\* GetGroup, the second read, and the checks on its copy.  That the user is a
\* member by now is not one of them.
ReadGroup(t) ==
    /\ At(t, "readGroup")
    /\ IF ~ Joins(job[t].status)
         THEN Goto(t, "saveItem")
         ELSE IF Open(group) /\ HasRoom(group)
         THEN job' = [job EXCEPT ![t].pc = "addMember",
                ![t].row = [group EXCEPT !.members = Append(@, job[t].user)]]
         ELSE Return(t)
    /\ UNCHANGED <<tables, contract, failures>>

AddMember(t) ==
    /\ At(t, "addMember") /\ SaveGroupEffect(t) /\ Goto(t, "saveMembership")
    /\ UNCHANGED failures

SaveMembership(t) ==
    /\ At(t, "saveMembership") /\ SaveMembershipEffect(t, "ACTIVE") /\ Goto(t, "saveItem")
    /\ UNCHANGED failures

SaveItem(t) ==
    /\ At(t, "saveItem") /\ SaveItemEffect(t) /\ Return(t)
    /\ UNCHANGED failures

-----------------------------------------------------------------------------
(* LeaveGroup and RemoveMember *)

\* Mutant: a member may leave in any state of the group.
DropAnytime(t, u, status) ==
    /\ CanStart(t)
    /\ group # NoRow /\ u # Organizer
    /\ job' = [job EXCEPT ![t] = [Idle EXCEPT !.pc = "getMembership", !.user = u,
                 !.row = group, !.status = status]]
    /\ UNCHANGED <<tables, contract, failures>>

StartDrop(t, u, status) ==
    /\ CanStart(t)
    /\ Open(group) /\ u # Organizer
    /\ job' = [job EXCEPT ![t] = [Idle EXCEPT !.pc = "getMembership", !.user = u,
                 !.row = group, !.status = status]]
    /\ UNCHANGED <<tables, contract, failures>>

LeaveGroup(t, u) == StartDrop(t, u, "LEFT")
RemoveMember(t, u) == StartDrop(t, u, "REMOVED")

\* The loop of dropMember: what is kept of the first i members.
Kept(s, u) ==
    LET kept[i \in 0 .. Len(s)] ==
          IF i = 0 THEN <<>> ELSE IF s[i] = u THEN kept[i - 1] ELSE Append(kept[i - 1], s[i])
    IN  kept

Without(s, u) == Kept(s, u)[Len(s)]

GetMembership(t) ==
    /\ At(t, "getMembership")
    /\ IF membership[job[t].user] # "none"
         THEN job' = [job EXCEPT ![t].pc = "dropMember",
                ![t].row.members = Without(@, job[t].user)]
         ELSE Return(t)
    /\ UNCHANGED <<tables, contract, failures>>

DropMember(t) ==
    /\ At(t, "dropMember") /\ SaveGroupEffect(t) /\ Goto(t, "markMembership")
    /\ UNCHANGED failures

\* Mutant: the membership row is left as it was.
MarkNothing(t) ==
    /\ At(t, "markMembership") /\ Return(t)
    /\ UNCHANGED <<tables, contract, failures>>

MarkMembership(t) ==
    /\ At(t, "markMembership") /\ SaveMembershipEffect(t, job[t].status) /\ Return(t)
    /\ UNCHANGED failures

-----------------------------------------------------------------------------
(* ActivateGroup *)

\* Mutant: the order is not validated.
ActivateUnchecked(t, order) ==
    /\ CanStart(t)
    /\ Open(group)
    /\ LET row == [group EXCEPT !.order = IF order = <<>> THEN group.members ELSE order]
       IN  job' = [job EXCEPT ![t] = [Idle EXCEPT !.pc = "activate", !.row = row]]
    /\ UNCHANGED <<tables, contract, failures>>

\* An empty order stands for the member list.
ActivateGroup(t, order) ==
    /\ CanStart(t)
    /\ Open(group)
    /\ LET row == [group EXCEPT !.order = IF order = <<>> THEN group.members ELSE order]
       IN  /\ Validate(row)
           /\ job' = [job EXCEPT ![t] = [Idle EXCEPT !.pc = "activate", !.row = row]]
    /\ UNCHANGED <<tables, contract, failures>>

\* Mutant: the row is saved before the chain is called.
ActivateLater(t) ==
    /\ At(t, "activate") /\ UNCHANGED <<tables, contract, failures>>
    /\ job' = [job EXCEPT ![t].pc = "saveActive", ![t].row.state = "ACTIVE"]

ActivateOnChain(t) ==
    /\ At(t, "activate") /\ ChainEffect("ACTIVE")
    /\ job' = [job EXCEPT ![t].pc = "saveActive", ![t].row.state = "ACTIVE"]
    /\ UNCHANGED failures

SaveActive(t) ==
    /\ At(t, "saveActive") /\ SaveGroupEffect(t)
    /\ job' = [job EXCEPT ![t].pc = "saveCycle", ![t].index = 1]
    /\ UNCHANGED failures

SaveCycle(t) ==
    /\ At(t, "saveCycle") /\ SaveCycleEffect(t)
    /\ IF job[t].index < Len(job[t].row.order)
         THEN job' = [job EXCEPT ![t].index = @ + 1]
         ELSE Return(t)
    /\ UNCHANGED failures

-----------------------------------------------------------------------------
(* Failures *)

Effect(t) ==
    \/ At(t, "deploy") /\ ChainEffect("CREATED")
    \/ At(t, "activate") /\ ChainEffect("ACTIVE")
    \/ job[t].pc \in {"saveNew", "addMember", "dropMember", "saveActive"} /\ SaveGroupEffect(t)
    \/ job[t].pc \in {"saveOrganizer", "saveMembership"} /\ SaveMembershipEffect(t, "ACTIVE")
    \/ At(t, "markMembership") /\ SaveMembershipEffect(t, job[t].status)
    \/ At(t, "saveItem") /\ SaveItemEffect(t)
    \/ At(t, "saveCycle") /\ SaveCycleEffect(t)

Fail == failures < MaxFailures /\ failures' = failures + 1

\* A call returns an error, although it may have taken effect: the handler ends
\* there and nothing is undone.
CallError(t) ==
    /\ ~ At(t, "idle")
    /\ Fail
    /\ Effect(t) \/ UNCHANGED <<tables, contract>>
    /\ Return(t)

\* The process dies and restarts.
Crash ==
    /\ ~ AllIdle
    /\ Fail
    /\ job' = [t \in Threads |-> Idle]
    /\ UNCHANGED <<tables, contract>>

-----------------------------------------------------------------------------
\* The payout orders an organizer may send: any list of users, as long as the
\* longest member list, or none at all.
Orders == UNION {[1 .. n -> Users] : n \in 0 .. MaxMembers}

Start(t) ==
    \/ CreateGroup(t) \/ DecideJoinRequest(t) \/ RespondInvitation(t)
    \/ \E u \in Users : RequestToJoin(t, u) \/ Invite(t, u) \/ LeaveGroup(t, u) \/ RemoveMember(t, u)
    \/ \E order \in Orders : ActivateGroup(t, order)

Step(t) ==
    \/ DeployGroup(t) \/ SaveNewGroup(t) \/ SaveOrganizer(t)
    \/ ReadGroup(t) \/ AddMember(t) \/ SaveMembership(t) \/ SaveItem(t)
    \/ GetMembership(t) \/ DropMember(t) \/ MarkMembership(t)
    \/ ActivateOnChain(t) \/ SaveActive(t) \/ SaveCycle(t)

Next ==
    \/ \E t \in Threads : Start(t) \/ Step(t) \/ CallError(t)
    \/ Crash

Spec == Init /\ [][Next]_vars

-----------------------------------------------------------------------------
(* Properties *)

MemberSet == {group.members[i] : i \in 1 .. Len(group.members)}

\* Whatever overlaps or fails, a saved row never has more members than MaxMembers:
\* the checks "group is full" are made on the very copy that is extended and saved.
Capacity == Len(group.members) <= MaxMembers

\* Whatever overlaps or fails, an ACTIVE row satisfies Validate (no member twice,
\* an order of the right length made of members) and every saved row still has its
\* organizer, whom LeaveGroup and RemoveMember refuse to drop.
RowIsValid ==
    /\ group.state = "ACTIVE" => Validate(group)
    /\ group # NoRow => HasMember(group, Organizer)

\* Whatever overlaps or fails, the writes of a handler come in one order: an
\* approved request or accepted invitation is for a user with a membership row,
\* an ACTIVE row or a cycle row exists only after the chain was activated, and a
\* group row only after its contract was deployed.
AssemblyLadder ==
    /\ \A i \in Items : Joins(item[i].status) => membership[item[i].user] # "none"
    /\ group.state = "ACTIVE" \/ cycles # <<>> => contract = "ACTIVE"
    /\ group # NoRow => contract # "NONE"

\* While nothing overlaps or fails, with nothing in flight, the users on the member
\* list are the users with an ACTIVE membership row.
SameMembers ==
    AllIdle /\ failures = 0 => MemberSet = {u \in Users : membership[u] = "ACTIVE"}

\* While nothing overlaps, an activated group is frozen: no request changes its
\* row or a membership any more, failed calls and crashes included.
ActiveIsFrozen ==
    [][group.state = "ACTIVE" => group' = group /\ membership' = membership]_vars

\* While nothing overlaps, the cycle rows are the payout order of the ACTIVE row as
\* far as they have been written, failed calls and crashes included.
ScheduleMatches == cycles = SubSeq(group.order, 1, Len(cycles))
=============================================================================
