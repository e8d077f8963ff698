----------------------------- MODULE UserAccess -----------------------------
(***************************************************************************)
(* Users of the console, their roles and the accounts granted to them      *)
(* (AuthUserService, the admin_users routes, Google sign-in).              *)
(*                                                                         *)
(* A request is served in two steps: its session cookie is resolved, the   *)
(* guards are checked and what it needs is read; then it writes and        *)
(* commits.  Other sessions may commit in between.                         *)
(***************************************************************************)
EXTENDS Naturals, FiniteSets

CONSTANTS
  MaxUsers,      \* bound: users that are ever created
  People,        \* Google identities
  AdminEmails,   \* the people in the admin_emails setting
  AccountIds,    \* the accounts that are no managers
  AccessThreads, \* threads that serve requests
  MaxChanges     \* bound: committed requests

ASSUME AccessAssumption ==
  /\ AdminEmails \subseteq People
  /\ MaxUsers \in Nat \ {0}
  /\ MaxChanges \in Nat

VARIABLES
  users,       \* users[i]: the row with key i, NoUser before it, Removed after it
  grants,      \* rows of user_accounts: [user, account, by]
  request,     \* request[t]: what thread t serves, and what it has read
  changes,     \* number of the latest commit
  demoted,     \* history: an admin gave up the role
  overtaken,   \* history: a change by one who was no longer an admin
  latest,      \* latest[i]: the accounts of the newest replacement of i's grants
  mixed        \* history: users of whom two replacements overlapped

accessVars == <<users, grants, request, changes, demoted, overtaken, latest, mixed>>

Ids == 1..MaxUsers    \* keys are given out in order, and only once

NoUser    == [who |-> {}, role |-> "manager", active |-> FALSE]
Removed   == [who |-> {}, role |-> "manager", active |-> TRUE]
NoRequest == [op |-> "none"]

Row(p, role) == [who |-> {p}, role |-> role, active |-> TRUE]

Exists(i) == users[i] \notin {NoUser, Removed}

\* get_current_user and require_admin: an active user with the role.
IsAdmin(i) == Exists(i) /\ users[i].active /\ users[i].role = "admin"

GrantsOf(i) == {g \in grants : g.user = i}

AtRest(t) == request[t] = NoRequest

AccessInit ==
  /\ \E p \in AdminEmails :
       users = [i \in Ids |-> IF i = 1 THEN Row(p, "admin") ELSE NoUser]
  /\ grants = {}
  /\ request = [t \in AccessThreads |-> NoRequest]
  /\ changes = 0
  /\ demoted = FALSE
  /\ overtaken = FALSE
  /\ latest = [i \in Ids |-> {}]
  /\ mixed = {}

-----------------------------------------------------------------------------
\* google_callback: the row of the person is looked up by the identity, then by
\* the e-mail (which stand for each other here).
FindSignIn(t) ==
  /\ AtRest(t) /\ changes < MaxChanges
  /\ \E p \in People :
       request' = [request EXCEPT ![t] =
         [op |-> "signin", who |-> p,
          found |-> {[id |-> i, role |-> users[i].role] :
                       i \in {j \in Ids : users[j].who = {p}}}]]
  /\ UNCHANGED <<users, grants, changes, demoted, overtaken, latest, mixed>>

Listed(p) == IF p \in AdminEmails THEN "admin" ELSE "manager"

\* The list of admins promotes; it neither demotes nor enables anybody.  The role
\* is written only if it differs from the loaded one.
Refreshed(row, loaded, p) ==
  IF Listed(p) = "admin" /\ loaded # "admin" THEN [row EXCEPT !.role = "admin"] ELSE row

\* A new row, refused by the unique e-mail if the person has one by now.
Insert(p) ==
  /\ \A i \in Ids : users[i].who # {p}
  /\ \E i \in Ids :
       /\ users[i] = NoUser /\ \A j \in 1..(i - 1) : users[j] # NoUser
       /\ users' = [users EXCEPT ![i] = Row(p, Listed(p))]

Refresh(f, p) ==
  /\ Exists(f.id)
  /\ users' = [users EXCEPT ![f.id] = Refreshed(@, f.role, p)]

\* upsert_from_google: flush and commit.
SignIn(t) ==
  /\ request[t].op = "signin"
  /\ \/ request[t].found = {} /\ Insert(request[t].who)
     \/ \E f \in request[t].found : Refresh(f, request[t].who)
  /\ request' = [request EXCEPT ![t] = NoRequest]
  /\ changes' = changes + 1
  /\ UNCHANGED <<grants, demoted, overtaken, latest, mixed>>

-----------------------------------------------------------------------------
\* Mutant of Permitted: the checks against locking oneself out are missing.
PermittedAny(i, op, j) == TRUE

\* Nobody disables or removes the own account.
Permitted(i, op, j) == op \in {"disable", "remove"} => i # j

Operations == {"promote", "demote", "enable", "disable", "remove"}

\* A route of admin_users: require_admin, the checks, and the row is loaded.
Authorise(t) ==
  /\ AtRest(t) /\ changes < MaxChanges
  /\ \E i \in Ids, j \in Ids, op \in Operations :
       /\ IsAdmin(i) /\ Exists(j) /\ Permitted(i, op, j)
       /\ request' = [request EXCEPT ![t] = [op |-> op, by |-> i, user |-> j]]
  /\ UNCHANGED <<users, grants, changes, demoted, overtaken, latest, mixed>>

Changed(row, op) ==
  CASE op = "promote" -> [row EXCEPT !.role = "admin"]
    [] op = "demote"  -> [row EXCEPT !.role = "manager"]
    [] op = "enable"  -> [row EXCEPT !.active = TRUE]
    [] op = "disable" -> [row EXCEPT !.active = FALSE]
    [] op = "remove"  -> Removed

\* set_role, set_active, delete_user; the grants of a removed user go along.
Apply(t) ==
  /\ request[t].op \in Operations /\ Exists(request[t].user)
  /\ LET r == request[t] IN
     /\ users' = [users EXCEPT ![r.user] = Changed(users[r.user], r.op)]
     /\ grants' = IF r.op = "remove" THEN grants \ GrantsOf(r.user) ELSE grants
     /\ latest' = IF r.op = "remove" THEN [latest EXCEPT ![r.user] = {}] ELSE latest
     /\ demoted' = (demoted \/ (r.op = "demote" /\ r.by = r.user))
     /\ overtaken' = (overtaken \/ ~IsAdmin(r.by))
  /\ request' = [request EXCEPT ![t] = NoRequest]
  /\ changes' = changes + 1
  /\ UNCHANGED mixed

-----------------------------------------------------------------------------
\* Mutant of Kept: grants are added, the old ones stay.
KeptAll(read) == grants

\* What is left when the rows that were read are deleted.
Kept(read) == grants \ read

\* set_accounts up to the DELETE: it removes the rows it can see.
Revoke(t) ==
  /\ AtRest(t) /\ changes < MaxChanges
  /\ \E i \in Ids, j \in Ids, accounts \in SUBSET AccountIds :
       /\ IsAdmin(i) /\ Exists(j)
       /\ request' = [request EXCEPT ![t] =
            [op |-> "grant", user |-> j, accounts |-> accounts,
             read |-> GrantsOf(j)]]
       /\ mixed' = IF \E s \in AccessThreads :
                        request[s].op = "grant" /\ request[s].user = j
                   THEN mixed \cup {j} ELSE mixed
  /\ UNCHANGED <<users, grants, changes, demoted, overtaken, latest>>

\* The new rows are inserted and the request commits, unless a row for the user
\* and an account is there by now or the user is gone.
Grant(t) ==
  /\ request[t].op = "grant" /\ Exists(request[t].user)
  /\ LET r == request[t]
         left == Kept(r.read)
     IN  /\ \A g \in left : g.user = r.user => g.account \notin r.accounts
         /\ grants' = left \cup
              {[user |-> r.user, account |-> a, by |-> changes + 1] : a \in r.accounts}
         /\ latest' = [latest EXCEPT ![r.user] = r.accounts]
  /\ request' = [request EXCEPT ![t] = NoRequest]
  /\ changes' = changes + 1
  /\ UNCHANGED <<users, demoted, overtaken, mixed>>

\* A request that fails or is refused: its transaction is rolled back.
Abandon(t) ==
  /\ ~AtRest(t)
  /\ request' = [request EXCEPT ![t] = NoRequest]
  /\ UNCHANGED <<users, grants, changes, demoted, overtaken, latest, mixed>>

AccessNext == \E t \in AccessThreads :
  FindSignIn(t) \/ SignIn(t) \/ Authorise(t) \/ Apply(t) \/ Revoke(t) \/ Grant(t)
    \/ Abandon(t)

AccessSpec == AccessInit /\ [][AccessNext]_accessVars

-----------------------------------------------------------------------------
(* Properties.                                                             *)

\* Somebody can still manage users: the checks of the routes keep an active
\* admin, unless one gives up the own role, or two requests cross and a change
\* is made by one who is an admin no longer.
AdminRemains == demoted \/ overtaken \/ \E i \in Ids : IsAdmin(i)

\* The accounts of a user are those of one request, never parts of two, as long
\* as no two replacements of that user's grants overlapped.
GrantsOfOneRequest ==
  \A i \in Ids \ mixed : {g.account : g \in GrantsOf(i)} = latest[i]

=============================================================================
