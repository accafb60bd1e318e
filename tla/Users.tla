--------------------------------- MODULE Users ---------------------------------
(* Sign-in and roles (server: auth/index.ts; db: sqlite-users.ts).  A        *)
(* request passes the role guard when it arrives and is handled when its     *)
(* body is read; other requests are handled in between.                      *)
EXTENDS Naturals, Sequences

CONSTANTS
    People,     \* subjects of the identity provider
    Emails,     \* addresses it may give them, each to one at a time
    AdminLists, \* values KUMOMIRU_ADMIN_EMAILS may have
    None

ASSUME UsersAssumption == None \notin Emails /\ \A l \in AdminLists : l \subseteq Emails

VARIABLES
    mail,         \* person -> the address the provider has now
    adminEmails,  \* the list the server was started with
    users,        \* rows in order of insertion: [email, sub, role, disabled]
    session,      \* person -> the row his cookie names, or 0
    flight        \* person -> his PATCH /users between guard and handler, or None

vars == <<mail, adminEmails, users, session, flight>>

Patches == [actor : Nat, target : Nat, role : {"viewer", "admin", "same"}, access : {"disabled", "enabled", "same"}]
EnabledAdmin(i) == i \in DOMAIN users /\ users[i].role = "admin" /\ ~users[i].disabled

Init ==
    /\ mail \in [People -> Emails] /\ \A p, q \in People : mail[p] = mail[q] => p = q
    /\ adminEmails \in AdminLists
    /\ users = <<>> /\ session = [p \in People |-> 0] /\ flight = [p \in People |-> None]

\* The rows that a login would take, by subject before by address.
BySubject(p) == {i \in DOMAIN users : users[i].sub = p}
ByEmail(e) == {i \in DOMAIN users : users[i].email = e}
\* A plausible slip: a user is known by his address alone.
ExistingByEmail(p) == ByEmail(mail[p])
Existing(p) == IF BySubject(p) # {} THEN BySubject(p) ELSE ByEmail(mail[p])

Bootstrapped(p) == mail[p] \in adminEmails \/ (adminEmails = {} /\ users = <<>>)
\* An address that another row has makes the statement fail, and the login with it.
Touch(p, i) ==
    /\ ByEmail(mail[p]) \subseteq {i}
    /\ users' = [users EXCEPT ![i] = [users[i] EXCEPT !.email = mail[p], !.role = IF Bootstrapped(p) THEN "admin" ELSE users[i].role]]
Insert(p) ==
    /\ ByEmail(mail[p]) = {}
    /\ users' = Append(users, [email |-> mail[p], sub |-> p, role |-> IF Bootstrapped(p) THEN "admin" ELSE "viewer",
                               disabled |-> FALSE])
\* A disabled user gets no cookie, and keeps one he has.
SignedIn(p, i) == session' = IF users'[i].disabled THEN session ELSE [session EXCEPT ![p] = i]

Login(p) ==
    /\ IF Existing(p) # {} THEN \E i \in Existing(p) : Touch(p, i) /\ SignedIn(p, i)
       ELSE Insert(p) /\ SignedIn(p, Len(users) + 1)
    /\ UNCHANGED <<mail, adminEmails, flight>>
\* By logging out, or by the age of the cookie.
SignedOut(p) ==
    /\ session[p] # 0 /\ session' = [session EXCEPT ![p] = 0]
    /\ UNCHANGED <<mail, adminEmails, users, flight>>

Arrive(p, patch) ==
    /\ flight[p] = None /\ patch.actor = session[p] /\ EnabledAdmin(patch.actor) /\ patch.target \in DOMAIN users
    /\ flight' = [flight EXCEPT ![p] = patch]
    /\ UNCHANGED <<mail, adminEmails, users, session>>

\* A plausible slip: one may not demote oneself, but lock oneself out.
LocksSelfOutByRole(r) == r.target = r.actor /\ r.role = "viewer"
LocksSelfOut(r) == r.target = r.actor /\ (r.role = "viewer" \/ r.access = "disabled")
Handle(p) ==
    LET r == flight[p]
        u == users[r.target]
    IN  /\ r # None /\ flight' = [flight EXCEPT ![p] = None]
        /\ users' = IF LocksSelfOut(r) THEN users
                    ELSE [users EXCEPT ![r.target] =
                             [u EXCEPT !.role = IF r.role = "same" THEN u.role ELSE r.role,
                                       !.disabled = IF r.access = "same" THEN u.disabled ELSE r.access = "disabled"]]
        /\ UNCHANGED <<mail, adminEmails, session>>

\* The provider gives someone a new address that is free there.
Rename(p, e) ==
    /\ \A q \in People : mail[q] # e
    /\ mail' = [mail EXCEPT ![p] = e] /\ UNCHANGED <<adminEmails, users, session, flight>>
\* The server ends and comes back, perhaps configured anew; cookies survive it.
Restart(list) ==
    /\ adminEmails' = list /\ flight' = [p \in People |-> None]
    /\ UNCHANGED <<mail, users, session>>

Next ==
    \/ \E p \in People : Login(p) \/ SignedOut(p) \/ Handle(p)
    \/ \E p \in People, i \in DOMAIN users, role \in {"viewer", "admin", "same"}, access \in {"disabled", "enabled", "same"} :
           Arrive(p, [actor |-> session[p], target |-> i, role |-> role, access |-> access])
    \/ \E p \in People, e \in Emails : Rename(p, e)
    \/ \E list \in AdminLists : Restart(list)

Spec == Init /\ [][Next]_vars

-------------------------------------------------------------------------------
HasAdmin == \E i \in DOMAIN users : EnabledAdmin(i)
\* Handled although, since it arrived, its sender stopped being an admin.
Overtaken(p) == flight[p] # None /\ flight'[p] = None /\ ~EnabledAdmin(flight[p].actor)

(* No step leaves the server without an enabled admin, whom nobody could    *)
(* appoint again, but one: two admins demote each other at once, and the    *)
(* second request was let in before the first took effect.                  *)
AdminRemains == [][HasAdmin /\ ~HasAdmin' => \E p \in People : Overtaken(p)]_vars

(* However addresses change hands, no person and no address has two rows    *)
(* (repository.ts:275: "Upsert on login by (issuer, subject)").             *)
OneRowEach ==
    \A i, j \in DOMAIN users : users[i].sub = users[j].sub \/ users[i].email = users[j].email => i = j
===============================================================================
