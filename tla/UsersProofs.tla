------------------------------ MODULE UsersProofs ------------------------------
(* What holds of sign-in and roles for any number of people and addresses.   *)
EXTENDS Users, SequenceTheorems, TLAPS

Rows == [email : Emails, sub : People, role : {"viewer", "admin"}, disabled : BOOLEAN]
(* The types, the uniqueness of rows, and that a request is about a row     *)
(* there is: rows are never deleted.                                        *)
UsersInv ==
    /\ mail \in [People -> Emails]
    /\ users \in Seq(Rows)
    /\ session \in [People -> Nat]
    /\ flight \in [People -> Patches \cup {None}]
    /\ \A p \in People : flight[p] # None => flight[p].target \in DOMAIN users
    /\ OneRowEach

\* A row that is written over stays a row.
LEMMA RowWritten ==
    ASSUME UsersInv, NEW i \in DOMAIN users, NEW row \in Rows, users' = [users EXCEPT ![i] = row]
    PROVE  /\ users' \in Seq(Rows) /\ DOMAIN users' = DOMAIN users /\ users'[i] = row
           /\ \A j \in DOMAIN users : j # i => users'[j] = users[j]
<1>1. users \in Seq(Rows) /\ i \in 1..Len(users)
    BY DEF UsersInv
<1>2. QED BY <1>1, ExceptSeq

\* A login takes a row, its own or one with its address, or adds one.
Taken(p, i, row) ==
    /\ \/ users[i].sub = p
       \/ users[i].email = mail[p] /\ \A j \in DOMAIN users : users[j].sub # p
    /\ \A j \in DOMAIN users : users[j].email = mail[p] => j = i
    /\ users' = [users EXCEPT ![i] = row]
    /\ row.email = mail[p] /\ row.sub = users[i].sub /\ row.disabled = users[i].disabled
    /\ users[i].role = "admin" => row.role = "admin"
Added(p, row) ==
    /\ \A j \in DOMAIN users : users[j].sub # p /\ users[j].email # mail[p]
    /\ row.email = mail[p] /\ row.sub = p /\ users' = Append(users, row)

LEMMA LoginChange ==
    ASSUME NEW p \in People, UsersInv, Login(p)
    PROVE  (\E i \in DOMAIN users, row \in Rows : Taken(p, i, row)) \/ \E row \in Rows : Added(p, row)
<1>1. CASE Existing(p) # {}
    <2>1. PICK i \in Existing(p) : Touch(p, i)
        BY <1>1 DEF Login
    <2>2. i \in DOMAIN users /\ users[i] \in Rows /\ mail[p] \in Emails
        BY DEF Existing, BySubject, ByEmail, UsersInv
    <2> DEFINE role == IF Bootstrapped(p) THEN "admin" ELSE users[i].role
               row == [users[i] EXCEPT !.email = mail[p], !.role = role]
    <2>3. role \in {"viewer", "admin"} /\ (users[i].role = "admin" => role = "admin")
        BY <2>2 DEF Rows
    <2>4. users' = [users EXCEPT ![i] = row]
        BY <2>1 DEF Touch
    <2> HIDE DEF role
    <2>5. row = [users[i] EXCEPT !.email = mail[p], !.role = role]
        OBVIOUS
    <2> HIDE DEF row
    <2>6. row \in Rows /\ row.email = mail[p] /\ row.sub = users[i].sub /\ row.disabled = users[i].disabled /\ row.role = role
        BY <2>2, <2>3, <2>5 DEF Rows
    <2>7. /\ \/ users[i].sub = p
             \/ users[i].email = mail[p] /\ \A j \in DOMAIN users : users[j].sub # p
          /\ \A j \in DOMAIN users : users[j].email = mail[p] => j = i
        BY <2>1 DEF Touch, Existing, BySubject, ByEmail
    <2>8. QED BY <2>2, <2>3, <2>4, <2>6, <2>7 DEF Taken
<1>2. CASE Existing(p) = {}
    <2> DEFINE row == [email |-> mail[p], sub |-> p, role |-> IF Bootstrapped(p) THEN "admin" ELSE "viewer",
                       disabled |-> FALSE]
    <2>1. users' = Append(users, row) /\ ByEmail(mail[p]) = {}
        BY <1>2 DEF Login, Insert
    <2>2. \A j \in DOMAIN users : users[j].sub # p /\ users[j].email # mail[p]
        BY <1>2, <2>1 DEF Existing, BySubject, ByEmail
    <2>3. row \in Rows /\ row.email = mail[p] /\ row.sub = p
        BY DEF Rows, UsersInv
    <2>4. QED BY <2>1, <2>2, <2>3 DEF Added
<1>3. QED BY <1>1, <1>2

\* Whatever a handled request does to a row, it leaves who the row is of.
Patched(r, row) ==
    /\ r.target \in DOMAIN users /\ users' = [users EXCEPT ![r.target] = row]
    /\ row.sub = users[r.target].sub /\ row.email = users[r.target].email
    /\ row.role = IF r.role = "same" THEN users[r.target].role ELSE r.role
    /\ r.access = "same" => row.disabled = users[r.target].disabled
    /\ r.access = "enabled" => ~row.disabled
LEMMA HandleChange ==
    ASSUME NEW p \in People, UsersInv, Handle(p)
    PROVE  /\ flight[p] \in Patches
           /\ \/ users' = users
              \/ ~LocksSelfOut(flight[p]) /\ \E row \in Rows : Patched(flight[p], row)
<1> DEFINE r == flight[p]
           i == r.target
           role == IF r.role = "same" THEN users[i].role ELSE r.role
           off == IF r.access = "same" THEN users[i].disabled ELSE r.access = "disabled"
           row == [users[i] EXCEPT !.role = role, !.disabled = off]
<1>1. r \in Patches /\ i \in DOMAIN users
    BY DEF Handle, UsersInv
<1>2. CASE LocksSelfOut(r)
    BY <1>1, <1>2 DEF Handle
<1>3. CASE ~LocksSelfOut(r)
    <2>1. users' = [users EXCEPT ![i] = row]
        BY <1>3 DEF Handle
    <2>2. users[i] \in Rows
        BY <1>1 DEF UsersInv
    <2>3. role \in {"viewer", "admin"}
        BY <1>1, <2>2 DEF Patches, Rows
    <2>4. off \in BOOLEAN
        BY <2>2 DEF Rows
    <2>5. (r.access = "same" => off = users[i].disabled) /\ (r.access = "enabled" => ~off)
        OBVIOUS
    <2>6. role = IF r.role = "same" THEN users[i].role ELSE r.role
        OBVIOUS
    <2> HIDE DEF off, role
    <2>7. row = [users[i] EXCEPT !.role = role, !.disabled = off]
        OBVIOUS
    <2> HIDE DEF row
    <2>8. row \in Rows /\ row.sub = users[i].sub /\ row.email = users[i].email /\ row.role = role /\ row.disabled = off
        BY <2>2, <2>3, <2>4, <2>7 DEF Rows
    <2>9. Patched(r, row)
        BY <1>1, <2>1, <2>5, <2>6, <2>8 DEF Patched
    <2>10. QED BY <1>1, <1>3, <2>8, <2>9
<1>4. QED BY <1>2, <1>3

LEMMA UsersStep == UsersInv /\ [Next]_vars => UsersInv'
<1> SUFFICES ASSUME UsersInv, [Next]_vars PROVE UsersInv'
    OBVIOUS
<1>1. ASSUME NEW p \in People, Login(p) PROVE UsersInv'
    <2>1. mail' = mail /\ flight' = flight
        BY <1>1 DEF Login
    <2>2. users' \in Seq(Rows) /\ DOMAIN users \subseteq DOMAIN users' /\ OneRowEach'
        <3>1. ASSUME NEW i \in DOMAIN users, NEW row \in Rows, Taken(p, i, row)
              PROVE  users' \in Seq(Rows) /\ DOMAIN users \subseteq DOMAIN users' /\ OneRowEach'
            <4>1. /\ users' \in Seq(Rows) /\ DOMAIN users' = DOMAIN users /\ users'[i] = row
                  /\ \A j \in DOMAIN users : j # i => users'[j] = users[j]
                BY <3>1, RowWritten DEF Taken
            <4>2. OneRowEach'
                BY <3>1, <4>1 DEF UsersInv, OneRowEach, Taken
            <4>3. QED BY <4>1, <4>2
        <3>2. ASSUME NEW row \in Rows, Added(p, row)
              PROVE  users' \in Seq(Rows) /\ DOMAIN users \subseteq DOMAIN users' /\ OneRowEach'
            <4>1. users \in Seq(Rows) /\ OneRowEach
                BY DEF UsersInv
            <4>2. /\ users' \in Seq(Rows) /\ DOMAIN users' = 1..(Len(users) + 1) /\ DOMAIN users = 1..Len(users)
                  /\ Len(users) \in Nat /\ users'[Len(users) + 1] = row
                  /\ \A j \in 1..Len(users) : users'[j] = users[j]
                BY <3>2, <4>1 DEF Added
            <4>3. OneRowEach'
                BY <3>2, <4>1, <4>2 DEF OneRowEach, Added
            <4>4. QED BY <4>2, <4>3
        <3>3. QED BY <1>1, <3>1, <3>2, LoginChange
    <2>3. session' \in [People -> Nat]
        <3>1. \E i \in Nat : SignedIn(p, i)
            <4>1. users \in Seq(Rows) /\ Existing(p) \subseteq DOMAIN users
                BY DEF UsersInv, Existing, BySubject, ByEmail
            <4>2. DOMAIN users \subseteq Nat /\ Len(users) + 1 \in Nat
                BY <4>1
            <4>3. QED BY <1>1, <4>1, <4>2 DEF Login
        <3>2. QED BY <3>1 DEF SignedIn, UsersInv
    <2>4. QED BY <2>1, <2>2, <2>3 DEF UsersInv
<1>2. ASSUME NEW p \in People, SignedOut(p) PROVE UsersInv'
    BY <1>2 DEF SignedOut, UsersInv, OneRowEach
<1>3. ASSUME NEW p \in People, Handle(p) PROVE UsersInv'
    <2>1. users' \in Seq(Rows) /\ DOMAIN users' = DOMAIN users /\ OneRowEach'
        <3>1. CASE users' = users
            BY <3>1 DEF UsersInv, OneRowEach
        <3>2. ASSUME NEW row \in Rows, Patched(flight[p], row)
              PROVE  users' \in Seq(Rows) /\ DOMAIN users' = DOMAIN users /\ OneRowEach'
            <4>1. LET i == flight[p].target
                  IN  /\ users' \in Seq(Rows) /\ DOMAIN users' = DOMAIN users /\ users'[i] = row
                      /\ \A j \in DOMAIN users : j # i => users'[j] = users[j]
                BY <3>2, RowWritten DEF Patched
            <4>2. \A j \in DOMAIN users : users'[j].sub = users[j].sub /\ users'[j].email = users[j].email
                BY <3>2, <4>1 DEF Patched
            <4>3. QED BY <4>1, <4>2 DEF UsersInv, OneRowEach
        <3>3. QED BY <1>3, <3>1, <3>2, HandleChange
    <2>2. flight' = [flight EXCEPT ![p] = None] /\ UNCHANGED <<mail, session>>
        BY <1>3 DEF Handle
    <2>3. QED BY <2>1, <2>2 DEF UsersInv
<1>4. ASSUME NEW p \in People, NEW i \in DOMAIN users, NEW role \in {"viewer", "admin", "same"},
             NEW access \in {"disabled", "enabled", "same"},
             Arrive(p, [actor |-> session[p], target |-> i, role |-> role, access |-> access])
      PROVE  UsersInv'
    <2> DEFINE patch == [actor |-> session[p], target |-> i, role |-> role, access |-> access]
    <2>0. users \in Seq(Rows)
        BY DEF UsersInv
    <2>1. patch \in Patches /\ patch.target \in DOMAIN users
        BY <2>0 DEF Patches, UsersInv
    <2>2. flight' = [flight EXCEPT ![p] = patch] /\ UNCHANGED <<mail, users, session>>
        BY <1>4 DEF Arrive
    <2> HIDE DEF patch
    <2>3. QED BY <2>1, <2>2 DEF UsersInv, OneRowEach
<1>5. ASSUME NEW p \in People, NEW e \in Emails, Rename(p, e) PROVE UsersInv'
    BY <1>5 DEF Rename, UsersInv, OneRowEach
<1>6. ASSUME NEW list \in AdminLists, Restart(list) PROVE UsersInv'
    BY <1>6 DEF Restart, UsersInv, OneRowEach
<1>7. CASE UNCHANGED vars
    BY <1>7 DEF vars, UsersInv, OneRowEach
<1>8. QED BY <1>1, <1>2, <1>3, <1>4, <1>5, <1>6, <1>7 DEF Next

LEMMA Invariance == Spec => []UsersInv
<1>1. Init => UsersInv
    <2> SUFFICES ASSUME Init PROVE UsersInv
        OBVIOUS
    <2>1. users \in Seq(Rows) /\ DOMAIN users = {}
        BY DEF Init
    <2>2. session \in [People -> Nat] /\ flight \in [People -> Patches \cup {None}] /\ \A p \in People : flight[p] = None
        BY DEF Init
    <2>3. mail \in [People -> Emails]
        BY DEF Init
    <2>4. QED BY <2>1, <2>2, <2>3 DEF UsersInv, OneRowEach
<1>2. QED BY <1>1, UsersStep, PTL DEF Spec

\* A login takes the role of admin from nobody.
LEMMA LoginKeepsAdmins == ASSUME NEW p \in People, UsersInv, Login(p), HasAdmin PROVE HasAdmin'
<1>1. PICK a \in DOMAIN users : users[a].role = "admin" /\ ~users[a].disabled
    BY DEF HasAdmin, EnabledAdmin
<1>2. ASSUME NEW i \in DOMAIN users, NEW row \in Rows, Taken(p, i, row) PROVE HasAdmin'
    <2>1. /\ DOMAIN users' = DOMAIN users /\ users'[i] = row
          /\ \A j \in DOMAIN users : j # i => users'[j] = users[j]
        BY <1>2, RowWritten DEF Taken
    <2>2. QED BY <1>1, <1>2, <2>1 DEF Taken, HasAdmin, EnabledAdmin
<1>3. ASSUME NEW row \in Rows, Added(p, row) PROVE HasAdmin'
    <2>1. users \in Seq(Rows)
        BY DEF UsersInv
    <2>2. a \in DOMAIN users' /\ users'[a] = users[a]
        BY <1>3, <2>1 DEF Added
    <2>3. QED BY <1>1, <2>2 DEF HasAdmin, EnabledAdmin
<1>4. QED BY <1>2, <1>3, LoginChange

\* A request whose sender still is an admin leaves its sender one.
LEMMA HandleKeepsSender ==
    ASSUME NEW p \in People, UsersInv, Handle(p), EnabledAdmin(flight[p].actor)
    PROVE  HasAdmin'
<1> DEFINE a == flight[p].actor
           i == flight[p].target
<1>1. a \in DOMAIN users /\ users[a].role = "admin" /\ ~users[a].disabled
    BY DEF EnabledAdmin
<1>2. CASE users' = users
    BY <1>1, <1>2 DEF HasAdmin, EnabledAdmin
<1>3. ASSUME NEW row \in Rows, Patched(flight[p], row), ~LocksSelfOut(flight[p]) PROVE HasAdmin'
    <2>1. /\ DOMAIN users' = DOMAIN users /\ users'[i] = row
          /\ \A j \in DOMAIN users : j # i => users'[j] = users[j]
        BY <1>3, RowWritten DEF Patched
    <2>2. CASE i = a
        <3>1. flight[p].role \in {"admin", "same"} /\ flight[p].access \in {"enabled", "same"}
            BY <1>3, <2>2, HandleChange DEF LocksSelfOut, Patches
        <3>2. row.role = "admin" /\ ~row.disabled
            BY <1>1, <1>3, <2>2, <3>1 DEF Patched
        <3>3. QED BY <1>1, <2>1, <2>2, <3>2 DEF HasAdmin, EnabledAdmin
    <2>3. CASE i # a
        BY <1>1, <2>1, <2>3 DEF HasAdmin, EnabledAdmin
    <2>4. QED BY <2>2, <2>3
<1>4. QED BY <1>2, <1>3, HandleChange

(* Only a request let in while its sender was an admin, and handled after   *)
(* he stopped being one, can leave the server without any.                  *)
THEOREM AnAdminRemains == Spec => AdminRemains
<1>1. UsersInv /\ [Next]_vars /\ HasAdmin /\ ~HasAdmin' => \E p \in People : Overtaken(p)
    <2> SUFFICES ASSUME UsersInv, [Next]_vars, HasAdmin, ~HasAdmin' PROVE \E p \in People : Overtaken(p)
        OBVIOUS
    <2>1. users' # users
        BY DEF HasAdmin, EnabledAdmin
    <2>2. PICK p \in People : Handle(p)
        BY <2>1, LoginKeepsAdmins DEF Next, vars, SignedOut, Arrive, Rename, Restart
    <2>3. ~EnabledAdmin(flight[p].actor)
        BY <2>2, HandleKeepsSender
    <2>4. flight[p] # None /\ flight'[p] = None
        BY <2>2 DEF Handle, UsersInv
    <2>5. QED BY <2>3, <2>4 DEF Overtaken
<1>2. QED BY <1>1, Invariance, PTL DEF Spec, AdminRemains

\* However addresses change hands, no person and no address gets a second row.
THEOREM RowsStayApart == Spec => []OneRowEach
    BY Invariance, PTL DEF UsersInv
===============================================================================
