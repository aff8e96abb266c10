------------------------------ MODULE Directory ------------------------------
(* Who may sign in, with which role, and which locations are in use         *)
(* (services/directory/src).  A session is a signed token that carries the  *)
(* role and the session version of the moment it was issued; the other      *)
(* services believe it until it expires, /auth/me compares the version.     *)
EXTENDS Integers, FiniteSets

CONSTANTS
    People,
    Roles,             \* two stand for the six: "OWNER" and the rest below
    FirstRole,         \* FirstRole[p]: role p has at the start, "none" if unknown
    Places,            \* locations
    MaxFailedAttempts,
    Tries,             \* sign-ins for one staff id that may be under way at a time
    MaxVersion         \* bound on the version of a person's sessions

ASSUME DirectoryAssumption ==
    /\ "OWNER" \in Roles /\ FirstRole \in [People -> Roles \cup {"none"}]
    /\ \E p \in People : FirstRole[p] = "OWNER"     \* bootstrapOwner, at every start
    /\ MaxFailedAttempts \in Nat \ {0} /\ MaxVersion \in Nat
    /\ IsFiniteSet(Tries) /\ Tries \subseteq Nat /\ Tries # {}

VARIABLES
    staff,     \* staff[p]: the Staff row
    sessions,  \* tokens handed out
    fails,     \* LoginThrottle: wrong passwords in a row
    locked,    \* ids that may not try for now
    trying,    \* trying[p][k]: the row a sign-in read before it checks the password
    admin,     \* admin[a]: what the request of person a remembers
    ended,     \* history: sessions that a deactivation, reset or change ended
    mixed,     \* history: people written over a row not looked at
    outdated,  \* history: an ended session wrote something
    place      \* place[l]: is the location active

staffVars == <<staff, sessions, ended, mixed, outdated>>
loginVars == <<fails, locked, trying>>
directoryVars == <<staffVars, loginVars, admin, place>>

Manageable == {"CASHIER", "WAREHOUSE_STAFF"}
Session(p, row) == [who |-> p, role |-> row.role, version |-> row.version, must |-> row.must]
Nobody == [active |-> FALSE, role |-> "none", version |-> 0, must |-> TRUE, password |-> FALSE]
Rows == [active : BOOLEAN, role : Roles \cup {"none"}, version : 0..MaxVersion,
         must : BOOLEAN, password : BOOLEAN]
Waiting == [op |-> "idle"]
NobodyTries == [p \in People |-> [k \in Tries |-> Waiting]]
Busy(p) == {k \in Tries : trying[p][k].op # "idle"}
(* Sign-ins that passed the lock before it fell may all fail behind it.     *)
MostFails == MaxFailedAttempts + Cardinality(Tries) - 1

DirectoryTypeOK ==
    /\ staff \in [People -> Rows]
    /\ \A s \in sessions : s.who \in People /\ s.version \in 0..MaxVersion
    /\ fails \in [People -> 0..MostFails] /\ locked \in SUBSET People
    /\ \A p \in People, k \in Tries : trying[p][k].op \in {"idle", "right", "wrong"}
    /\ \A a \in People : admin[a].op \in {"idle", "role", "active", "reset", "create", "change", "close"}
    /\ ended \in SUBSET sessions /\ mixed \in SUBSET People /\ outdated \in BOOLEAN
    /\ place \in [Places -> BOOLEAN]

DirectoryInit ==
    /\ staff = [p \in People |-> IF FirstRole[p] = "none" THEN Nobody ELSE
                   [active |-> TRUE, role |-> FirstRole[p], version |-> 0,
                    must |-> FALSE, password |-> TRUE]]
    /\ sessions = {} /\ ended = {} /\ mixed = {} /\ outdated = FALSE
    /\ fails = [p \in People |-> 0] /\ locked = {}
    /\ trying = NobodyTries /\ admin = [p \in People |-> Waiting]
    /\ place = [l \in Places |-> TRUE]

-----------------------------------------------------------------------------
(* login: not locked, the row is read, the password is checked (scrypt      *)
(* takes its time, and nothing keeps others from trying the same id), then  *)
(* the counter and the token.  Sign-ins take the first free number.         *)
SignIn(p, k, password) ==
    /\ trying[p][k].op = "idle" /\ p \notin locked
    /\ \A j \in Tries : j < k => j \in Busy(p)
    /\ trying' = [trying EXCEPT ![p][k] = [op |-> password, row |-> staff[p]]]
    /\ UNCHANGED <<staffVars, fails, locked, admin, place>>

(* Mutant: the count goes on after a lock has run out.                      *)
FailedAgain(p) == LET n == fails[p] + 1 IN
    /\ fails' = [fails EXCEPT ![p] = n]
    /\ locked' = IF n >= MaxFailedAttempts THEN locked \cup {p} ELSE locked
    /\ UNCHANGED sessions

(* A lock that ran out starts the count anew.                               *)
LockExpired(p) == fails[p] >= MaxFailedAttempts /\ p \notin locked
Failed(p) == LET n == IF LockExpired(p) THEN 1 ELSE fails[p] + 1 IN
    /\ fails' = [fails EXCEPT ![p] = n]
    /\ locked' = IF n >= MaxFailedAttempts THEN locked \cup {p} ELSE locked
    /\ UNCHANGED sessions

FinishSignIn(p, k) ==
    /\ trying[p][k].op # "idle"
    /\ LET row == trying[p][k].row IN
       IF trying[p][k].op = "right" /\ row.active /\ row.password
       THEN /\ sessions' = sessions \cup {Session(p, row)}
            /\ fails' = [fails EXCEPT ![p] = 0] /\ locked' = locked \ {p}
       ELSE Failed(p)
    /\ trying' = [trying EXCEPT ![p][k] = Waiting]
    /\ UNCHANGED <<staff, ended, mixed, outdated, admin, place>>

LockEnds(p) ==
    /\ p \in locked /\ locked' = locked \ {p}
    /\ UNCHANGED <<staffVars, fails, trying, admin, place>>

(* me: a fresh token, for the version the row has now.                      *)
Accepted(s) == staff[s.who].active /\ staff[s.who].version = s.version
Me(s) ==
    /\ s \in sessions /\ Accepted(s)
    /\ sessions' = sessions \cup {Session(s.who, staff[s.who])}
    /\ UNCHANGED <<staff, ended, mixed, outdated, loginVars, admin, place>>

(* The guard of a route: a token that must not change its password first.   *)
Guard(s, roles) == s \in sessions /\ ~ s.must /\ s.role \in roles
MayManage(s, role) == s.role = "OWNER" \/ (s.role = "MANAGER" /\ role \in Manageable)
Starts(a, r) == admin[a].op = "idle" /\ admin' = [admin EXCEPT ![a] = r]
Done(a) == admin' = [admin EXCEPT ![a] = Waiting]
Writes(a, p) ==
    /\ mixed' = IF staff[p] = admin[a].seen THEN mixed ELSE mixed \cup {p}
    /\ outdated' = (outdated \/ ~ Accepted(admin[a].by))
SessionsOf(p) == {s \in sessions : s.who = p}

(* update sends the role or the activity; it is checked against the row     *)
(* that was read, as is whether it ends the person's sessions.              *)
Changes == [field : {"role"}, role : Roles] \cup [field : {"active"}, active : BOOLEAN]
NewRole(change, row) == IF change.field = "role" THEN change.role ELSE row.role
Deactivates(change) == change.field = "active" /\ ~ change.active
Ends(change, row) == NewRole(change, row) # row.role \/ Deactivates(change)

(* Mutant: nothing keeps an owner from deactivating or demoting himself.    *)
AskUpdateOfAnyone(s, p, change) ==
    LET row == staff[p] IN
    /\ Guard(s, {"OWNER", "MANAGER"}) /\ row # Nobody
    /\ MayManage(s, row.role) /\ MayManage(s, NewRole(change, row))
    /\ Starts(s.who, [op |-> change.field, by |-> s, who |-> p, to |-> change, seen |-> row,
                      ends |-> Ends(change, row)])
    /\ UNCHANGED <<staffVars, loginVars, place>>

AskUpdate(s, p, change) ==
    LET row == staff[p] IN
    /\ Guard(s, {"OWNER", "MANAGER"}) /\ row # Nobody
    /\ MayManage(s, row.role) /\ MayManage(s, NewRole(change, row))
    /\ p = s.who => ~ Ends(change, row)
    /\ Starts(s.who, [op |-> change.field, by |-> s, who |-> p, to |-> change, seen |-> row,
                      ends |-> Ends(change, row)])
    /\ UNCHANGED <<staffVars, loginVars, place>>

(* Mutant: deactivating ends no session, the row is inactive anyway.        *)
WriteKeepingVersion(a) ==
    LET r == admin[a] IN
    /\ r.op \in {"role", "active"} /\ Writes(a, r.who)
    /\ staff' = [staff EXCEPT ![r.who] =
          IF r.to.field = "role"
          THEN [@ EXCEPT !.role = r.to.role, !.version = IF r.ends THEN @ + 1 ELSE @]
          ELSE [@ EXCEPT !.active = r.to.active]]
    /\ ended' = IF Ends(r.to, staff[r.who]) THEN ended \cup SessionsOf(r.who) ELSE ended
    /\ Done(a)
    /\ UNCHANGED <<sessions, loginVars, place>>

WriteUpdate(a) ==
    LET r == admin[a]
        row == [staff[r.who] EXCEPT !.role = IF r.to.field = "role" THEN r.to.role ELSE @,
                                    !.active = IF r.to.field = "active" THEN r.to.active ELSE @,
                                    !.version = IF r.ends THEN @ + 1 ELSE @]
    IN  /\ r.op \in {"role", "active"} /\ Writes(a, r.who)
        /\ staff' = [staff EXCEPT ![r.who] = row]
        /\ ended' = IF Ends(r.to, staff[r.who]) THEN ended \cup SessionsOf(r.who) ELSE ended
        /\ Done(a)
        /\ UNCHANGED <<sessions, loginVars, place>>

(* resetPassword and changePassword both end every open session.            *)
AskReset(s, p) ==
    /\ Guard(s, {"OWNER", "MANAGER"}) /\ staff[p] # Nobody
    /\ MayManage(s, staff[p].role) /\ p # s.who
    /\ Starts(s.who, [op |-> "reset", by |-> s, who |-> p, seen |-> staff[p]])
    /\ UNCHANGED <<staffVars, loginVars, place>>

AskChange(s) ==
    /\ s \in sessions /\ staff[s.who].password
    /\ Starts(s.who, [op |-> "change", by |-> s, who |-> s.who, seen |-> staff[s.who]])
    /\ UNCHANGED <<staffVars, loginVars, place>>

WritePassword(a) ==
    LET r == admin[a]
        row == [staff[r.who] EXCEPT !.password = TRUE, !.must = r.op = "reset", !.version = @ + 1]
    IN  /\ r.op \in {"reset", "change"} /\ Writes(a, r.who)
        /\ staff' = [staff EXCEPT ![r.who] = row]
        /\ ended' = ended \cup SessionsOf(r.who)
        /\ sessions' = IF r.op = "change" THEN sessions \cup {Session(a, row)} ELSE sessions
        /\ Done(a)
        /\ UNCHANGED <<loginVars, place>>

(* create: the id is free; the insert fails when it was taken meanwhile.    *)
AskCreate(s, p, role) ==
    /\ Guard(s, {"OWNER", "MANAGER"}) /\ MayManage(s, role) /\ staff[p] = Nobody
    /\ Starts(s.who, [op |-> "create", by |-> s, who |-> p, role |-> role])
    /\ UNCHANGED <<staffVars, loginVars, place>>

InsertStaff(a) ==
    LET r == admin[a] IN
    /\ r.op = "create"
    /\ IF staff[r.who] = Nobody
       THEN /\ staff' = [staff EXCEPT ![r.who] = [active |-> TRUE, role |-> r.role,
                            version |-> 0, must |-> TRUE, password |-> TRUE]]
            /\ outdated' = (outdated \/ ~ Accepted(r.by))
       ELSE UNCHANGED <<staff, outdated>>
    /\ Done(a)
    /\ UNCHANGED <<sessions, ended, mixed, loginVars, place>>

-----------------------------------------------------------------------------
(* A location that is read as active is taken out of use when what it would *)
(* strand was asked for and none of it blocks; a service that does not      *)
(* answer blocks as well.  For one that is read as inactive nothing is      *)
(* asked, and the write follows all the same.                               *)
AskClosePlace(s, l) ==
    /\ Guard(s, {"OWNER", "MANAGER"})
    /\ Starts(s.who, [op |-> "close", by |-> s, who |-> l, asks |-> place[l],
                      heard |-> IF place[l] THEN {} ELSE {"stock", "days"}, blocked |-> FALSE])
    /\ UNCHANGED <<staffVars, loginVars, place>>

(* Mutant: a check that could not be made does not block.                   *)
HearOnlyAnswers(a, what, answered, blocks) ==
    /\ admin[a].op = "close" /\ what \notin admin[a].heard
    /\ admin' = [admin EXCEPT ![a].heard = @ \cup {what},
                              ![a].blocked = @ \/ (answered /\ blocks)]
    /\ UNCHANGED <<staffVars, loginVars, place>>

Hear(a, what, answered, blocks) ==
    /\ admin[a].op = "close" /\ what \notin admin[a].heard
    /\ admin' = [admin EXCEPT ![a].heard = @ \cup {what},
                              ![a].blocked = @ \/ ~ answered \/ blocks]
    /\ UNCHANGED <<staffVars, loginVars, place>>

WriteClosedPlace(a) ==
    LET r == admin[a] IN
    /\ r.op = "close" /\ r.heard = {"stock", "days"}
    /\ place' = IF r.blocked THEN place ELSE [place EXCEPT ![r.who] = FALSE]
    /\ Done(a)
    /\ UNCHANGED <<staffVars, loginVars>>

ReopenPlace(s, l) ==
    /\ Guard(s, {"OWNER", "MANAGER"}) /\ ~ place[l]
    /\ place' = [place EXCEPT ![l] = TRUE]
    /\ UNCHANGED <<staffVars, loginVars, admin>>

(* A restart forgets the wrong passwords and the requests; if no owner can  *)
(* sign in, the configured one is created or promoted.                      *)
OwnerCanSignIn == \E p \in People : staff[p].active /\ staff[p].role = "OWNER" /\ staff[p].password
DirectoryRestarts(boss) ==
    /\ fails' = [p \in People |-> 0] /\ locked' = {}
    /\ trying' = NobodyTries /\ admin' = [p \in People |-> Waiting]
    /\ IF OwnerCanSignIn THEN UNCHANGED <<staff, ended>>
       ELSE /\ staff' = [staff EXCEPT ![boss] = [active |-> TRUE, role |-> "OWNER",
                 version |-> IF @ = Nobody THEN 0 ELSE @.version + 1,
                 must |-> TRUE, password |-> TRUE]]
            /\ ended' = ended \cup SessionsOf(boss)
    /\ UNCHANGED <<sessions, mixed, outdated, place>>

DirectoryStep ==
    \/ \E p \in People, k \in Tries : \/ SignIn(p, k, "right") \/ SignIn(p, k, "wrong")
                                     \/ FinishSignIn(p, k)
    \/ \E p \in People : LockEnds(p)
    \/ \E s \in sessions :
          \/ Me(s) \/ AskChange(s)
          \/ \E p \in People : \/ AskReset(s, p) \/ \E c \in Changes : AskUpdate(s, p, c)
                               \/ \E role \in Roles : AskCreate(s, p, role)
          \/ \E l \in Places : AskClosePlace(s, l) \/ ReopenPlace(s, l)
    \/ \E a \in People : WriteUpdate(a) \/ WritePassword(a) \/ InsertStaff(a) \/ WriteClosedPlace(a)

-----------------------------------------------------------------------------
(* A session ended by a deactivation, a password reset or change, or a new  *)
(* role is never accepted again by /auth/me, not even once the person is    *)
(* reactivated; and a session that is accepted carries the role and the     *)
(* password duty its person has now: for everybody whose row was not        *)
(* written over while somebody else changed it.                             *)
SessionsTellTheTruth ==
    \A s \in sessions : s.who \notin mixed =>
        /\ s \in ended => ~ Accepted(s)
        /\ Accepted(s) => s.role = staff[s.who].role /\ s.must = staff[s.who].must
        /\ s.version <= staff[s.who].version

(* The company does not lock itself out: someone remains who is an active   *)
(* owner, as long as no request of a session that had been ended, and no    *)
(* two crossing requests, changed the staff.                                *)
OwnerRemains == mixed = {} /\ ~ outdated =>
    \E p \in People : staff[p].active /\ staff[p].role = "OWNER"
=============================================================================
