---------------------------- MODULE StoresProofs ----------------------------
(* Proofs about Stores: who may sign in, that the company keeps an owner,   *)
(* that a store taken out of use is settled, and that its days are counted  *)
(* and closed right, for any people, places, sales, returns and scenarios.  *)
EXTENDS Stores, Sums, TLAPS

(* The records the variables hold.                                          *)
Tokens == [who : People, role : Roles \cup {"none"}, version : 0..MaxVersion, must : BOOLEAN]
Attempts == [op : {"idle"}] \cup [op : {"right", "wrong"}, row : Rows]
Updates == [op : {"role", "active"}, by : Tokens, who : People, to : Changes, seen : Rows,
            ends : BOOLEAN]
Passwords == [op : {"reset", "change"}, by : Tokens, who : People, seen : Rows]
Creations == [op : {"create"}, by : Tokens, who : People, role : Roles]
Closings == [op : {"close"}, by : Tokens, who : Places, heard : SUBSET {"stock", "days"},
             asks : BOOLEAN, blocked : BOOLEAN]
Requests == [op : {"idle"}] \cup Updates \cup Passwords \cup Creations \cup Closings

Shapes ==
    /\ sessions \subseteq Tokens
    /\ trying \in [People -> [Tries -> Attempts]]
    /\ admin \in [People -> Requests]
    /\ \A p \in People : staff[p] = Nobody \/ staff[p].password

(* What a version says of a row: a copy that is not younger, and one of the *)
(* same version has the same role and password duty.                        *)
Covers(row, copy) ==
    /\ copy.version <= row.version
    /\ copy.version = row.version => copy.role = row.role /\ copy.must = row.must

SessionInv == \A s \in sessions :
    /\ staff[s.who].password
    /\ s.who \notin mixed => /\ Covers(staff[s.who], s)
                             /\ s \in ended => s.version < staff[s.who].version

TryingInv == \A p \in People, k \in Tries :
    trying[p][k].op # "idle" /\ trying[p][k].row.active /\ trying[p][k].row.password =>
        /\ staff[p].password
        /\ p \notin mixed => Covers(staff[p], trying[p][k].row)

(* Behind a lock the count grows by at most the sign-ins that passed it.    *)
ThrottleInv ==
    /\ fails \in [People -> 0..MostFails] /\ locked \in SUBSET People
    /\ \A p \in locked : fails[p] + Cardinality(Busy(p)) <= MostFails

(* What a request remembers.                                                *)
UpdateInv(r) == r.op \in {"role", "active"} =>
    /\ r.by \in sessions /\ staff[r.who].password
    /\ r.op = r.to.field /\ r.ends = Ends(r.to, r.seen)
    /\ MayManage(r.by, r.seen.role)
    /\ r.who = r.by.who => ~ r.ends
AdminInv == \A a \in People :
    /\ UpdateInv(admin[a])
    /\ admin[a].op \in {"reset", "change"} => staff[admin[a].who].password
    /\ admin[a].op = "change" => admin[a].who = a

(* A request that takes a store out of use heard the truth, or it is late.  *)
HeardInv == late \/ \A a \in People :
    admin[a].op = "close" /\ admin[a].asks /\ admin[a].who = Store /\ ~ admin[a].blocked =>
        /\ "stock" \in admin[a].heard => ~ onShelf
        /\ "days" \in admin[a].heard => OpenDays = {}

DirectoryInv ==
    /\ DirectoryTypeOK /\ Shapes
    /\ SessionInv /\ TryingInv /\ ThrottleInv /\ AdminInv /\ OwnerRemains
PlaceInv == /\ onShelf \in BOOLEAN /\ late \in BOOLEAN /\ unasked \in BOOLEAN
            /\ HeardInv /\ SettledBeforeClosed
IInv == DirectoryInv /\ PlaceInv /\ plan \in Plans

-----------------------------------------------------------------------------
(* The bounds of a scenario keep versions in range.                         *)
LEMMA VersionsBounded ==
    ASSUME plan \in Plans, Within
    PROVE  \A p \in People : staff'[p].version \in Nat => staff'[p].version \in 0..MaxVersion
<1>1. plan.versions \in 0..MaxVersion
  BY StoresAssumption
<1>2. \A p \in People : staff'[p].version <= plan.versions
  BY DEF Within
<1> QED
  BY <1>1, <1>2, DirectoryAssumption

(* The throttle: how many sign-ins are under way, and what one more means.  *)
LEMMA TriesFacts ==
    /\ Cardinality(Tries) \in Nat \ {0} /\ MaxFailedAttempts \in Nat \ {0}
    /\ MostFails \in Nat /\ MostFails >= MaxFailedAttempts
<1>1. IsFiniteSet(Tries) /\ Tries # {} /\ MaxFailedAttempts \in Nat \ {0}
  BY DirectoryAssumption
<1>2. Cardinality(Tries) \in Nat /\ Cardinality(Tries) # 0
  BY <1>1, FS_CardinalityType, FS_EmptySet
<1> QED
  BY <1>1, <1>2 DEF MostFails

LEMMA BusyFacts ==
    ASSUME NEW p \in People
    PROVE  /\ IsFiniteSet(Busy(p)) /\ Cardinality(Busy(p)) \in Nat
           /\ Cardinality(Busy(p)) <= Cardinality(Tries)
<1>1. IsFiniteSet(Tries) /\ Busy(p) \subseteq Tries
  BY DirectoryAssumption DEF Busy
<1> QED
  BY <1>1, FS_Subset, FS_CardinalityType

LEMMA ThrottleStarts ==
    ASSUME fails = [p \in People |-> 0], locked = {}
    PROVE  ThrottleInv
BY TriesFacts DEF ThrottleInv

LEMMA ThrottleRests == ThrottleInv /\ UNCHANGED loginVars => ThrottleInv'
BY DEF ThrottleInv, Busy, loginVars

LEMMA InitDirectory == Init => DirectoryInv
<1> SUFFICES ASSUME Init PROVE DirectoryInv
  OBVIOUS
<1> USE DirectoryAssumption DEF Init, DirectoryInit, Waiting, Nobody, NobodyTries
<1>1. staff \in [People -> Rows]
  BY DEF Rows
<1>2. DirectoryTypeOK
  <2>1. fails \in [People -> 0..MostFails] /\ locked \in SUBSET People
    BY TriesFacts
  <2>2. \A p \in People : admin[p].op = "idle" /\ \A k \in Tries : trying[p][k].op = "idle"
    OBVIOUS
  <2>3. place \in [Places -> BOOLEAN]
    OBVIOUS
  <2>4. sessions = {} /\ ended = {} /\ mixed = {} /\ outdated = FALSE
    OBVIOUS
  <2> QED
    BY <1>1, <2>1, <2>2, <2>3, <2>4 DEF DirectoryTypeOK
<1>3. Shapes
  BY DEF Shapes, Attempts, Requests
<1>4. SessionInv /\ TryingInv /\ AdminInv
  BY DEF SessionInv, TryingInv, AdminInv, UpdateInv
<1>5. OwnerRemains
  BY DEF OwnerRemains
<1>6. ThrottleInv
  BY ThrottleStarts
<1> QED
  BY <1>2, <1>3, <1>4, <1>5, <1>6 DEF DirectoryInv

(* A step that writes no row: new sessions, readings and requests agree     *)
(* with the rows as they are.                                               *)
ReadStep ==
    /\ UNCHANGED <<staff, ended, mixed>> /\ outdated' \in BOOLEAN /\ (outdated => outdated')
    /\ sessions \subseteq sessions' /\ ThrottleInv'
    /\ place' \in [Places -> BOOLEAN]
ReadsRight ==
    /\ trying' \in [People -> [Tries -> Attempts]]
    /\ \A p \in People, k \in Tries :
          trying'[p][k] = trying[p][k] \/ trying'[p][k].op = "idle" \/ trying'[p][k].row = staff[p]
    /\ \A s \in sessions' \ sessions :
          /\ s \in Tokens /\ staff[s.who].password
          /\ s.who \notin mixed => Covers(staff[s.who], s)
AsksRight ==
    /\ admin' \in [People -> Requests]
    /\ \A a \in People : \/ admin'[a] = admin[a]
                         \/ /\ UpdateInv(admin'[a])
                            /\ admin'[a].op \in {"reset", "change"} => staff[admin'[a].who].password
                            /\ admin'[a].op = "change" => admin'[a].who = a

LEMMA Reading ==
    ASSUME DirectoryInv, ReadStep, ReadsRight, AsksRight
    PROVE  DirectoryInv'
<1> USE DEF DirectoryInv, ReadStep, ReadsRight, AsksRight
<1>1. Shapes'
  BY DEF Shapes
<1>2. DirectoryTypeOK'
  <2>1. \A s \in sessions' : s.who \in People /\ s.version \in 0..MaxVersion
    BY <1>1 DEF Shapes, Tokens
  <2>2. \A p \in People, k \in Tries : trying'[p][k].op \in {"idle", "right", "wrong"}
    BY <1>1 DEF Shapes, Attempts
  <2>3. \A a \in People : admin'[a].op \in {"idle", "role", "active", "reset", "create", "change", "close"}
    BY <1>1 DEF Shapes, Requests, Updates, Passwords, Creations, Closings
  <2> QED
    BY <2>1, <2>2, <2>3 DEF DirectoryTypeOK, ThrottleInv
<1>3. SessionInv'
  <2> SUFFICES ASSUME NEW s \in sessions'
               PROVE  /\ staff[s.who].password
                      /\ s.who \notin mixed => /\ Covers(staff[s.who], s)
                                               /\ s \in ended => s.version < staff[s.who].version
    BY DEF SessionInv, Covers
  <2>1. CASE s \in sessions
    BY <2>1 DEF SessionInv
  <2>2. CASE s \notin sessions
    BY <2>2 DEF DirectoryTypeOK
  <2> QED
    BY <2>1, <2>2
<1>4. TryingInv'
  <2> SUFFICES ASSUME NEW p \in People, NEW k \in Tries, trying'[p][k].op # "idle",
                      trying'[p][k].row.active, trying'[p][k].row.password
               PROVE  staff[p].password /\ (p \notin mixed => Covers(staff[p], trying'[p][k].row))
    BY DEF TryingInv, Covers
  <2>1. CASE trying'[p][k] = trying[p][k]
    BY <2>1 DEF TryingInv
  <2>2. CASE trying'[p][k].row = staff[p]
    BY <2>2 DEF Covers, DirectoryTypeOK, Rows
  <2> QED
    BY <2>1, <2>2
<1>5. AdminInv'
  <2> SUFFICES ASSUME NEW a \in People
               PROVE  /\ UpdateInv(admin[a])'
                      /\ admin'[a].op \in {"reset", "change"} => staff[admin'[a].who].password
                      /\ admin'[a].op = "change" => admin'[a].who = a
    BY DEF AdminInv
  <2>1. CASE admin'[a] = admin[a]
    BY <2>1 DEF AdminInv, UpdateInv
  <2>2. CASE admin'[a] # admin[a]
    BY <2>2 DEF UpdateInv
  <2> QED
    BY <2>1, <2>2
<1>6. OwnerRemains'
  BY DEF OwnerRemains
<1> QED
  BY <1>1, <1>2, <1>3, <1>4, <1>5, <1>6

(* The requests and answers that write no row, one by one.                  *)
LEMMA Stays == DirectoryInv => ReadsRight \/ ~ UNCHANGED <<staff, sessions, trying>>
BY DEF DirectoryInv, ReadsRight, Shapes

LEMMA AsksNothing == DirectoryInv => AsksRight \/ ~ UNCHANGED <<staff, sessions, admin>>
BY DEF DirectoryInv, AsksRight, Shapes

LEMMA SessionIsToken ==
    ASSUME NEW p \in People, NEW row \in Rows
    PROVE  /\ Session(p, row) \in Tokens /\ Session(p, row).who = p
           /\ \A r : Covers(r, row) => Covers(r, Session(p, row))
BY DEF Session, Tokens, Rows, Covers

LEMMA SignInStep ==
    ASSUME DirectoryInv, NEW p \in People, NEW k \in Tries, NEW password \in {"right", "wrong"},
           SignIn(p, k, password)
    PROVE  DirectoryInv'
<1>1. trying' \in [People -> [Tries -> Attempts]]
  BY DEF DirectoryInv, DirectoryTypeOK, Shapes, SignIn, Attempts
<1>2. ReadsRight
  BY <1>1 DEF DirectoryInv, Shapes, ReadsRight, SignIn, staffVars
<1>3. AsksRight
  BY AsksNothing DEF SignIn, staffVars
<1>4. ThrottleInv'
  <2>1. \A q \in People : q # p => trying'[q] = trying[q]
    BY DEF SignIn, DirectoryInv, Shapes
  <2>2. p \notin locked /\ UNCHANGED <<fails, locked>>
    BY DEF SignIn
  <2> QED
    BY <2>1, <2>2 DEF ThrottleInv, DirectoryInv, Busy
<1>5. ReadStep
  BY <1>4 DEF DirectoryInv, DirectoryTypeOK, ReadStep, SignIn, staffVars
<1> QED
  BY <1>2, <1>3, <1>5, Reading

(* A sign-in that ends leaves one under way fewer.                          *)
LEMMA EndsTry ==
    ASSUME DirectoryInv, NEW p \in People, NEW k \in Tries, trying[p][k].op # "idle",
           trying' = [trying EXCEPT ![p][k] = Waiting]
    PROVE  /\ Cardinality(Busy(p)') = Cardinality(Busy(p)) - 1
           /\ \A q \in People : q # p => Busy(q)' = Busy(q)
<1>1. trying \in [People -> [Tries -> Attempts]]
  BY DEF DirectoryInv, Shapes
<1>2. /\ k \in Busy(p) /\ Busy(p)' = Busy(p) \ {k}
      /\ \A q \in People : q # p => Busy(q)' = Busy(q)
  BY <1>1 DEF Busy, Waiting
<1>3. IsFiniteSet(Busy(p))
  BY BusyFacts
<1>4. Cardinality(Busy(p) \ {k}) = Cardinality(Busy(p)) - 1
  BY <1>2, <1>3, FS_RemoveElement
<1> QED
  BY <1>2, <1>4

LEMMA FailedThrottles ==
    ASSUME DirectoryInv, NEW p \in People, NEW k \in Tries, Failed(p), trying[p][k].op # "idle",
           trying' = [trying EXCEPT ![p][k] = Waiting]
    PROVE  ThrottleInv'
<1> DEFINE n == IF LockExpired(p) THEN 1 ELSE fails[p] + 1
           busy == Cardinality(Busy(p))
           left == Cardinality(Busy(p)')
<1>1. /\ fails \in [People -> 0..MostFails] /\ locked \in SUBSET People
      /\ \A q \in locked : fails[q] + Cardinality(Busy(q)) <= MostFails
  BY DEF DirectoryInv, ThrottleInv
<1>2. fails' = [fails EXCEPT ![p] = n]
      /\ locked' = IF n >= MaxFailedAttempts THEN locked \cup {p} ELSE locked
  BY DEF Failed
<1>3. left = busy - 1 /\ \A q \in People : q # p => Busy(q)' = Busy(q)
  BY EndsTry
<1>4. busy \in Nat /\ busy <= Cardinality(Tries)
  BY BusyFacts
<1>5. /\ Cardinality(Tries) \in Nat \ {0} /\ MaxFailedAttempts \in Nat \ {0} /\ fails[p] \in 0..MostFails
      /\ MostFails = MaxFailedAttempts + Cardinality(Tries) - 1 /\ MostFails \in Nat
  BY <1>1, TriesFacts DEF MostFails
<1>6. busy >= 1
  <2>1. k \in Busy(p) /\ IsFiniteSet(Busy(p))
    BY BusyFacts DEF Busy
  <2>2. busy # 0
    BY <2>1, FS_EmptySet
  <2> QED
    BY <1>4, <2>2
<1>7. n \in Nat /\ n <= MostFails /\ (p \in locked' => n + left <= MostFails)
  <2>1. CASE LockExpired(p)
    <3>1. n = 1
      BY <2>1
    <3>2. p \in locked' => MaxFailedAttempts <= 1
      BY <1>2, <2>1, <3>1 DEF LockExpired
    <3> HIDE DEF n, busy, left
    <3> QED
      BY <1>3, <1>4, <1>5, <1>6, <3>1, <3>2
  <2>2. CASE p \in locked
    <3>1. n = fails[p] + 1 /\ fails[p] + busy <= MostFails
      BY <1>1, <2>2 DEF LockExpired
    <3> HIDE DEF n, busy, left
    <3> QED
      BY <1>3, <1>4, <1>5, <1>6, <3>1
  <2>3. CASE ~ LockExpired(p) /\ p \notin locked
    <3>1. n = fails[p] + 1 /\ ~ (fails[p] >= MaxFailedAttempts)
      BY <2>3 DEF LockExpired
    <3> HIDE DEF n, busy, left
    <3> QED
      BY <1>3, <1>4, <1>5, <1>6, <3>1
  <2> QED
    BY <2>1, <2>2, <2>3
<1> HIDE DEF n
<1>8. fails' \in [People -> 0..MostFails] /\ locked' \in SUBSET People
  BY <1>1, <1>2, <1>5, <1>7
<1>9. \A q \in locked' : fails'[q] + Cardinality(Busy(q)') <= MostFails
  <2>1. ASSUME NEW q \in locked', q # p
        PROVE  fails'[q] + Cardinality(Busy(q)') <= MostFails
    <3>1. q \in locked /\ fails'[q] = fails[q] /\ Busy(q)' = Busy(q)
      BY <1>1, <1>2, <1>3, <2>1
    <3> QED
      BY <1>1, <3>1
  <2>2. fails'[p] = n
    BY <1>1, <1>2
  <2> QED
    BY <1>7, <2>1, <2>2
<1> QED
  BY <1>8, <1>9 DEF ThrottleInv

LEMMA FinishSignInStep ==
    ASSUME DirectoryInv, NEW p \in People, NEW k \in Tries, FinishSignIn(p, k)
    PROVE  DirectoryInv'
<1> DEFINE row == trying[p][k].row
<1>1. /\ trying[p][k].op # "idle" /\ trying' = [trying EXCEPT ![p][k] = Waiting]
      /\ UNCHANGED <<staff, ended, mixed, outdated, admin, place>>
  BY DEF FinishSignIn
<1>2. trying[p][k] \in [op : {"right", "wrong"}, row : Rows] /\ row \in Rows
  BY <1>1 DEF DirectoryInv, Shapes, Attempts
<1>3. trying' \in [People -> [Tries -> Attempts]]
      /\ \A q \in People, j \in Tries : trying'[q][j] = trying[q][j] \/ trying'[q][j].op = "idle"
  BY <1>1 DEF DirectoryInv, Shapes, Attempts, Waiting
<1>4. CASE trying[p][k].op = "right" /\ row.active /\ row.password
  <2>1. /\ sessions' = sessions \cup {Session(p, row)}
        /\ fails' = [fails EXCEPT ![p] = 0] /\ locked' = locked \ {p}
    BY <1>4 DEF FinishSignIn
  <2>2. staff[p].password /\ (p \notin mixed => Covers(staff[p], row))
    BY <1>1, <1>4 DEF DirectoryInv, TryingInv
  <2>3. ReadsRight
    BY <1>2, <1>3, <2>1, <2>2, SessionIsToken DEF ReadsRight
  <2>4. ThrottleInv'
    <3>1. \A q \in People : q # p => Busy(q)' = Busy(q)
      BY <1>1, EndsTry
    <3> QED
      BY <2>1, <3>1, TriesFacts DEF ThrottleInv, DirectoryInv
  <2>5. ReadStep
    BY <1>1, <2>1, <2>4 DEF ReadStep, DirectoryInv, DirectoryTypeOK
  <2>6. AsksRight
    BY <1>1 DEF DirectoryInv, Shapes, AsksRight
  <2> QED
    BY <2>3, <2>5, <2>6, Reading
<1>5. CASE ~ (trying[p][k].op = "right" /\ row.active /\ row.password)
  <2>1. Failed(p)
    BY <1>5 DEF FinishSignIn
  <2>2. sessions' = sessions
    BY <2>1 DEF Failed
  <2>3. ReadsRight /\ AsksRight
    BY <1>1, <1>3, <2>2 DEF DirectoryInv, Shapes, ReadsRight, AsksRight
  <2>4. ThrottleInv'
    BY <1>1, <2>1, FailedThrottles
  <2>5. ReadStep
    BY <1>1, <2>2, <2>4 DEF ReadStep, DirectoryInv, DirectoryTypeOK
  <2> QED
    BY <2>3, <2>5, Reading
<1> QED
  BY <1>4, <1>5

LEMMA MeStep ==
    ASSUME DirectoryInv, NEW s \in sessions, Me(s)
    PROVE  DirectoryInv'
<1> DEFINE t == Session(s.who, staff[s.who])
<1>1. s \in Tokens /\ s.who \in People /\ staff[s.who] \in Rows /\ staff[s.who].password
  BY DEF DirectoryInv, DirectoryTypeOK, Shapes, Tokens, SessionInv
<1>2. /\ sessions' = sessions \cup {t}
      /\ UNCHANGED <<staff, ended, mixed, outdated, loginVars, admin, place>>
  BY DEF Me
<1>3. t \in Tokens /\ t.who = s.who /\ Covers(staff[s.who], t)
  BY <1>1, SessionIsToken DEF Covers, Rows
<1>4. ReadsRight
  BY <1>1, <1>2, <1>3 DEF DirectoryInv, Shapes, ReadsRight, loginVars
<1>5. ReadStep
  BY <1>2, ThrottleRests DEF ReadStep, DirectoryInv, DirectoryTypeOK
<1>6. AsksRight
  BY <1>2 DEF DirectoryInv, Shapes, AsksRight
<1> QED
  BY <1>4, <1>5, <1>6, Reading

(* A new request changes nothing but the note of whoever makes it.          *)
LEMMA AskStep ==
    ASSUME DirectoryInv, NEW a \in People, NEW r \in Requests,
           admin' = [admin EXCEPT ![a] = r],
           UNCHANGED <<staffVars, loginVars, place>>,
           UpdateInv(r), r.op \in {"reset", "change"} => staff[r.who].password,
           r.op = "change" => r.who = a
    PROVE  DirectoryInv'
<1>1. ReadStep
  BY ThrottleRests DEF ReadStep, DirectoryInv, DirectoryTypeOK, staffVars
<1>2. ReadsRight
  BY Stays DEF staffVars, loginVars
<1>3. AsksRight
  BY DEF AsksRight, DirectoryInv, Shapes
<1> QED
  BY <1>1, <1>2, <1>3, Reading

LEMMA LockEndsStep ==
    ASSUME DirectoryInv, NEW p \in People, LockEnds(p)
    PROVE  DirectoryInv'
<1>0. ThrottleInv'
  BY DEF LockEnds, DirectoryInv, ThrottleInv, Busy
<1>1. ReadStep
  BY <1>0 DEF LockEnds, ReadStep, DirectoryInv, DirectoryTypeOK, staffVars
<1>2. ReadsRight /\ AsksRight
  BY Stays, AsksNothing DEF LockEnds, staffVars
<1> QED
  BY <1>1, <1>2, Reading

LEMMA TokenOf == ASSUME DirectoryInv, NEW s \in sessions
                 PROVE  s \in Tokens /\ s.who \in People /\ staff[s.who] \in Rows /\ staff[s.who].password
BY DEF DirectoryInv, DirectoryTypeOK, Shapes, Tokens, SessionInv

LEMMA AskUpdateStep ==
    ASSUME DirectoryInv, NEW s \in sessions, NEW p \in People, NEW c \in Changes, AskUpdate(s, p, c)
    PROVE  DirectoryInv'
<1> DEFINE r == [op |-> c.field, by |-> s, who |-> p, to |-> c, seen |-> staff[p],
                 ends |-> Ends(c, staff[p])]
<1>1. admin' = [admin EXCEPT ![s.who] = r] /\ UNCHANGED <<staffVars, loginVars, place>>
  BY DEF AskUpdate, Starts
<1>2. staff[p] \in Rows /\ staff[p].password
  BY DEF AskUpdate, DirectoryInv, DirectoryTypeOK, Shapes
<1>3. c.field \in {"role", "active"} /\ Ends(c, staff[p]) \in BOOLEAN
  BY DEF Changes, Ends, Deactivates
<1>4. r \in Updates
  BY <1>2, <1>3, TokenOf DEF Updates
<1>5. MayManage(s, staff[p].role) /\ (p = s.who => ~ Ends(c, staff[p]))
  BY DEF AskUpdate
<1>6. UpdateInv(r)
  BY <1>2, <1>5 DEF UpdateInv
<1>7. r.op \notin {"reset", "change"} /\ r \in Requests
  BY <1>3, <1>4 DEF Requests
<1> HIDE DEF r
<1> QED
  BY <1>1, <1>6, <1>7, TokenOf, AskStep

LEMMA AskResetStep ==
    ASSUME DirectoryInv, NEW s \in sessions, NEW p \in People, AskReset(s, p)
    PROVE  DirectoryInv'
<1> DEFINE r == [op |-> "reset", by |-> s, who |-> p, seen |-> staff[p]]
<1>1. admin' = [admin EXCEPT ![s.who] = r] /\ UNCHANGED <<staffVars, loginVars, place>>
  BY DEF AskReset, Starts
<1>2. staff[p] \in Rows /\ staff[p].password
  BY DEF AskReset, DirectoryInv, DirectoryTypeOK, Shapes
<1>3. r \in Requests
  BY <1>2, TokenOf DEF Requests, Passwords
<1>4. UpdateInv(r) /\ staff[r.who].password /\ r.op # "change"
  BY <1>2 DEF UpdateInv
<1> HIDE DEF r
<1> QED
  BY <1>1, <1>3, <1>4, TokenOf, AskStep

LEMMA AskChangeStep ==
    ASSUME DirectoryInv, NEW s \in sessions, AskChange(s)
    PROVE  DirectoryInv'
<1> DEFINE r == [op |-> "change", by |-> s, who |-> s.who, seen |-> staff[s.who]]
<1>1. admin' = [admin EXCEPT ![s.who] = r] /\ UNCHANGED <<staffVars, loginVars, place>>
  BY DEF AskChange, Starts
<1>2. r \in Requests
  BY TokenOf DEF Requests, Passwords
<1>3. UpdateInv(r) /\ staff[r.who].password /\ r.who = s.who
  BY TokenOf DEF UpdateInv
<1> HIDE DEF r
<1> QED
  BY <1>1, <1>2, <1>3, TokenOf, AskStep

LEMMA AskCreateStep ==
    ASSUME DirectoryInv, NEW s \in sessions, NEW p \in People, NEW role \in Roles,
           AskCreate(s, p, role)
    PROVE  DirectoryInv'
<1> DEFINE r == [op |-> "create", by |-> s, who |-> p, role |-> role]
<1>1. admin' = [admin EXCEPT ![s.who] = r] /\ UNCHANGED <<staffVars, loginVars, place>>
  BY DEF AskCreate, Starts
<1>2. r \in Requests
  BY TokenOf DEF Requests, Creations
<1>3. UpdateInv(r) /\ r.op \notin {"reset", "change"}
  BY DEF UpdateInv
<1> HIDE DEF r
<1> QED
  BY <1>1, <1>2, <1>3, TokenOf, AskStep

LEMMA AskCloseStep ==
    ASSUME DirectoryInv, NEW s \in sessions, NEW l \in Places, AskClosePlace(s, l)
    PROVE  DirectoryInv'
<1> DEFINE r == [op |-> "close", by |-> s, who |-> l, asks |-> place[l],
                 heard |-> IF place[l] THEN {} ELSE {"stock", "days"}, blocked |-> FALSE]
<1>1. admin' = [admin EXCEPT ![s.who] = r] /\ UNCHANGED <<staffVars, loginVars, place>>
  BY DEF AskClosePlace, Starts
<1>2. r \in Requests
  BY TokenOf DEF Requests, Closings, DirectoryInv, DirectoryTypeOK
<1>3. UpdateInv(r) /\ r.op \notin {"reset", "change"}
  BY DEF UpdateInv
<1> HIDE DEF r
<1> QED
  BY <1>1, <1>2, <1>3, TokenOf, AskStep

LEMMA HearStep ==
    ASSUME DirectoryInv, NEW a \in People, NEW what \in {"stock", "days"},
           NEW answered \in BOOLEAN, NEW blocks \in BOOLEAN, Hear(a, what, answered, blocks)
    PROVE  DirectoryInv'
<1> DEFINE r == [admin[a] EXCEPT !.heard = @ \cup {what}, !.blocked = @ \/ ~ answered \/ blocks]
<1>1. /\ admin' = [admin EXCEPT ![a] = r] /\ admin[a].op = "close"
      /\ UNCHANGED <<staffVars, loginVars, place>>
  BY DEF Hear, DirectoryInv, Shapes
<1>2. admin[a] \in Closings
  BY <1>1 DEF DirectoryInv, Shapes, Requests, Updates, Passwords, Creations
<1>3. r \in Closings /\ r.op = "close"
  BY <1>2 DEF Closings
<1>4. UpdateInv(r) /\ r \in Requests
  BY <1>3 DEF UpdateInv, Requests
<1> HIDE DEF r
<1> QED
  BY <1>1, <1>3, <1>4, AskStep

LEMMA WriteClosedStep ==
    ASSUME DirectoryInv, NEW a \in People, WriteClosedPlace(a)
    PROVE  DirectoryInv'
<1>1. place' \in [Places -> BOOLEAN]
  BY DEF WriteClosedPlace, DirectoryInv, DirectoryTypeOK
<1>2. ReadStep
  BY <1>1, ThrottleRests DEF WriteClosedPlace, ReadStep, DirectoryInv, DirectoryTypeOK, staffVars
<1>3. ReadsRight
  BY Stays DEF WriteClosedPlace, staffVars, loginVars
<1>4. AsksRight
  BY DEF WriteClosedPlace, Done, AsksRight, DirectoryInv, Shapes, Requests, UpdateInv, Waiting
<1> QED
  BY <1>2, <1>3, <1>4, Reading

LEMMA ReopenStep ==
    ASSUME DirectoryInv, NEW s \in sessions, NEW l \in Places, ReopenPlace(s, l)
    PROVE  DirectoryInv'
<1>1. place' \in [Places -> BOOLEAN]
  BY DEF ReopenPlace, DirectoryInv, DirectoryTypeOK
<1>2. ReadStep
  BY <1>1, ThrottleRests DEF ReopenPlace, ReadStep, DirectoryInv, DirectoryTypeOK, staffVars
<1>3. ReadsRight /\ AsksRight
  BY Stays, AsksNothing DEF ReopenPlace, staffVars, loginVars
<1> QED
  BY <1>2, <1>3, Reading

-----------------------------------------------------------------------------
(* A step that writes the row of one person: where no one else had written  *)
(* it meanwhile, either the version grows, or nothing a session carries     *)
(* changes.                                                                 *)
Grows(old, row) == row.version > old.version
Keeps(old, row) == row.version = old.version /\ row.role = old.role /\ row.must = old.must
WriteStep(w, row) ==
    /\ staff' = [staff EXCEPT ![w] = row]
    /\ mixed \subseteq mixed' /\ mixed' \subseteq People /\ outdated' \in BOOLEAN
    /\ \/ ended' = ended /\ (w \notin mixed' => staff[w] = Nobody \/ Grows(staff[w], row) \/ Keeps(staff[w], row))
       \/ ended' = ended \cup SessionsOf(w) /\ (w \notin mixed' => staff[w] = Nobody \/ Grows(staff[w], row))
    /\ sessions' = sessions \/ sessions' = sessions \cup {Session(w, row)}
    /\ ThrottleInv' /\ (trying' = trying \/ trying' = NobodyTries)
    /\ \/ \E a \in People : admin' = [admin EXCEPT ![a] = Waiting]
       \/ admin' = [p \in People |-> Waiting]
    /\ place' = place

LEMMA Writing ==
    ASSUME DirectoryInv, NEW w \in People, NEW row \in Rows, row.password, WriteStep(w, row),
           OwnerRemains'
    PROVE  DirectoryInv'
<1> USE DEF DirectoryInv, WriteStep
<1> DEFINE t == Session(w, row)
<1>1. t \in Tokens /\ t.who = w /\ Covers(row, t)
  BY SessionIsToken DEF Covers, Rows
<1> HIDE DEF t
<1>2. sessions' \subseteq Tokens /\ \A s \in sessions' : s \in sessions \/ s = t
  BY <1>1 DEF Shapes, t
<1>3. trying' \in [People -> [Tries -> Attempts]]
      /\ \A p \in People, k \in Tries : trying'[p][k] = trying[p][k] \/ trying'[p][k].op = "idle"
  BY DEF Shapes, Attempts, Waiting, NobodyTries
<1>4. admin' \in [People -> Requests] /\ \A p \in People : admin'[p] = admin[p] \/ admin'[p].op = "idle"
  BY DEF Shapes, Requests, Waiting
<1>5. staff' \in [People -> Rows] /\ staff'[w] = row /\ \A p \in People \ {w} : staff'[p] = staff[p]
  BY DEF DirectoryTypeOK
<1>6. Shapes'
  BY <1>2, <1>3, <1>4, <1>5 DEF Shapes
<1>7. DirectoryTypeOK'
  <2>1. \A s \in sessions' : s.who \in People /\ s.version \in 0..MaxVersion
    BY <1>2 DEF Tokens
  <2>2. \A p \in People, k \in Tries : trying'[p][k].op \in {"idle", "right", "wrong"}
    BY <1>3 DEF Attempts
  <2>3. \A a \in People : admin'[a].op \in {"idle", "role", "active", "reset", "create", "change", "close"}
    BY <1>4 DEF Requests, Updates, Passwords, Creations, Closings
  <2>4. ended' \subseteq sessions'
    BY DEF DirectoryTypeOK, SessionsOf
  <2> QED
    BY <1>5, <2>1, <2>2, <2>3, <2>4 DEF DirectoryTypeOK, ThrottleInv
<1>8. SessionInv'
  <2> SUFFICES ASSUME NEW s \in sessions'
               PROVE  /\ staff'[s.who].password
                      /\ s.who \notin mixed' => /\ Covers(staff'[s.who], s)
                                                /\ s \in ended' => s.version < staff'[s.who].version
    BY DEF SessionInv, Covers
  <2>1. s \in Tokens /\ s.who \in People
    BY <1>2 DEF Tokens
  <2>2. CASE s \in sessions /\ s.who # w
    BY <1>5, <2>1, <2>2 DEF SessionInv, SessionsOf
  <2>3. CASE s \in sessions /\ s.who = w
    <3>1. staff[w].password /\ staff[w] # Nobody
      BY <2>3 DEF SessionInv, Nobody
    <3>2. ASSUME w \notin mixed'
          PROVE  Covers(row, s) /\ (s \in ended' => s.version < row.version)
      <4>1. Covers(staff[w], s) /\ (s \in ended => s.version < staff[w].version)
        BY <2>3, <3>2 DEF SessionInv
      <4>2. staff[w].version \in Int /\ row.version \in Int /\ s.version \in Int
        BY <2>1 DEF Tokens, Rows, DirectoryTypeOK
      <4> QED
        BY <3>1, <3>2, <4>1, <4>2 DEF Covers, Grows, Keeps, SessionsOf
    <3> QED
      BY <1>5, <2>3, <3>2
  <2>4. CASE s \notin sessions
    <3>1. s = t /\ s \notin ended
      BY <1>2, <2>4 DEF DirectoryTypeOK
    <3>2. s \notin ended'
      BY <3>1, <2>4 DEF SessionsOf
    <3> QED
      BY <1>1, <1>5, <3>1, <3>2
  <2> QED
    BY <2>2, <2>3, <2>4
<1>9. TryingInv'
  <2> SUFFICES ASSUME NEW p \in People, NEW k \in Tries, trying'[p][k].op # "idle",
                      trying'[p][k].row.active, trying'[p][k].row.password
               PROVE  staff'[p].password /\ (p \notin mixed' => Covers(staff'[p], trying'[p][k].row))
    BY DEF TryingInv, Covers
  <2>1. trying'[p][k] = trying[p][k]
    BY <1>3
  <2>2. staff[p].password /\ (p \notin mixed => Covers(staff[p], trying[p][k].row)) /\ trying[p][k].row \in Rows
    BY <2>1 DEF TryingInv, Shapes, Attempts
  <2>3. CASE p # w
    BY <1>5, <2>1, <2>2, <2>3
  <2>4. CASE p = w
    <3>1. staff[w] # Nobody
      BY <2>2, <2>4 DEF Nobody
    <3>2. staff[w].version \in Int /\ row.version \in Int /\ trying[p][k].row.version \in Int
      BY <2>2 DEF Rows, DirectoryTypeOK
    <3>3. ASSUME w \notin mixed' PROVE Covers(row, trying[w][k].row)
      BY <2>2, <2>4, <3>1, <3>2, <3>3 DEF Covers, Grows, Keeps
    <3> QED
      BY <1>5, <2>1, <2>4, <3>3
  <2> QED
    BY <2>3, <2>4
<1>10. AdminInv'
  <2> SUFFICES ASSUME NEW a \in People
               PROVE  /\ UpdateInv(admin[a])'
                      /\ admin'[a].op \in {"reset", "change"} => staff'[admin'[a].who].password
                      /\ admin'[a].op = "change" => admin'[a].who = a
    BY DEF AdminInv
  <2>1. CASE admin'[a].op = "idle"
    BY <2>1 DEF UpdateInv
  <2>2. CASE admin'[a] = admin[a] /\ admin[a].op \in {"role", "active"}
    <3>1. UpdateInv(admin[a]) /\ admin[a] \in Updates
      BY <2>2 DEF AdminInv, Shapes, Requests, Passwords, Creations, Closings
    <3>2. staff'[admin[a].who].password /\ admin[a].by \in sessions'
      BY <1>5, <2>2, <3>1 DEF UpdateInv, Updates
    <3> QED
      BY <2>2, <3>1, <3>2 DEF UpdateInv
  <2>3. CASE admin'[a] = admin[a] /\ admin[a].op \in {"reset", "change"}
    <3>1. admin[a] \in Passwords
      BY <2>3 DEF Shapes, Requests, Updates, Creations, Closings
    <3> QED
      BY <1>5, <2>3, <3>1 DEF AdminInv, UpdateInv, Passwords
  <2>4. CASE admin'[a] = admin[a] /\ admin[a].op \notin {"role", "active", "reset", "change"}
    BY <2>4 DEF UpdateInv
  <2> QED
    BY <1>4, <2>1, <2>2, <2>3, <2>4
<1> QED
  BY <1>6, <1>7, <1>8, <1>9, <1>10

(* Whoever writes over a row nobody else touched read it as it is.          *)
LEMMA WritesRight ==
    ASSUME DirectoryInv, NEW a \in People, NEW w \in People, Writes(a, w)
    PROVE  /\ mixed \subseteq mixed' /\ mixed' \subseteq People /\ outdated' \in BOOLEAN
           /\ w \notin mixed' => staff[w] = admin[a].seen
           /\ mixed' = {} => mixed = {}
           /\ ~ outdated' => ~ outdated /\ Accepted(admin[a].by)
BY DEF Writes, DirectoryInv, DirectoryTypeOK

(* An owner who is written by somebody else leaves that somebody an owner.  *)
LEMMA WriteUpdateStep ==
    ASSUME DirectoryInv, NEW a \in People, WriteUpdate(a),
           \A p \in People : staff'[p].version \in Nat => staff'[p].version \in 0..MaxVersion
    PROVE  DirectoryInv'
<1> DEFINE r == admin[a]
           w == r.who
           old == staff[w]
           row == [old EXCEPT !.role = IF r.to.field = "role" THEN r.to.role ELSE @,
                              !.active = IF r.to.field = "active" THEN r.to.active ELSE @,
                              !.version = IF r.ends THEN @ + 1 ELSE @]
<1>1. r \in Updates
  BY DEF WriteUpdate, DirectoryInv, Shapes, Requests, Passwords, Creations, Closings
<1>2. w \in People /\ old \in Rows /\ r.to \in Changes /\ r.by \in Tokens /\ r.ends \in BOOLEAN
  BY <1>1 DEF Updates, DirectoryInv, DirectoryTypeOK
<1>3. UpdateInv(r) /\ old.password
  BY <1>1 DEF WriteUpdate, DirectoryInv, AdminInv, UpdateInv
<1>4. /\ Writes(a, w) /\ staff' = [staff EXCEPT ![w] = row]
      /\ ended' = IF Ends(r.to, old) THEN ended \cup SessionsOf(w) ELSE ended
      /\ admin' = [admin EXCEPT ![a] = Waiting]
      /\ UNCHANGED <<sessions, loginVars, place>>
  <2>1. staff' = [staff EXCEPT ![w] = row]
    BY DEF WriteUpdate
  <2> QED
    BY <2>1 DEF WriteUpdate, Done
<1>5. row \in Rows /\ row.password
  <2>1. staff'[w] = row
    BY <1>2, <1>4 DEF DirectoryInv, DirectoryTypeOK
  <2>2. row.version \in Nat
    BY <1>2 DEF Rows
  <2>3. row.version \in 0..MaxVersion
    BY <1>2, <2>1, <2>2
  <2>4. row.role \in Roles \cup {"none"} /\ row.active \in BOOLEAN
    BY <1>2 DEF Rows, Changes
  <2> QED
    BY <1>2, <1>3, <2>3, <2>4 DEF Rows
<1>6. /\ row.version = IF r.ends THEN old.version + 1 ELSE old.version
      /\ row.must = old.must
      /\ row.role = IF r.to.field = "role" THEN r.to.role ELSE old.role
      /\ row.active = IF r.to.field = "active" THEN r.to.active ELSE old.active
  BY <1>2 DEF Rows
<1>7. old.version \in Int
  BY <1>2 DEF Rows
<1>8. w \notin mixed' => /\ r.ends = Ends(r.to, old)
                         /\ r.ends => Grows(old, row)
                         /\ ~ r.ends => Keeps(old, row)
  <2>1. SUFFICES ASSUME w \notin mixed'
                 PROVE  /\ r.ends = Ends(r.to, old)
                        /\ r.ends => Grows(old, row)
                        /\ ~ r.ends => Keeps(old, row)
    OBVIOUS
  <2>2. r.seen = old
    BY <1>2, <1>4, <2>1, WritesRight
  <2>3. r.ends = Ends(r.to, old)
    BY <1>3, <2>2 DEF UpdateInv, WriteUpdate
  <2>4. r.ends => Grows(old, row)
    BY <1>6, <1>7 DEF Grows
  <2>5. ~ r.ends => Keeps(old, row)
    BY <1>6, <2>3 DEF Keeps, Ends, NewRole
  <2> QED
    BY <2>3, <2>4, <2>5
<1>9. WriteStep(w, row)
  BY <1>2, <1>4, <1>8, WritesRight, ThrottleRests DEF WriteStep, DirectoryInv, DirectoryTypeOK, loginVars
<1>10. OwnerRemains'
  <2> SUFFICES ASSUME mixed' = {}, ~ outdated'
               PROVE  \E p \in People : staff'[p].active /\ staff'[p].role = "OWNER"
    BY DEF OwnerRemains
  <2>1. mixed = {} /\ ~ outdated /\ Accepted(r.by) /\ old = r.seen
    BY <1>2, <1>4, WritesRight
  <2>2. PICK p \in People : staff[p].active /\ staff[p].role = "OWNER"
    BY <2>1 DEF DirectoryInv, OwnerRemains
  <2>3. \A q \in People \ {w} : staff'[q] = staff[q]
    BY <1>4 DEF DirectoryInv, DirectoryTypeOK
  <2>4. CASE p # w
    BY <2>2, <2>3, <2>4
  <2>5. CASE p = w /\ ~ r.ends
    <3>1. Keeps(old, row) /\ ~ Ends(r.to, old)
      BY <1>8, <2>5
    <3>2. row.role = "OWNER" /\ row.active
      BY <1>2, <1>6, <2>2, <2>5, <3>1 DEF Keeps, Ends, Deactivates, Changes
    <3>3. staff'[w] = row
      BY <1>2, <1>4 DEF DirectoryInv, DirectoryTypeOK
    <3> HIDE DEF row
    <3> QED
      BY <1>2, <3>2, <3>3
  <2>6. CASE p = w /\ r.ends
    <3>1. r.by \in sessions /\ r.by.who # w /\ MayManage(r.by, "OWNER")
      BY <1>1, <1>3, <2>1, <2>2, <2>6 DEF UpdateInv, WriteUpdate
    <3>2. r.by.role = "OWNER"
      BY <3>1 DEF MayManage, Manageable
    <3>3. r.by.who \in People /\ Covers(staff[r.by.who], r.by)
      BY <1>2, <2>1, <3>1 DEF DirectoryInv, SessionInv, Tokens
    <3>4. staff[r.by.who].active /\ staff[r.by.who].role = "OWNER"
      BY <2>1, <3>2, <3>3 DEF Accepted, Covers
    <3> QED
      BY <2>3, <3>1, <3>3, <3>4
  <2> QED
    BY <2>4, <2>5, <2>6
<1> HIDE DEF row
<1> QED
  BY <1>2, <1>5, <1>9, <1>10, Writing

LEMMA WritePasswordStep ==
    ASSUME DirectoryInv, NEW a \in People, WritePassword(a),
           \A p \in People : staff'[p].version \in Nat => staff'[p].version \in 0..MaxVersion
    PROVE  DirectoryInv'
<1> DEFINE r == admin[a]
           w == r.who
           old == staff[w]
           row == [old EXCEPT !.password = TRUE, !.must = r.op = "reset", !.version = @ + 1]
<1>1. r \in Passwords
  BY DEF WritePassword, DirectoryInv, Shapes, Requests, Updates, Creations, Closings
<1>2. w \in People /\ old \in Rows
  BY <1>1 DEF Passwords, DirectoryInv, DirectoryTypeOK
<1>3. /\ Writes(a, w) /\ staff' = [staff EXCEPT ![w] = row]
      /\ ended' = ended \cup SessionsOf(w)
      /\ sessions' = IF r.op = "change" THEN sessions \cup {Session(a, row)} ELSE sessions
      /\ admin' = [admin EXCEPT ![a] = Waiting]
      /\ UNCHANGED <<loginVars, place>>
  BY DEF WritePassword, Done
<1>4. r.op = "change" => w = a
  BY DEF DirectoryInv, AdminInv
<1>5. staff'[w] = row
  BY <1>2, <1>3 DEF DirectoryInv, DirectoryTypeOK
<1>6. row \in Rows /\ row.password /\ Grows(old, row)
  <2>1. row.version \in Nat /\ Grows(old, row)
    BY <1>2 DEF Rows, Grows
  <2>2. row.version \in 0..MaxVersion
    BY <1>2, <1>5, <2>1
  <2> QED
    BY <1>2, <2>1, <2>2 DEF Rows
<1>7. row.active = old.active /\ row.role = old.role
  BY <1>2 DEF Rows
<1> HIDE DEF row
<1>8. WriteStep(w, row)
  BY <1>2, <1>3, <1>4, <1>6, WritesRight, ThrottleRests DEF WriteStep, DirectoryInv, DirectoryTypeOK, loginVars
<1>9. OwnerRemains'
  BY <1>2, <1>3, <1>5, <1>7, WritesRight DEF OwnerRemains, DirectoryInv, DirectoryTypeOK
<1> QED
  BY <1>2, <1>6, <1>8, <1>9, Writing

LEMMA InsertStaffStep ==
    ASSUME DirectoryInv, NEW a \in People, InsertStaff(a)
    PROVE  DirectoryInv'
<1> DEFINE r == admin[a]
           w == r.who
           row == [active |-> TRUE, role |-> r.role, version |-> 0, must |-> TRUE, password |-> TRUE]
<1>1. r \in Creations
  BY DEF InsertStaff, DirectoryInv, Shapes, Requests, Updates, Passwords, Closings
<1>2. w \in People /\ row \in Rows /\ row.password
  BY <1>1, DirectoryAssumption DEF Creations, Rows
<1>3. CASE staff[w] = Nobody
  <2>1. /\ staff' = [staff EXCEPT ![w] = row]
        /\ outdated' = (outdated \/ ~ Accepted(r.by))
        /\ admin' = [admin EXCEPT ![a] = Waiting]
        /\ UNCHANGED <<sessions, ended, mixed, loginVars, place>>
    BY <1>3 DEF InsertStaff, Done
  <2> HIDE DEF row
  <2>2. WriteStep(w, row)
    BY <1>2, <1>3, <2>1, ThrottleRests DEF WriteStep, DirectoryInv, DirectoryTypeOK, loginVars
  <2>3. OwnerRemains'
    <3>1. \A p \in People : staff[p].active => staff'[p] = staff[p]
      BY <1>2, <1>3, <2>1 DEF DirectoryInv, DirectoryTypeOK, Nobody
    <3> QED
      BY <2>1, <3>1 DEF OwnerRemains, DirectoryInv, DirectoryTypeOK
  <2> QED
    BY <1>2, <2>2, <2>3, Writing
<1>4. CASE staff[w] # Nobody
  <2>1. /\ UNCHANGED <<staff, outdated>> /\ admin' = [admin EXCEPT ![a] = Waiting]
        /\ UNCHANGED <<sessions, ended, mixed, loginVars, place>>
    BY <1>4 DEF InsertStaff, Done
  <2>2. ReadStep
    BY <2>1, ThrottleRests DEF ReadStep, DirectoryInv, DirectoryTypeOK
  <2>3. ReadsRight
    BY <2>1, Stays DEF loginVars
  <2>4. AsksRight
    BY <2>1 DEF AsksRight, DirectoryInv, Shapes, Requests, UpdateInv, Waiting
  <2> QED
    BY <2>2, <2>3, <2>4, Reading
<1> QED
  BY <1>3, <1>4

LEMMA RestartStep ==
    ASSUME DirectoryInv, DirectoryRestarts(Boss),
           \A p \in People : staff'[p].version \in Nat => staff'[p].version \in 0..MaxVersion
    PROVE  DirectoryInv'
<1>1. /\ fails' = [p \in People |-> 0] /\ locked' = {}
      /\ trying' = NobodyTries /\ admin' = [p \in People |-> Waiting]
      /\ UNCHANGED <<sessions, mixed, outdated, place>>
  BY DEF DirectoryRestarts
<1>2. ThrottleInv'
  BY <1>1, TriesFacts DEF ThrottleInv
<1>3. CASE OwnerCanSignIn
  <2>1. UNCHANGED <<staff, ended>>
    BY <1>3 DEF DirectoryRestarts
  <2>2. ReadStep
    BY <1>1, <1>2, <2>1 DEF ReadStep, DirectoryInv, DirectoryTypeOK
  <2>3. ReadsRight
    BY <1>1 DEF ReadsRight, Attempts, Waiting, NobodyTries
  <2>4. AsksRight
    BY <1>1 DEF AsksRight, Requests, UpdateInv, Waiting
  <2> QED
    BY <2>2, <2>3, <2>4, Reading
<1>4. CASE ~ OwnerCanSignIn
  <2> DEFINE row == [active |-> TRUE, role |-> "OWNER",
                     version |-> IF staff[Boss] = Nobody THEN 0 ELSE staff[Boss].version + 1,
                     must |-> TRUE, password |-> TRUE]
  <2>1. Boss \in People
    BY StoresAssumption
  <2>2. staff' = [staff EXCEPT ![Boss] = row] /\ ended' = ended \cup SessionsOf(Boss)
    BY <1>4 DEF DirectoryRestarts
  <2>3. staff'[Boss] = row /\ staff[Boss] \in Rows
    BY <2>1, <2>2 DEF DirectoryInv, DirectoryTypeOK
  <2>4. row.version \in Nat /\ (staff[Boss] # Nobody => Grows(staff[Boss], row))
    BY <2>3 DEF Rows, Grows
  <2>5. row.version \in 0..MaxVersion
    BY <2>1, <2>3, <2>4
  <2>6. row \in Rows /\ row.password /\ row.active /\ row.role = "OWNER"
    BY <2>5, DirectoryAssumption DEF Rows
  <2> HIDE DEF row
  <2>7. WriteStep(Boss, row)
    BY <1>1, <1>2, <2>2, <2>4 DEF WriteStep, DirectoryInv, DirectoryTypeOK
  <2>8. OwnerRemains'
    BY <2>1, <2>3, <2>6 DEF OwnerRemains
  <2> QED
    BY <2>1, <2>6, <2>7, <2>8, Writing
<1> QED
  BY <1>3, <1>4

LEMMA DirectoryMoves ==
    ASSUME DirectoryInv, DirectoryStep \/ DirectoryRestarts(Boss),
           \A p \in People : staff'[p].version \in Nat => staff'[p].version \in 0..MaxVersion
    PROVE  DirectoryInv'
<1>1. CASE \E p \in People, k \in Tries : SignIn(p, k, "right") \/ SignIn(p, k, "wrong") \/ FinishSignIn(p, k)
  BY <1>1, SignInStep, FinishSignInStep
<1>9. CASE \E p \in People : LockEnds(p)
  BY <1>9, LockEndsStep
<1>2. CASE \E s \in sessions : Me(s) \/ AskChange(s)
  BY <1>2, MeStep, AskChangeStep
<1>3. CASE \E s \in sessions, p \in People : AskReset(s, p)
  BY <1>3, AskResetStep
<1>4. CASE \E s \in sessions, p \in People, c \in Changes : AskUpdate(s, p, c)
  BY <1>4, AskUpdateStep
<1>5. CASE \E s \in sessions, p \in People, role \in Roles : AskCreate(s, p, role)
  BY <1>5, AskCreateStep
<1>6. CASE \E s \in sessions, l \in Places : AskClosePlace(s, l) \/ ReopenPlace(s, l)
  BY <1>6, AskCloseStep, ReopenStep
<1>7. CASE \E a \in People : WriteUpdate(a) \/ WritePassword(a) \/ InsertStaff(a) \/ WriteClosedPlace(a)
  BY <1>7, WriteUpdateStep, WritePasswordStep, InsertStaffStep, WriteClosedStep
<1>8. CASE DirectoryRestarts(Boss)
  BY <1>8, RestartStep
<1> QED
  BY <1>1, <1>2, <1>3, <1>4, <1>5, <1>6, <1>7, <1>8, <1>9 DEF DirectoryStep

LEMMA DirectoryRests == DirectoryInv /\ UNCHANGED directoryVars => DirectoryInv'
<1> SUFFICES ASSUME DirectoryInv, UNCHANGED directoryVars PROVE DirectoryInv'
  OBVIOUS
<1>1. ReadStep
  BY ThrottleRests DEF ReadStep, DirectoryInv, DirectoryTypeOK, directoryVars, staffVars
<1>2. ReadsRight /\ AsksRight
  BY Stays, AsksNothing DEF directoryVars, staffVars, loginVars
<1> QED
  BY <1>1, <1>2, Reading

(* In the office only a request that heard both answers, or one that asked  *)
(* nobody, closes a place, and no request learns an answer but by asking.   *)
LEMMA OfficeCloses ==
    ASSUME DirectoryInv, DirectoryStep \/ DirectoryRestarts(Boss)
    PROVE  /\ \A b \in People : \/ admin'[b] = admin[b] \/ admin'[b].op # "close"
                                 \/ ~ admin'[b].asks \/ admin'[b].heard = {}
           /\ \/ place'[Store] = place[Store] \/ place'[Store]
              \/ \E a \in People : /\ admin[a].op = "close" /\ admin[a].who = Store
                                   /\ admin[a].heard = {"stock", "days"} /\ ~ admin[a].blocked
                                   /\ admin'[a].op = "idle"
<1> USE DEF DirectoryInv, Shapes, DirectoryTypeOK
<1>0. Store \in Places
  BY StoresAssumption
<1>1. CASE UNCHANGED <<admin, place>>
  BY <1>1
<1>2. CASE \E a \in People, r \in Requests : /\ admin' = [admin EXCEPT ![a] = r] /\ place' = place
                                             /\ r.op # "close" \/ ~ r.asks \/ r.heard = {}
  BY <1>2
<1>3. CASE \E a \in People : WriteUpdate(a) \/ WritePassword(a) \/ InsertStaff(a)
  BY <1>3 DEF WriteUpdate, WritePassword, InsertStaff, Done, Waiting
<1>4. CASE \E a \in People : WriteClosedPlace(a)
  <2>1. PICK a \in People : WriteClosedPlace(a)
    BY <1>4
  <2>2. \A b \in People : admin'[b] = admin[b] \/ admin'[b].op # "close"
    BY <2>1 DEF WriteClosedPlace, Done, Waiting
  <2>3. CASE admin[a].blocked \/ admin[a].who # Store
    BY <1>0, <2>1, <2>2, <2>3 DEF WriteClosedPlace
  <2>4. CASE ~ admin[a].blocked /\ admin[a].who = Store
    <3>1. admin'[a].op = "idle"
      BY <2>1 DEF WriteClosedPlace, Done, Waiting
    <3> QED
      BY <2>1, <2>2, <2>4, <3>1 DEF WriteClosedPlace
  <2> QED
    BY <2>3, <2>4
<1>5. CASE \E s \in sessions, l \in Places : ReopenPlace(s, l)
  BY <1>0, <1>5 DEF ReopenPlace
<1>6. CASE \E s \in sessions, l \in Places : AskClosePlace(s, l)
  BY <1>6, TokenOf DEF AskClosePlace, Starts
<1>7. CASE \E s \in sessions, p \in People : AskReset(s, p)
  BY <1>7, TokenOf DEF AskReset, Starts
<1>8. CASE \E s \in sessions : AskChange(s)
  BY <1>8, TokenOf DEF AskChange, Starts
<1>9. CASE \E s \in sessions, p \in People, c \in Changes : AskUpdate(s, p, c)
  BY <1>9, TokenOf DEF AskUpdate, Starts, Changes
<1>10. CASE \E s \in sessions, p \in People, role \in Roles : AskCreate(s, p, role)
  BY <1>10, TokenOf DEF AskCreate, Starts
<1>11. CASE DirectoryRestarts(Boss)
  BY <1>11 DEF DirectoryRestarts, Waiting
<1>12. CASE \E p \in People, k \in Tries : SignIn(p, k, "right") \/ SignIn(p, k, "wrong") \/ FinishSignIn(p, k)
  BY <1>1, <1>12 DEF SignIn, FinishSignIn
<1>14. CASE \E p \in People : LockEnds(p)
  BY <1>1, <1>14 DEF LockEnds
<1>13. CASE \E s \in sessions : Me(s)
  BY <1>1, <1>13 DEF Me
<1> QED
  BY <1>3, <1>4, <1>5, <1>6, <1>7, <1>8, <1>9, <1>10, <1>11, <1>12, <1>13, <1>14 DEF DirectoryStep

LEMMA DayRests == UNCHANGED dayVars => UNCHANGED OpenDays
BY DEF dayVars, ledgerVars, closeVars, OpenDays

LEMMA OfficeSettles ==
    ASSUME DirectoryInv, PlaceInv, Office
    PROVE  PlaceInv'
<1>1. UNCHANGED OpenDays /\ UNCHANGED onShelf
  BY DayRests DEF Office
<1>2. /\ \A b \in People : \/ admin'[b] = admin[b] \/ admin'[b].op # "close"
                            \/ ~ admin'[b].asks \/ admin'[b].heard = {}
      /\ \/ place'[Store] = place[Store] \/ place'[Store]
         \/ \E a \in People : /\ admin[a].op = "close" /\ admin[a].who = Store
                              /\ admin[a].heard = {"stock", "days"} /\ ~ admin[a].blocked
                              /\ admin'[a].op = "idle"
  BY OfficeCloses DEF Office
<1>3. /\ late' = IF place'[Store] /\ ~ place[Store] /\ ~ Closing("days") /\ ~ Closing("stock")
                 THEN FALSE ELSE late
      /\ unasked' = IF place'[Store] THEN FALSE ELSE unasked \/ (place[Store] /\ WritesUnasked)
  BY DEF Office
<1>4. late' = late \/ (~ late' /\ place'[Store] /\ ~ Closing("days") /\ ~ Closing("stock"))
  BY <1>3
<1>5. HeardInv'
  BY <1>1, <1>2, <1>4 DEF HeardInv, PlaceInv, Closing
<1>6. SettledBeforeClosed'
  <2> SUFFICES ASSUME ~ place'[Store], ~ late', ~ unasked' PROVE OpenDays = {} /\ ~ onShelf
    BY <1>1 DEF SettledBeforeClosed
  <2>1. ~ late
    BY <1>4
  <2>2. unasked' = (unasked \/ (place[Store] /\ WritesUnasked))
    BY <1>3
  <2>3. CASE ~ place[Store]
    <3>1. ~ unasked
      BY <2>2, Zenon
    <3> QED
      BY <1>1, <2>1, <2>3, <3>1 DEF PlaceInv, SettledBeforeClosed
  <2>4. CASE place[Store]
    <3>1. place'[Store] # place[Store]
      BY <2>4
    <3>2. PICK a \in People : /\ admin[a].op = "close" /\ admin[a].who = Store
                             /\ admin[a].heard = {"stock", "days"} /\ ~ admin[a].blocked
                             /\ admin'[a].op = "idle"
      BY <1>2, <3>1
    <3>3. ~ WritesUnasked
      BY <2>2, <2>4, Zenon
    <3>4. admin[a].asks
      BY <3>2, <3>3 DEF WritesUnasked
    <3> QED
      BY <2>1, <3>2, <3>4 DEF PlaceInv, HeardInv
  <2> QED
    BY <2>3, <2>4
<1>7. late' \in BOOLEAN /\ unasked' \in BOOLEAN
  BY <1>3 DEF PlaceInv
<1> QED
  BY <1>1, <1>5, <1>6, <1>7 DEF PlaceInv

LEMMA PlaceStep ==
    ASSUME DirectoryInv, PlaceInv, [Next]_vars
    PROVE  PlaceInv'
<1>1. CASE Shop
  <2>1. UNCHANGED <<place, admin, onShelf, unasked>>
    BY <1>1 DEF Shop, directoryVars
  <2>2. ~ late' => ~ late /\ (OpenDays' \subseteq OpenDays \/ ~ Watched("days"))
    BY <1>1 DEF Shop, Notes
  <2>3. late' \in BOOLEAN
    BY <1>1 DEF Shop, Notes, PlaceInv
  <2> QED
    BY <2>1, <2>2, <2>3 DEF PlaceInv, HeardInv, SettledBeforeClosed, Watched, Closing
<1>2. CASE StockMoves
  <2>1. UNCHANGED <<place, admin, unasked>> /\ UNCHANGED OpenDays /\ onShelf' = ~ onShelf
    BY <1>2, DayRests DEF StockMoves, directoryVars
  <2>2. ~ late' => ~ late /\ (~ onShelf' \/ ~ Watched("stock"))
    BY <1>2 DEF StockMoves, Notes
  <2>3. late' \in BOOLEAN
    BY <1>2 DEF StockMoves, Notes, PlaceInv
  <2> QED
    BY <2>1, <2>2, <2>3 DEF PlaceInv, HeardInv, SettledBeforeClosed, Watched, Closing
<1>3. CASE AskAround
  <2>1. UNCHANGED <<place, onShelf, late, unasked>> /\ UNCHANGED OpenDays
    BY <1>3, DayRests DEF AskAround, Hear
  <2>2. PICK a \in People, answered \in BOOLEAN :
           /\ admin[a].op = "close"
           /\ \/ Hear(a, "stock", answered, admin[a].who = Store /\ onShelf)
              \/ Hear(a, "days", answered, admin[a].who = Store /\ OpenDays # {})
    BY <1>3 DEF AskAround
  <2>3. admin[a] \in Closings
    BY <2>2 DEF DirectoryInv, Shapes, Requests, Updates, Passwords, Creations
  <2>4. \A b \in People \ {a} : admin'[b] = admin[b]
    BY <2>2 DEF Hear, DirectoryInv, Shapes
  <2>5. ASSUME NEW what \in {"stock", "days"}, NEW blocks, Hear(a, what, answered, blocks)
        PROVE  /\ admin'[a].op = "close" /\ admin'[a].who = admin[a].who
               /\ admin'[a].asks = admin[a].asks
               /\ admin'[a].heard = admin[a].heard \cup {what}
               /\ ~ admin'[a].blocked => ~ admin[a].blocked /\ ~ blocks
    BY <2>3, <2>5 DEF Hear, DirectoryInv, Shapes, Closings
  <2>6. HeardInv'
    <3>1. CASE Hear(a, "stock", answered, admin[a].who = Store /\ onShelf)
      BY <2>1, <2>2, <2>4, <2>5, <3>1 DEF HeardInv, PlaceInv
    <3>2. CASE Hear(a, "days", answered, admin[a].who = Store /\ OpenDays # {})
      BY <2>1, <2>2, <2>4, <2>5, <3>2 DEF HeardInv, PlaceInv
    <3> QED
      BY <2>2, <3>1, <3>2
  <2> QED
    BY <2>1, <2>6 DEF PlaceInv, SettledBeforeClosed
<1>4. CASE UNCHANGED vars
  BY <1>4, DayRests DEF vars, directoryVars, PlaceInv, HeardInv, SettledBeforeClosed
<1> QED
  BY <1>1, <1>2, <1>3, <1>4, OfficeSettles DEF Next

LEMMA InitPlace == Init => PlaceInv
<1> SUFFICES ASSUME Init PROVE PlaceInv
  OBVIOUS
<1>1. \A a \in People : admin[a].op = "idle"
  BY DEF Init, DirectoryInit, Waiting
<1>2. place[Store]
  BY StoresAssumption DEF Init, DirectoryInit
<1> QED
  BY <1>1, <1>2 DEF Init, PlaceInv, HeardInv, SettledBeforeClosed

LEMMA NextStep ==
    ASSUME IInv, [Next]_vars
    PROVE  IInv'
<1> USE DEF IInv
<1>1. DirectoryInv'
  <2>1. CASE Next
    <3>1. \A p \in People : staff'[p].version \in Nat => staff'[p].version \in 0..MaxVersion
      BY <2>1, VersionsBounded DEF Next
    <3>2. CASE Shop \/ StockMoves
      BY <3>2, DirectoryRests DEF Shop, StockMoves
    <3>3. CASE Office
      BY <3>1, <3>3, DirectoryMoves DEF Office
    <3>4. CASE AskAround
      BY <3>4, HearStep DEF AskAround
    <3> QED
      BY <2>1, <3>2, <3>3, <3>4 DEF Next
  <2>2. CASE UNCHANGED vars
    BY <2>2, DirectoryRests DEF vars
  <2> QED
    BY <2>1, <2>2
<1>2. PlaceInv'
  BY PlaceStep
<1>3. plan' \in Plans
  BY DEF Next, Within, vars
<1> QED
  BY <1>1, <1>2, <1>3

(* Sign-in, staff, locations and days together: what the theorems below say *)
(* at each moment follows from it.                                          *)
THEOREM Invariant == Spec => []IInv
<1>1. Init => IInv
  BY InitDirectory, InitPlace DEF Init, IInv
<1>2. IInv /\ [Next]_vars => IInv'
  BY NextStep
<1> QED
  BY <1>1, <1>2, PTL DEF Spec

-----------------------------------------------------------------------------
(* /auth/me never takes a session that a deactivation, a password or a new  *)
(* role ended, and one it takes says what the row says, whoever else        *)
(* signs in, asks and writes meanwhile.                                     *)
THEOREM EndedSessionsStayEnded == Spec => []SessionsTellTheTruth
<1>1. IInv => SessionsTellTheTruth
  <2> SUFFICES ASSUME IInv, NEW s \in sessions, s.who \notin mixed
               PROVE  /\ s \in ended => ~ Accepted(s)
                      /\ Accepted(s) => s.role = staff[s.who].role /\ s.must = staff[s.who].must
                      /\ s.version <= staff[s.who].version
    BY DEF SessionsTellTheTruth
  <2>1. Covers(staff[s.who], s) /\ (s \in ended => s.version < staff[s.who].version)
    BY DEF IInv, DirectoryInv, SessionInv
  <2>2. s.version \in Int /\ staff[s.who].version \in Int
    BY TokenOf DEF IInv, Tokens, Rows
  <2> QED
    BY <2>1, <2>2 DEF Accepted, Covers
<1> QED
  BY <1>1, Invariant, PTL

(* Whatever owners and managers do to one another and to themselves, an     *)
(* active owner is left, for any number of people: only crossing writes or  *)
(* a session already ended can take the last one away.                      *)
THEOREM AnOwnerIsLeft == Spec => []OwnerRemains
BY Invariant, PTL DEF IInv, DirectoryInv

(* A store is taken out of use only when it has no day to close and no      *)
(* stock, whatever the order of the two answers, unless either changed      *)
(* after it was asked for.                                                  *)
THEOREM ClosedStoreIsSettled == Spec => []SettledBeforeClosed
BY Invariant, PTL DEF IInv, PlaceInv

-----------------------------------------------------------------------------
(* The day of a store.  Sales: a sale is in its ledger once its message was *)
(* applied, and what handlers remember of it stays true.                    *)
Saved(t) == sale[t].saved # 0
SaleRows ==
    \A t \in Sales :
       /\ sale[t].status # "none" => sale[t].started \in Days
       /\ Saved(t) <=> sale[t].status \in {"COMPLETED", "RETURNED"}
       /\ mail[t] # "none" => Saved(t)
       /\ t \in applied => mail[t] # "none"
       /\ \A i \in Slots : /\ job[t][i].step # "off" => mail[t] # "none"
                           /\ job[t][i].step = "ack" => t \in applied
SaleInv == SaleRows /\ SalesCountedOnce

(* Returns: a request past its write has its return in the table, its sale  *)
(* was saved, and what it takes fitted what it saw.                         *)
DeskStates == [step : {"idle"}]
    \cup [step : {"write", "look", "mark", "tell", "done"}, seen : [Lines -> Nat]]
ReturnInv ==
    /\ \A r \in Returns :
          /\ paid[r] # 0 <=> desk[r].step \notin {"idle", "write"}
          /\ desk[r].step # "idle" => Saved(Of(r))
          /\ desk[r].step = "write" =>
                \A e \in EntriesOf(r) : desk[r].seen[Names[e]] + Wanted[e] <= Sold[Names[e]]
          /\ desk[r].step = "mark" => AllBack(Of(r))
    /\ \A t \in Sales : ~ Saved(t) => \A l \in LinesOf(t) : back[l] = 0
    /\ ReturnsFitTheSale

(* The close: a count remembers sums the day has not fallen below since, a  *)
(* record nobody wrote over is explained before it is closed, and its log   *)
(* has one entry for each count that was closed.                            *)
Records == [status : {"OPEN", "BLOCKED_ON_EXPLANATION", "CLOSED"}, expected : Int, counted : Int,
            diff : Int, why : Int, nth : Nat, calm : BOOLEAN, short : {0, 1}]
CountsAsked == [op : {"count"}, day : Days, counted : Int, local : Nat, sales : Int, refunds : Int,
                silent : BOOLEAN, short : {0, 1}, seen : Nat \X Nat, known : BOOLEAN]
Asked == [op : {"idle"}] \cup CountsAsked
    \cup [op : {"explain", "close", "tell"}, day : Days, seen : Records]

CountInv(r) ==
    /\ r.counted = r.seen[1] - r.seen[2] - r.short
    /\ r.seen[1] <= Taken(r.day) /\ r.seen[2] <= Refunded(r.day)
    /\ r.sales = None \/ (r.seen[1] <= r.sales /\ r.sales <= Taken(r.day))
    /\ r.refunds = None \/ (r.seen[2] <= r.refunds /\ r.refunds <= Refunded(r.day))
    /\ r.known => r.local = r.seen[1] /\ r.seen[2] = 0
AskInv == \A u \in Users :
    /\ ask[u].op = "count" => CountInv(ask[u])
    /\ ask[u].op \in {"explain", "close"} => close[ask[u].day].status # "none"
    /\ ask[u].op = "close" => ask[u].seen.status = "OPEN"
    /\ ask[u].op = "tell" => ask[u].seen \in Range(log[ask[u].day])
CloseInv(d) ==
    /\ close[d].status # "none" /\ close[d].calm => close[d].diff = - close[d].short
    /\ \A e \in Range(said[d]) : e \in Range(log[d])
    /\ d \notin raced =>
          /\ close[d].status \in {"OPEN", "CLOSED"} => close[d].diff = 0 \/ close[d].why = close[d].diff
          /\ \A i \in DOMAIN log[d] :
                LET e == log[d][i] IN
                /\ e.diff = 0 \/ e.why = e.diff
                /\ e.nth <= close[d].nth
                /\ e.nth = close[d].nth => close[d].status = "CLOSED"
                /\ \A j \in DOMAIN log[d] : log[d][j].nth = e.nth => j = i
          /\ close[d].status = "CLOSED" =>
                /\ log[d] # <<>>
                /\ log[d][Len(log[d])].nth = close[d].nth
                /\ log[d][Len(log[d])].diff = close[d].diff
DayShape ==
    /\ DayTypeOK /\ desk \in [Returns -> DeskStates]
    /\ close \in [Days -> {NoClose} \cup Records] /\ ask \in [Users -> Asked]
    /\ log \in [Days -> Seq(Records)] /\ said \in [Days -> Seq(Records)]
DayInv == DayShape /\ SaleInv /\ ReturnInv /\ AskInv /\ \A d \in Days : CloseInv(d)

(* Amounts and refunds are amounts; the entries of a request name lines of  *)
(* one sale; what is refunded for entries of one line is its share of the   *)
(* line total, to half a cent for each of them.                             *)
LEMMA ShareOfLine ==
    ASSUME NEW price \in Nat, NEW units \in Nat \ {0}, NEW q \in Nat,
           NEW refund, refund = (2 * price * q + units) \div (2 * units)
    PROVE  /\ refund \in Nat
           /\ 2 * (refund * units - price * q) <= units
           /\ 2 * (refund * units - price * q) >= - units
<1>1. \A n \in Nat, m \in Nat \ {0} : /\ n \div m \in Nat
                                      /\ m * (n \div m) <= n /\ n < m * (n \div m) + m
  OBVIOUS
<1> QED
  BY <1>1

LEMMA EntryFacts ==
    /\ IsFiniteSet(Entries)
    /\ \A e \in Entries : /\ RequestOf[e] \in Returns /\ Names[e] \in Lines /\ Wanted[e] \in Nat \ {0}
                          /\ SaleOf[Names[e]] = Of(RequestOf[e])
    /\ \A r \in Returns : Of(r) \in Sales
<1>1. /\ IsFiniteSet(Entries) /\ SaleOf \in [Lines -> Sales]
      /\ RequestOf \in [Entries -> Returns] /\ Names \in [Entries -> Lines]
      /\ Wanted \in [Entries -> Nat \ {0}]
  BY StoreDayAssumption
<1>2. ASSUME NEW r \in Returns
      PROVE  /\ Of(r) \in Sales
             /\ \A e \in EntriesOf(r) : SaleOf[Names[e]] = Of(r)
  <2> DEFINE first == CHOOSE e \in EntriesOf(r) : TRUE
  <2>1. /\ EntriesOf(r) # {} /\ EntriesOf(r) \subseteq Entries
        /\ \A e, f \in EntriesOf(r) : SaleOf[Names[e]] = SaleOf[Names[f]]
    BY StoreDayAssumption DEF EntriesOf
  <2>2. first \in EntriesOf(r)
    BY <2>1
  <2>3. Of(r) = SaleOf[Names[first]]
    BY DEF Of
  <2> HIDE DEF first
  <2> QED BY <1>1, <2>1, <2>2, <2>3
<1>3. \A e \in Entries : e \in EntriesOf(RequestOf[e])
  BY DEF EntriesOf
<1> QED
  BY <1>1, <1>2, <1>3

LEMMA NamingFacts ==
    ASSUME NEW r \in Returns, NEW l \in Lines
    PROVE  /\ IsFiniteSet(Naming(r, l)) /\ Naming(r, l) \in SUBSET Entries
           /\ \A e \in Naming(r, l) : RequestOf[e] = r /\ Names[e] = l
           /\ Units(r, l) \in Nat
           /\ Naming(r, l) = {} => Units(r, l) = 0
           /\ Naming(r, l) # {} => SaleOf[l] = Of(r)
<1>1. /\ Naming(r, l) \in SUBSET Entries
      /\ \A e \in Naming(r, l) : RequestOf[e] = r /\ Names[e] = l
  BY DEF Naming, EntriesOf
<1>2. IsFiniteSet(Naming(r, l))
  BY <1>1, EntryFacts, FS_Subset
<1>3. \A e \in Naming(r, l) : Wanted[e] \in Nat
  BY <1>1, EntryFacts
<1>4. SumFunctionOnSet(Wanted, Naming(r, l)) \in Nat
  BY <1>2, <1>3, SumNat
<1>5. Naming(r, l) = {} => Units(r, l) = 0
  BY SumEmpty DEF Units
<1>6. Naming(r, l) # {} => SaleOf[l] = Of(r)
  BY <1>1, EntryFacts
<1> QED
  BY <1>1, <1>2, <1>4, <1>5, <1>6 DEF Units

LEMMA LineFacts ==
    ASSUME NEW l \in Lines
    PROVE  SaleOf[l] \in Sales /\ Sold[l] \in Nat \ {0} /\ LineTotal[l] \in Nat /\ l \in LinesOf(SaleOf[l])
BY StoreDayAssumption DEF LinesOf

LEMMA EntryShare ==
    ASSUME NEW e \in Entries, NEW l \in Lines, Names[e] = l
    PROVE  /\ EntryRefund[e] \in Nat /\ Wanted[e] \in Nat
           /\ 2 * (EntryRefund[e] * Sold[l] - LineTotal[l] * Wanted[e]) <= Sold[l]
           /\ 2 * (EntryRefund[e] * Sold[l] - LineTotal[l] * Wanted[e]) >= - Sold[l]
<1>1. Wanted[e] \in Nat /\ Sold[l] \in Nat \ {0} /\ LineTotal[l] \in Nat
  BY EntryFacts, LineFacts
<1>2. EntryRefund[e] = (2 * LineTotal[l] * Wanted[e] + Sold[l]) \div (2 * Sold[l])
  BY DEF EntryRefund, RefundFor
<1> DEFINE price == LineTotal[l]
           units == Sold[l]
           q == Wanted[e]
           refund == EntryRefund[e]
<1> HIDE DEF price, units, q, refund
<1>4. price \in Nat /\ units \in Nat \ {0} /\ q \in Nat /\ refund = (2 * price * q + units) \div (2 * units)
  BY <1>1, <1>2 DEF price, units, q, refund
<1>5. /\ refund \in Nat
      /\ 2 * (refund * units - price * q) <= units
      /\ 2 * (refund * units - price * q) >= - units
  BY <1>4, ShareOfLine
<1> QED
  BY <1>4, <1>5 DEF price, units, q, refund

(* The arithmetic of one share more.                                        *)
LEMMA OneMoreShare ==
    ASSUME NEW given \in Nat, NEW kept \in Nat, NEW refund \in Nat, NEW q \in Nat,
           NEW units \in Nat, NEW price \in Nat, NEW n \in Nat,
           2 * (refund * units - price * q) <= units,
           2 * (refund * units - price * q) >= - units,
           2 * (given * units - price * kept) <= units * n,
           2 * (given * units - price * kept) >= - units * n
    PROVE  /\ 2 * ((refund + given) * units - price * (q + kept)) <= units * (n + 1)
           /\ 2 * ((refund + given) * units - price * (q + kept)) >= - units * (n + 1)
<1>1. \A a, b, c \in Int : (a + b) * c = a * c + b * c /\ c * (a + b) = c * a + c * b
  OBVIOUS
<1>2. /\ (refund + given) * units = refund * units + given * units
      /\ price * (q + kept) = price * q + price * kept
      /\ units * (n + 1) = units * n + units
      /\ - units * (n + 1) = - units * n - units
  BY <1>1
<1> DEFINE ru == refund * units
           gu == given * units
           pq == price * q
           pk == price * kept
           un == units * n
           mn == - units * n
<1>3. ru \in Int /\ gu \in Int /\ pq \in Int /\ pk \in Int /\ un \in Int /\ mn \in Int
  OBVIOUS
<1>4. 2 * (ru - pq) <= units /\ 2 * (ru - pq) >= - units /\ 2 * (gu - pk) <= un /\ 2 * (gu - pk) >= mn
  OBVIOUS
<1>5. /\ (refund + given) * units = ru + gu /\ price * (q + kept) = pq + pk
      /\ units * (n + 1) = un + units /\ - units * (n + 1) = mn - units
  BY <1>2
<1> HIDE DEF ru, gu, pq, pk, un, mn
<1>6. 2 * (ru + gu - (pq + pk)) <= un + units /\ 2 * (ru + gu - (pq + pk)) >= mn - units
  BY <1>3, <1>4
<1> DEFINE lu == (refund + given) * units
           lp == price * (q + kept)
           ln == units * (n + 1)
           lm == - units * (n + 1)
<1>7. lu = ru + gu /\ lp = pq + pk /\ ln = un + units /\ lm = mn - units
  BY ONLY <1>5 DEF lu, lp, ln, lm
<1> HIDE DEF lu, lp, ln, lm
<1>8. units \in Int
  OBVIOUS
<1>9. 2 * (lu - lp) <= ln /\ 2 * (lu - lp) >= lm
  BY ONLY <1>3, <1>6, <1>7, <1>8
<1> QED BY ONLY <1>9 DEF lu, lp, ln, lm

LEMMA ShareOfEntries ==
    ASSUME NEW l \in Lines, NEW S \in SUBSET Entries, \A e \in S : Names[e] = l
    PROVE  FairShare(l, S)
<1> DEFINE units == Sold[l]
           price == LineTotal[l]
           C == {T \in SUBSET S : ~ FairShare(l, T)}
<1>0. IsFiniteSet(S) /\ units \in Nat /\ price \in Nat
  BY EntryFacts, LineFacts, FS_Subset
<1>1. \A e \in S : /\ EntryRefund[e] \in Nat /\ Wanted[e] \in Nat
                   /\ 2 * (EntryRefund[e] * units - price * Wanted[e]) <= units
                   /\ 2 * (EntryRefund[e] * units - price * Wanted[e]) >= - units
  BY EntryShare
<1> SUFFICES ASSUME C # {} PROVE FALSE
  OBVIOUS
<1>2. PICK T \in C : \A U \in C : U \subseteq T => U = T
  <2>1. C \subseteq SUBSET S
    OBVIOUS
  <2> HIDE DEF C
  <2> QED BY <1>0, <2>1, Smallest
<1>3. T \in SUBSET S /\ ~ FairShare(l, T)
  OBVIOUS
<1>4. \A U \in SUBSET T : U # T => FairShare(l, U)
  BY <1>2
<1> HIDE DEF C
<1>5. FairShare(l, {})
  <2>1. Cardinality({}) = 0 /\ \A f : SumFunctionOnSet(f, {}) = 0
    BY FS_EmptySet, SumEmpty
  <2>2. 2 * (0 * units - price * 0) = 0 /\ units * 0 = 0 /\ - units * 0 = 0
    BY <1>0
  <2> QED BY <2>1, <2>2 DEF FairShare
<1> DEFINE p == Pick(T)
           R == T \ {p}
<1>6. p \in T /\ R \in SUBSET T /\ p \notin R /\ R # T /\ T = R \cup {p}
  BY <1>3, <1>5, PickIn
<1>7. IsFiniteSet(T) /\ IsFiniteSet(R)
  BY <1>0, <1>3, FS_Subset
<1>8. FairShare(l, R)
  BY <1>4, <1>6
<1> HIDE DEF p
<1>9. /\ SumFunctionOnSet(EntryRefund, T) = EntryRefund[p] + SumFunctionOnSet(EntryRefund, R)
      /\ SumFunctionOnSet(Wanted, T) = Wanted[p] + SumFunctionOnSet(Wanted, R)
  <2>1. Ints(EntryRefund, T) /\ Ints(Wanted, T)
    BY <1>1, <1>3 DEF Ints
  <2> QED BY <1>6, <1>7, <2>1, SumRemove
<1>10. SumFunctionOnSet(EntryRefund, R) \in Nat /\ SumFunctionOnSet(Wanted, R) \in Nat
  <2>1. \A e \in R : EntryRefund[e] \in Nat /\ Wanted[e] \in Nat
    BY <1>1, <1>3
  <2> QED BY <1>7, <2>1, SumNat
<1>11. Cardinality(R) \in Nat /\ Cardinality(T) = Cardinality(R) + 1
  <2>1. Cardinality(R \cup {p}) = Cardinality(R) + 1
    BY <1>6, <1>7, FS_AddElement
  <2> QED BY <1>6, <1>7, <2>1, FS_CardinalityType
<1> DEFINE given == SumFunctionOnSet(EntryRefund, R)
           kept == SumFunctionOnSet(Wanted, R)
           refund == EntryRefund[p]
           q == Wanted[p]
           n == Cardinality(R)
<1>12. /\ 2 * (refund * units - price * q) <= units
       /\ 2 * (refund * units - price * q) >= - units
       /\ refund \in Nat /\ q \in Nat /\ given \in Nat /\ kept \in Nat /\ n \in Nat
  BY <1>1, <1>3, <1>6, <1>10, <1>11
<1>13. /\ 2 * (given * units - price * kept) <= units * n
       /\ 2 * (given * units - price * kept) >= - units * n
  BY <1>8 DEF FairShare
<1>14. /\ SumFunctionOnSet(EntryRefund, T) = refund + given
       /\ SumFunctionOnSet(Wanted, T) = q + kept
       /\ Cardinality(T) = n + 1
  BY <1>9, <1>11
<1>15. (2 * (SumFunctionOnSet(EntryRefund, T) * units - price * SumFunctionOnSet(Wanted, T))
           <= units * Cardinality(T)
        /\ 2 * (SumFunctionOnSet(EntryRefund, T) * units - price * SumFunctionOnSet(Wanted, T))
           >= - units * Cardinality(T))
       => FairShare(l, T)
  BY DEF FairShare
<1> HIDE DEF units, price, given, kept, refund, q, n, R
<1>16. /\ 2 * ((refund + given) * units - price * (q + kept)) <= units * (n + 1)
       /\ 2 * ((refund + given) * units - price * (q + kept)) >= - units * (n + 1)
  BY <1>0, <1>12, <1>13, OneMoreShare
<1> QED
  BY ONLY <1>3, <1>14, <1>15, <1>16

LEMMA Amounts ==
    /\ \A t \in Sales : Amount[t] \in Nat
    /\ \A r \in Returns : Refund[r] \in Nat
<1>1. ASSUME NEW t \in Sales
      PROVE  Amount[t] \in Nat
  <2>1. IsFiniteSet(LinesOf(t)) /\ \A l \in LinesOf(t) : LineTotal[l] \in Nat
    BY StoreDayAssumption, FS_Subset DEF LinesOf
  <2>2. SumFunctionOnSet(LineTotal, LinesOf(t)) \in Nat
    BY <2>1, SumNat
  <2> QED BY <2>2 DEF Amount
<1>2. ASSUME NEW r \in Returns
      PROVE  Refund[r] \in Nat
  <2>1. EntriesOf(r) \in SUBSET Entries
    BY DEF EntriesOf
  <2>2. \A e \in EntriesOf(r) : EntryRefund[e] \in Nat
    BY <2>1, EntryFacts, EntryShare
  <2>3. IsFiniteSet(EntriesOf(r))
    BY <2>1, EntryFacts, FS_Subset
  <2>4. SumFunctionOnSet(EntryRefund, EntriesOf(r)) \in Nat
    BY <2>2, <2>3, SumNat
  <2> QED BY <2>4 DEF Refund
<1> QED
  BY <1>1, <1>2

(* Sums over a day's sales, or its returns, only grow with them.            *)
LEMMA MoreIsMore ==
    ASSUME NEW f, NEW S, IsFiniteSet(S), \A x \in S : f[x] \in Nat,
           NEW T \in SUBSET S, NEW U \in SUBSET T
    PROVE  /\ SumFunctionOnSet(f, T) \in Nat /\ SumFunctionOnSet(f, U) \in Nat
           /\ SumFunctionOnSet(f, U) <= SumFunctionOnSet(f, T)
<1>1. IsFiniteSet(T) /\ IsFiniteSet(U)
  BY FS_Subset
<1> QED
  BY <1>1, SumNat, SumFewer

LEMMA DaySums ==
    /\ \A d \in Int : Taken(d) \in Nat /\ Refunded(d) \in Nat
    /\ \A T \in SUBSET Sales : SumFunctionOnSet(Amount, T) \in Nat
    /\ \A T \in SUBSET Sales : \A U \in SUBSET T :
          SumFunctionOnSet(Amount, U) <= SumFunctionOnSet(Amount, T)
    /\ \A T \in SUBSET Returns : SumFunctionOnSet(Refund, T) \in Nat
    /\ \A T \in SUBSET Returns : \A U \in SUBSET T :
          SumFunctionOnSet(Refund, U) <= SumFunctionOnSet(Refund, T)
<1>1. IsFiniteSet(Sales) /\ IsFiniteSet(Returns)
  BY StoreDayAssumption
<1>2. \A T \in SUBSET Sales : \A U \in SUBSET T :
         SumFunctionOnSet(Amount, T) \in Nat /\ SumFunctionOnSet(Amount, U) <= SumFunctionOnSet(Amount, T)
  BY <1>1, Amounts, MoreIsMore
<1>3. \A T \in SUBSET Returns : \A U \in SUBSET T :
         SumFunctionOnSet(Refund, T) \in Nat /\ SumFunctionOnSet(Refund, U) <= SumFunctionOnSet(Refund, T)
  BY <1>1, Amounts, MoreIsMore
<1>4. \A d \in Int : /\ {t \in Sales : sale[t].saved = d} \in SUBSET Sales
                     /\ {r \in Returns : paid[r] = d} \in SUBSET Returns
  OBVIOUS
<1> QED
  BY <1>2, <1>3, <1>4 DEF Taken, Refunded

-----------------------------------------------------------------------------
(* Types.  The steps of a day, by who takes them.                           *)
TillStep == \/ Midnight
            \/ \E t \in Sales : RingUp(t) \/ SaveSale(t) \/ AnnounceSale(t)
RequestStep(r) == \/ ReadSale(r) \/ CreateReturn(r) \/ LookAgain(r)
                  \/ MarkReturned(r) \/ TellReturned(r)
BreakStep == \E broken \in SUBSET Returns : BreakOff(broken)
DeskStep == (\E r \in Returns : RequestStep(r)) \/ BreakStep
LedgerStep == \/ \E t \in Sales, i \in Slots : \/ Deliver(t, i) \/ CheckApplied(t, i) \/ ApplySale(t, i)
                                               \/ Ack(t, i) \/ Throws(t, i)
              \/ ChannelLost
CountStep == \E u \in Users : \/ \E d \in Days : \/ \E s \in {0, 1} : RecordCount(u, d, s)
                                               \/ Explain(u, d) \/ Close(u, d)
                            \/ SumSales(u) \/ SumRefunds(u) \/ CrossCheckFails(u)
CloseStep == \E u \in Users : SaveCount(u) \/ WriteExplained(u) \/ WriteClosed(u) \/ TellClosed(u)

LEMMA DaySplit == DayStep => TillStep \/ DeskStep \/ LedgerStep \/ AuditRestarts \/ CountStep \/ CloseStep
<1>1. Running \in SUBSET Returns /\ \A r \in Returns : {r} \in SUBSET Returns
  BY DEF Running
<1>2. (BreakOff(Running) \/ \E r \in Returns : BreakOff({r})) => BreakStep
  BY <1>1 DEF BreakStep
<1> QED
  BY <1>2 DEF DayStep, TillStep, DeskStep, RequestStep, LedgerStep, CountStep, CloseStep

LEMMA TillShape ==
    ASSUME DayShape, TillStep
    PROVE  DayShape'
<1>1. UNCHANGED <<back, desk, paid, cut, crossed, job, opened, total, byCashier, applied, closeVars, mishaps>>
  <2>1. CASE Midnight
    BY <2>1 DEF Midnight, ledgerVars
  <2>2. ASSUME NEW t \in Sales, RingUp(t) \/ SaveSale(t)
        PROVE  UNCHANGED <<back, desk, paid, cut, crossed, job, opened, total, byCashier, applied, closeVars, mishaps>>
    BY <2>2 DEF RingUp, SaveSale, ledgerVars
  <2>3. ASSUME NEW t \in Sales, AnnounceSale(t)
        PROVE  UNCHANGED <<back, desk, paid, cut, crossed, job, opened, total, byCashier, applied, closeVars, mishaps>>
    BY <2>3 DEF AnnounceSale, tillVars
  <2> QED BY <2>1, <2>2, <2>3 DEF TillStep
<1>2. today' \in Days
  <2>1. today \in 1..LastDay /\ LastDay \in Nat
    BY StoreDayAssumption DEF DayShape, DayTypeOK, Days
  <2>2. Midnight \/ today' = today
    BY DEF TillStep, RingUp, SaveSale, AnnounceSale, tillVars
  <2> QED BY <2>1, <2>2 DEF Midnight, Days
<1>3. sale' \in [Sales -> [status : {"none", "ringing", "COMPLETED", "RETURNED"},
                           started : 0..LastDay, saved : 0..LastDay]]
  <2> DEFINE S == [status : {"none", "ringing", "COMPLETED", "RETURNED"},
                   started : 0..LastDay, saved : 0..LastDay]
  <2>1. sale \in [Sales -> S] /\ today \in 0..LastDay
    BY StoreDayAssumption DEF DayShape, DayTypeOK, Days
  <2>2. ASSUME NEW t \in Sales, RingUp(t)
        PROVE  sale' \in [Sales -> S]
    BY <2>1, <2>2 DEF RingUp
  <2>3. ASSUME NEW t \in Sales, SaveSale(t)
        PROVE  sale' \in [Sales -> S]
    BY <2>1, <2>3 DEF SaveSale
  <2>4. ASSUME NEW t \in Sales, AnnounceSale(t)
        PROVE  sale' \in [Sales -> S]
    BY <2>1, <2>4 DEF AnnounceSale, tillVars
  <2> QED BY <2>1, <2>2, <2>3, <2>4 DEF TillStep, Midnight
<1>4. mail' \in [Sales -> {"none", "queued", "taken", "again", "retaken", "acked", "dropped"}]
  <2> DEFINE M == {"none", "queued", "taken", "again", "retaken", "acked", "dropped"}
  <2>1. mail \in [Sales -> M]
    BY DEF DayShape, DayTypeOK
  <2>2. \/ mail' = mail
        \/ \E t \in Sales : mail' = [mail EXCEPT ![t] = "queued"]
    BY DEF TillStep, Midnight, RingUp, SaveSale, AnnounceSale, ledgerVars
  <2> QED BY <2>1, <2>2
<1> QED
  BY <1>1, <1>2, <1>3, <1>4 DEF DayShape, DayTypeOK, closeVars

LEMMA BreakRests ==
    ASSUME DayShape, BreakStep
    PROVE  /\ UNCHANGED <<today, sale, back, desk, paid, crossed, ledgerVars, closeVars>>
           /\ cut' \in SUBSET Returns /\ mishaps' \in 0..MaxMishaps
<1>1. PICK broken \in SUBSET Returns : BreakOff(broken)
  BY DEF BreakStep
<1>2. cut \in SUBSET Returns /\ mishaps \in 0..MaxMishaps /\ MaxMishaps \in Nat
  BY StoreDayAssumption DEF DayShape, DayTypeOK
<1>3. mishaps' \in 0..MaxMishaps
  BY <1>1, <1>2 DEF BreakOff
<1>4. cut' = cut \cup broken
  BY <1>1 DEF BreakOff
<1> QED
  BY <1>1, <1>2, <1>3, <1>4 DEF BreakOff

LEMMA RequestShape ==
    ASSUME DayShape, NEW r \in Returns, RequestStep(r)
    PROVE  DayShape'
<1>1. UNCHANGED <<today, cut, ledgerVars, closeVars, mishaps>>
  BY DEF RequestStep, ReadSale, CreateReturn, LookAgain, MarkReturned, TellReturned
<1>2. desk' \in [Returns -> DeskStates] /\ desk \in [Returns -> DeskStates] /\ back \in [Lines -> Nat]
  <2>1. desk \in [Returns -> DeskStates] /\ back \in [Lines -> Nat]
    BY DEF DayShape, DayTypeOK
  <2>3. CASE ReadSale(r)
    BY <2>1, <2>3 DEF ReadSale, DeskStates
  <2>4. CASE CreateReturn(r) \/ LookAgain(r) \/ MarkReturned(r) \/ TellReturned(r)
    <3>1. desk[r].step \in {"write", "look", "mark", "tell"}
      BY <2>4 DEF CreateReturn, LookAgain, MarkReturned, TellReturned, Goes
    <3>2. PICK s \in {"look", "mark", "tell", "done"} : desk' = [desk EXCEPT ![r].step = s]
      <4>1. CASE AllBack(Of(r))
        BY <2>4, <4>1 DEF CreateReturn, LookAgain, MarkReturned, TellReturned, Goto
      <4>2. CASE ~ AllBack(Of(r))
        BY <2>4, <4>2 DEF CreateReturn, LookAgain, MarkReturned, TellReturned, Goto
      <4> QED BY <4>1, <4>2
    <3>3. desk[r] \in [step : {"write", "look", "mark", "tell", "done"}, seen : [Lines -> Nat]]
      BY <2>1, <3>1 DEF DeskStates
    <3>4. [desk[r] EXCEPT !.step = s] \in DeskStates
      BY <3>2, <3>3 DEF DeskStates
    <3> QED BY <2>1, <3>2, <3>4
  <2> QED BY <2>1, <2>3, <2>4 DEF RequestStep
<1>3. \A x \in Returns : desk'[x].step \in {"idle", "write", "look", "mark", "tell", "done"}
  BY <1>2 DEF DeskStates
<1>4. back' \in [Lines -> Nat]
  <2>1. ASSUME CreateReturn(r)
        PROVE  back' \in [Lines -> Nat]
    <3>1. back' = [l \in Lines |-> back[l] + Units(r, l)]
      BY <2>1 DEF CreateReturn
    <3>2. \A l \in Lines : Units(r, l) \in Nat
      BY NamingFacts
    <3> QED BY <1>2, <3>1, <3>2
  <2> QED
    BY <1>2, <2>1 DEF RequestStep, ReadSale, LookAgain, MarkReturned, TellReturned
<1>5. crossed' \in SUBSET Lines
  BY DEF RequestStep, ReadSale, CreateReturn, LookAgain, MarkReturned, TellReturned, DayShape, DayTypeOK
<1>6. paid' \in [Returns -> 0..LastDay]
  <2>1. paid \in [Returns -> 0..LastDay] /\ today \in 0..LastDay
    BY StoreDayAssumption DEF DayShape, DayTypeOK, Days
  <2> QED
    BY <2>1 DEF RequestStep, ReadSale, CreateReturn, LookAgain, MarkReturned, TellReturned
<1>7. sale' \in [Sales -> [status : {"none", "ringing", "COMPLETED", "RETURNED"},
                           started : 0..LastDay, saved : 0..LastDay]]
  <2> DEFINE S == [status : {"none", "ringing", "COMPLETED", "RETURNED"},
                   started : 0..LastDay, saved : 0..LastDay]
  <2>1. sale \in [Sales -> S] /\ Of(r) \in Sales
    BY EntryFacts DEF DayShape, DayTypeOK
  <2>2. ASSUME MarkReturned(r)
        PROVE  sale' \in [Sales -> S]
    BY <2>1, <2>2 DEF MarkReturned
  <2> QED
    BY <2>1, <2>2 DEF RequestStep, ReadSale, CreateReturn, LookAgain, TellReturned
<1> QED
  BY <1>1, <1>2, <1>3, <1>4, <1>5, <1>6, <1>7 DEF DayShape, DayTypeOK, ledgerVars, closeVars

LEMMA DeskShape ==
    ASSUME DayShape, DeskStep
    PROVE  DayShape'
<1>1. CASE BreakStep
  BY <1>1, BreakRests DEF DayShape, DayTypeOK, ledgerVars, closeVars
<1> QED
  BY <1>1, RequestShape DEF DeskStep

LEMMA LedgerShape ==
    ASSUME DayShape, \A t \in applied : mail[t] # "none",
           \A t \in Sales : mail[t] # "none" => sale[t].started \in Days,
           \A t \in Sales, i \in Slots : job[t][i].step # "off" => mail[t] # "none",
           LedgerStep
    PROVE  DayShape'
<1> DEFINE M == {"none", "queued", "taken", "again", "retaken", "acked", "dropped"}
           J == [step : {"off", "check", "apply", "ack"}, live : BOOLEAN]
<1>1. UNCHANGED <<tillVars, closeVars>>
  BY DEF LedgerStep, Deliver, CheckApplied, ApplySale, Ack, Throws, ChannelLost
<1>2. /\ mail \in [Sales -> M] /\ job \in [Sales -> [Slots -> J]]
      /\ opened \in SUBSET Days /\ total \in [Days -> Nat]
      /\ byCashier \in [Days -> [Cashiers -> Nat]] /\ applied \in SUBSET Sales
      /\ mishaps \in 0..MaxMishaps
  BY DEF DayShape, DayTypeOK
<1>3. ASSUME NEW t \in Sales, NEW i \in Slots, ApplySale(t, i)
      PROVE  /\ opened' \in SUBSET Days /\ total' \in [Days -> Nat]
             /\ byCashier' \in [Days -> [Cashiers -> Nat]] /\ applied' \in SUBSET Sales
             /\ job' \in [Sales -> [Slots -> J]] /\ UNCHANGED <<mail, mishaps>>
  <2> DEFINE d == sale[t].started
             c == Cashier[t]
  <2>1. d \in Days
    BY <1>3 DEF ApplySale, At
  <2>2. c \in Cashiers
    BY StoreDayAssumption DEF Cashiers
  <2>3. /\ opened' = opened \cup {d} /\ total' = [total EXCEPT ![d] = @ + Amount[t]]
        /\ byCashier' = [byCashier EXCEPT ![d][c] = @ + Amount[t]]
        /\ applied' = applied \cup {t} /\ job' = [job EXCEPT ![t][i].step = "ack"]
        /\ UNCHANGED <<mail, mishaps>>
    BY <1>3 DEF ApplySale, AddSale, Step
  <2>4. Amount[t] \in Nat
    BY Amounts
  <2> HIDE DEF d, c
  <2>5. job' \in [Sales -> [Slots -> J]]
    BY <1>2, <2>3
  <2>6. total' \in [Days -> Nat]
    BY <1>2, <2>1, <2>3, <2>4
  <2>7. byCashier' \in [Days -> [Cashiers -> Nat]]
    <3>1. byCashier[d] \in [Cashiers -> Nat] /\ byCashier[d][c] \in Nat
      BY <1>2, <2>1, <2>2
    <3> DEFINE row == byCashier[d]
    <3>3. row \in [Cashiers -> Nat] /\ row[c] + Amount[t] \in Nat
      BY <2>4, <3>1
    <3> HIDE DEF row
    <3>4. [row EXCEPT ![c] = @ + Amount[t]] \in [Cashiers -> Nat]
      BY <3>3
    <3>2. [byCashier[d] EXCEPT ![c] = @ + Amount[t]] \in [Cashiers -> Nat]
      BY <3>4 DEF row
    <3> QED BY <1>2, <2>3, <3>2
  <2> QED BY <1>2, <2>1, <2>3, <2>5, <2>6, <2>7
<1>4. ASSUME NEW t \in Sales, NEW i \in Slots, Deliver(t, i) \/ CheckApplied(t, i) \/ Ack(t, i) \/ Throws(t, i)
      PROVE  /\ UNCHANGED <<opened, total, byCashier, applied>>
             /\ mail' \in [Sales -> M] /\ job' \in [Sales -> [Slots -> J]] /\ mishaps' \in 0..MaxMishaps
  <2>1. UNCHANGED <<opened, total, byCashier, applied>>
    BY <1>4 DEF Deliver, CheckApplied, Ack, Throws
  <2>2. mishaps' = mishaps \/ (mishaps < MaxMishaps /\ mishaps' = mishaps + 1)
    BY <1>4 DEF Deliver, CheckApplied, Ack, Throws
  <2>3. mail' = mail \/ \E m \in M : mail' = [mail EXCEPT ![t] = m]
    BY <1>4 DEF Deliver, CheckApplied, Ack, Throws, Refused
  <2>4. \/ \E j \in J : job' = [job EXCEPT ![t][i] = j]
        \/ \E s \in {"ack", "apply"} : job' = [job EXCEPT ![t][i].step = s]
    BY <1>4 DEF Deliver, CheckApplied, Ack, Throws, Step, Off
  <2>5. job' \in [Sales -> [Slots -> J]]
    <3>1. \A j \in J, s \in {"ack", "apply"} : [j EXCEPT !.step = s] \in J
      OBVIOUS
    <3>2. job[t] \in [Slots -> J] /\ job[t][i] \in J
      BY <1>2
    <3> HIDE DEF J
    <3>3. PICK j \in J : job' = [job EXCEPT ![t][i] = j]
      BY <2>4, <3>1, <3>2
    <3>4. [job[t] EXCEPT ![i] = j] \in [Slots -> J]
      BY <3>2, <3>3
    <3> QED BY <1>2, <3>3, <3>4
  <2>6. mail' \in [Sales -> M]
    BY <1>2, <2>3
  <2>7. mishaps' \in 0..MaxMishaps
    BY <1>2, <2>2, StoreDayAssumption
  <2> QED BY <2>1, <2>5, <2>6, <2>7
<1>5. CASE ChannelLost
  <2>1. UNCHANGED <<opened, total, byCashier, applied>>
    BY <1>5 DEF ChannelLost
  <2>2. mail' \in [Sales -> M]
    BY <1>2, <1>5 DEF ChannelLost, BackToQueue
  <2>3. job' \in [Sales -> [Slots -> J]]
    <3>1. \A j \in J : [j EXCEPT !.live = FALSE] \in J
      OBVIOUS
    <3> HIDE DEF J
    <3> QED BY <1>2, <1>5, <3>1 DEF ChannelLost
  <2>4. mishaps' \in 0..MaxMishaps
    BY <1>2, <1>5, StoreDayAssumption DEF ChannelLost
  <2> QED BY <1>1, <2>1, <2>2, <2>3, <2>4 DEF DayShape, DayTypeOK, tillVars, closeVars
<1>6. ASSUME NEW t \in Sales, NEW i \in Slots, ApplySale(t, i)
      PROVE  DayShape'
  BY <1>1, <1>2, <1>3, <1>6 DEF DayShape, DayTypeOK, tillVars, closeVars
<1>7. ASSUME NEW t \in Sales, NEW i \in Slots, Deliver(t, i) \/ CheckApplied(t, i) \/ Ack(t, i) \/ Throws(t, i)
      PROVE  DayShape'
  BY <1>1, <1>2, <1>4, <1>7 DEF DayShape, DayTypeOK, tillVars, closeVars
<1> QED
  BY <1>5, <1>6, <1>7 DEF LedgerStep

LEMMA RestartShape ==
    ASSUME DayShape, AuditRestarts
    PROVE  DayShape'
<1> DEFINE M == {"none", "queued", "taken", "again", "retaken", "acked", "dropped"}
           J == [step : {"off", "check", "apply", "ack"}, live : BOOLEAN]
<1>1. UNCHANGED <<tillVars, opened, total, byCashier, applied, close, log, said, raced>>
  BY DEF AuditRestarts
<1>2. mail' \in [Sales -> M]
  <2>1. mail \in [Sales -> M]
    BY DEF DayShape, DayTypeOK
  <2> QED BY <2>1 DEF AuditRestarts, BackToQueue
<1>3. job' \in [Sales -> [Slots -> J]]
  BY DEF AuditRestarts, Off
<1>4. mishaps' \in 0..MaxMishaps
  BY StoreDayAssumption DEF AuditRestarts, DayShape, DayTypeOK
<1>5. ask' \in [Users -> Asked] /\ \A u \in Users : ask'[u].op = "idle"
  BY DEF AuditRestarts, Asked, Idle
<1> QED
  BY <1>1, <1>2, <1>3, <1>4, <1>5 DEF DayShape, DayTypeOK, tillVars

LEMMA AskShapes ==
    ASSUME DayShape, CountStep
    PROVE  DayShape'
<1>1. UNCHANGED <<tillVars, mail, job, total, byCashier, applied, close, log, said, raced>>
  BY DEF CountStep, RecordCount, Explain, Close, SumSales, SumRefunds, CrossCheckFails, ledgerVars
<1>2. /\ close \in [Days -> {NoClose} \cup Records] /\ ask \in [Users -> Asked]
      /\ opened \in SUBSET Days /\ mishaps \in 0..MaxMishaps /\ total \in [Days -> Nat]
  BY DEF DayShape, DayTypeOK
<1>3. PICK u \in Users : \/ \E d \in Days : \/ \E s \in {0, 1} : RecordCount(u, d, s)
                                            \/ Explain(u, d) \/ Close(u, d)
                         \/ SumSales(u) \/ SumRefunds(u) \/ CrossCheckFails(u)
  BY DEF CountStep
<1>4. opened' \in SUBSET Days /\ mishaps' \in 0..MaxMishaps
  <2>1. opened' = opened \/ \E d \in Days : opened' = opened \cup {d}
    BY <1>3 DEF RecordCount, Explain, Close, SumSales, SumRefunds, CrossCheckFails, ledgerVars
  <2>2. mishaps' = mishaps \/ (mishaps < MaxMishaps /\ mishaps' = mishaps + 1)
    BY <1>3 DEF RecordCount, Explain, Close, SumSales, SumRefunds, CrossCheckFails
  <2> QED BY <1>2, <2>1, <2>2, StoreDayAssumption
<1>5. \E r \in Asked : ask' = [ask EXCEPT ![u] = r]
  <2>1. ASSUME NEW d \in Days, NEW s \in {0, 1}, RecordCount(u, d, s)
        PROVE  \E r \in Asked : ask' = [ask EXCEPT ![u] = r]
    <3> DEFINE r == [op |-> "count", day |-> d, counted |-> Taken(d) - Refunded(d) - s,
                 local |-> total[d], sales |-> None, refunds |-> None, silent |-> FALSE,
                 short |-> s, seen |-> <<Taken(d), Refunded(d)>>, known |-> LedgerKnows(d)]
    <3>1. ask' = [ask EXCEPT ![u] = r]
      BY <2>1 DEF RecordCount, Begin
    <3>4. LedgerKnows(d) \in BOOLEAN
      BY DEF LedgerKnows
    <3>2. LedgerKnows(d) \in BOOLEAN /\ Taken(d) \in Nat /\ Refunded(d) \in Nat /\ total[d] \in Nat
      <4>1. Taken(d) \in Nat /\ Refunded(d) \in Nat
        BY DaySums DEF Days
      <4> QED BY <1>2, <3>4, <4>1
    <3>3. r \in CountsAsked
      BY <3>2 DEF CountsAsked, None
    <3> QED BY <3>1, <3>3 DEF Asked
  <2>2. ASSUME NEW d \in Days, Explain(u, d) \/ Close(u, d)
        PROVE  \E r \in Asked : ask' = [ask EXCEPT ![u] = r]
    <3>1. close[d] \in Records
      BY <1>2, <2>2 DEF Explain, Close, NoClose
    <3>2. PICK o \in {"explain", "close"} : ask' = [ask EXCEPT ![u] = [op |-> o, day |-> d, seen |-> close[d]]]
      BY <2>2 DEF Explain, Close, Begin
    <3>3. [op |-> o, day |-> d, seen |-> close[d]] \in Asked
      BY <3>1 DEF Asked
    <3> QED BY <3>2, <3>3
  <2>3. CASE SumSales(u) \/ SumRefunds(u) \/ CrossCheckFails(u)
    <3>1. ask[u] \in CountsAsked
      BY <1>2, <2>3 DEF SumSales, SumRefunds, CrossCheckFails, Asked
    <3>2. Taken(ask[u].day) \in Nat /\ Refunded(ask[u].day) \in Nat
      BY <3>1, DaySums DEF CountsAsked, Days
    <3>3. CASE SumSales(u)
      <4> DEFINE r == [ask[u] EXCEPT !.sales = Taken(ask[u].day)]
      <4>1. r \in Asked
        BY <3>1, <3>2 DEF CountsAsked, Asked
      <4> QED BY <3>3, <4>1 DEF SumSales
    <3>4. CASE SumRefunds(u)
      <4> DEFINE r == [ask[u] EXCEPT !.refunds = Refunded(ask[u].day)]
      <4>1. r \in Asked
        BY <3>1, <3>2 DEF CountsAsked, Asked
      <4> QED BY <3>4, <4>1 DEF SumRefunds
    <3>5. CASE CrossCheckFails(u)
      <4> DEFINE r == [ask[u] EXCEPT !.silent = TRUE]
      <4>1. r \in Asked
        BY <3>1, <3>2 DEF CountsAsked, Asked
      <4> QED BY <3>5, <4>1 DEF CrossCheckFails
    <3> QED BY <2>3, <3>3, <3>4, <3>5
  <2> QED BY <1>3, <2>1, <2>2, <2>3
<1>6. ask' \in [Users -> Asked]
  BY <1>2, <1>5
<1>7. \A v \in Users : ask'[v].op \in {"idle", "count", "explain", "close", "tell"}
  BY <1>6 DEF Asked, CountsAsked
<1> QED
  BY <1>1, <1>4, <1>6, <1>7 DEF DayShape, DayTypeOK, tillVars

(* What a count writes.                                                     *)
LEMMA CountedRecord ==
    ASSUME DayShape, NEW r \in CountsAsked, r.silent \/ (r.sales # None /\ r.refunds # None)
    PROVE  Counted(r, None) \in Records
<1>1. /\ r.day \in Days /\ r.counted \in Int /\ r.local \in Nat /\ r.sales \in Int /\ r.refunds \in Int
      /\ r.short \in {0, 1}
  BY DEF CountsAsked
<1>2. Expected(r) \in Int
  BY <1>1 DEF Expected
<1>3. r.counted - Expected(r) \in Int /\ None \in Int
  BY <1>1, <1>2 DEF None
<1>4. close[r.day].nth \in Nat
  BY <1>1 DEF DayShape, NoClose, Records
<1> DEFINE calm == /\ r.seen = <<Taken(r.day), Refunded(r.day)>>
                   /\ r.silent => r.known
<1>5. calm \in BOOLEAN
  OBVIOUS
<1> DEFINE diff == r.counted - Expected(r)
           status == IF diff # 0 THEN "BLOCKED_ON_EXPLANATION" ELSE "OPEN"
<1>6. status \in {"OPEN", "BLOCKED_ON_EXPLANATION", "CLOSED"}
  OBVIOUS
<1>7. Counted(r, None) = [status |-> status, expected |-> Expected(r), counted |-> r.counted,
                          diff |-> diff, why |-> None, nth |-> close[r.day].nth + 1, calm |-> calm,
                          short |-> r.short]
  BY DEF Counted
<1>8. diff \in Int
  BY <1>3
<1> HIDE DEF calm, diff, status
<1> QED
  BY <1>1, <1>2, <1>3, <1>4, <1>5, <1>6, <1>7, <1>8 DEF Records

LEMMA CloseShape ==
    ASSUME DayShape, AskInv, CloseStep
    PROVE  DayShape'
<1>1. UNCHANGED <<tillVars, ledgerVars, mishaps>>
  BY DEF CloseStep, SaveCount, WriteExplained, WriteClosed, TellClosed
<1>2. /\ close \in [Days -> {NoClose} \cup Records] /\ ask \in [Users -> Asked]
      /\ log \in [Days -> Seq(Records)] /\ said \in [Days -> Seq(Records)] /\ raced \in SUBSET Days
  BY DEF DayShape, DayTypeOK
<1>8. SUFFICES /\ close' \in [Days -> {NoClose} \cup Records] /\ ask' \in [Users -> Asked]
               /\ log' \in [Days -> Seq(Records)] /\ said' \in [Days -> Seq(Records)] /\ raced' \in SUBSET Days
  <2>1. \A v \in Users : ask'[v].op \in {"idle", "count", "explain", "close", "tell"}
    BY <1>8 DEF Asked, CountsAsked
  <2>2. \A e \in Days : close'[e].status \in {"none", "OPEN", "BLOCKED_ON_EXPLANATION", "CLOSED"}
    BY <1>8 DEF NoClose, Records
  <2> QED
    BY <1>1, <1>8, <2>1, <2>2 DEF DayShape, DayTypeOK, tillVars, ledgerVars
<1>3. PICK u \in Users : SaveCount(u) \/ WriteExplained(u) \/ WriteClosed(u) \/ TellClosed(u)
  BY DEF CloseStep
<1> DEFINE d == ask[u].day
<1>4. CASE SaveCount(u)
  <2>1. ask[u] \in CountsAsked /\ (ask[u].silent \/ (ask[u].sales # None /\ ask[u].refunds # None))
    BY <1>2, <1>4 DEF SaveCount, Ready, Asked
  <2>2. d \in Days /\ Counted(ask[u], None) \in Records
    BY <2>1, CountedRecord DEF CountsAsked
  <2>3. close' \in [Days -> {NoClose} \cup Records]
    BY <1>2, <1>4, <2>2 DEF SaveCount
  <2>4. ask' \in [Users -> Asked] /\ UNCHANGED <<log, said, raced>>
    BY <1>2, <1>4 DEF SaveCount, Answer, Idle, Asked
  <2> QED BY <1>2, <2>3, <2>4
<1>5. CASE WriteExplained(u)
  <2>1. d \in Days /\ ask[u].seen \in Records
    BY <1>2, <1>5 DEF WriteExplained, Asked, CountsAsked
  <2>2. close[d] \in Records
    BY <1>2, <1>5, <2>1 DEF WriteExplained, AskInv, NoClose
  <2> DEFINE why == ask[u].seen.diff
             status == IF ask[u].seen.status = "BLOCKED_ON_EXPLANATION" THEN "OPEN" ELSE ask[u].seen.status
  <2>3. why \in Int /\ status \in {"OPEN", "BLOCKED_ON_EXPLANATION", "CLOSED"}
    BY <2>1 DEF Records
  <2>4. close' = [close EXCEPT ![d].why = why, ![d].status = status]
    BY <1>5 DEF WriteExplained
  <2> HIDE DEF why, status
  <2>5. [close[d] EXCEPT !.why = why, !.status = status] \in Records
    BY <2>2, <2>3 DEF Records
  <2>6. close' = [close EXCEPT ![d] = [close[d] EXCEPT !.why = why, !.status = status]]
    BY <1>2, <2>1, <2>4
  <2>7. close' \in [Days -> {NoClose} \cup Records]
    BY <1>2, <2>5, <2>6
  <2>8. ask' \in [Users -> Asked] /\ UNCHANGED <<log, said>> /\ raced' \in SUBSET Days
    BY <1>2, <1>5, <2>1 DEF WriteExplained, Answer, Idle, Asked, Over
  <2> QED BY <1>2, <2>7, <2>8
<1>6. CASE WriteClosed(u)
  <2>1. d \in Days /\ ask[u].seen \in Records
    BY <1>2, <1>6 DEF WriteClosed, Asked, CountsAsked
  <2>2. close[d] \in Records
    BY <1>2, <1>6, <2>1 DEF WriteClosed, AskInv, NoClose
  <2>3. [close[d] EXCEPT !.status = "CLOSED"] \in Records
    BY <2>2 DEF Records
  <2>4. close' \in [Days -> {NoClose} \cup Records]
    BY <1>2, <1>6, <2>3 DEF WriteClosed
  <2>5. log' \in [Days -> Seq(Records)]
    BY <1>2, <1>6, <2>1 DEF WriteClosed
  <2>6. ask' \in [Users -> Asked]
    <3>1. [op |-> "tell", day |-> d, seen |-> ask[u].seen] \in Asked
      BY <2>1 DEF Asked
    <3> QED BY <1>2, <1>6, <3>1 DEF WriteClosed, Then
  <2>7. UNCHANGED said /\ raced' \in SUBSET Days
    BY <1>2, <1>6, <2>1 DEF WriteClosed, Over
  <2> QED BY <1>2, <2>4, <2>5, <2>6, <2>7
<1>7. CASE TellClosed(u)
  <2>1. d \in Days /\ ask[u].seen \in Records
    BY <1>2, <1>7 DEF TellClosed, Asked, CountsAsked
  <2>2. said' \in [Days -> Seq(Records)]
    BY <1>2, <1>7, <2>1 DEF TellClosed
  <2>3. ask' \in [Users -> Asked] /\ UNCHANGED <<close, log, raced>>
    BY <1>2, <1>7 DEF TellClosed, Answer, Idle, Asked
  <2> QED BY <1>2, <2>2, <2>3
<1> QED
  BY <1>3, <1>4, <1>5, <1>6, <1>7

-----------------------------------------------------------------------------
(* Sales in the ledger.                                                     *)
LEMMA CountedStays ==
    ASSUME SalesCountedOnce, UNCHANGED <<applied, total, byCashier>>,
           \A t \in applied : sale'[t].started = sale[t].started,
           \A t \in Sales : mail'[t] = "acked" => t \in applied
    PROVE  SalesCountedOnce'
<1>1. \A d \in Days : {t \in applied : sale'[t].started = d} = {t \in applied : sale[t].started = d}
  OBVIOUS
<1>2. \A d \in Days :
         LET counted == {t \in applied : sale'[t].started = d} IN
         /\ total'[d] = SumFunctionOnSet(Amount, counted)
         /\ \A c \in Cashiers : byCashier'[d][c] =
               SumFunctionOnSet(Amount, {t \in counted : Cashier[t] = c})
  BY <1>1 DEF SalesCountedOnce
<1> QED
  BY <1>2 DEF SalesCountedOnce

LEMMA TillSales ==
    ASSUME DayShape, SaleInv, TillStep
    PROVE  SaleInv'
<1>1. sale \in [Sales -> [status : {"none", "ringing", "COMPLETED", "RETURNED"},
                          started : 0..LastDay, saved : 0..LastDay]]
      /\ mail \in [Sales -> {"none", "queued", "taken", "again", "retaken", "acked", "dropped"}]
      /\ today \in Days /\ today # 0 /\ applied \subseteq Sales
  BY StoreDayAssumption DEF DayShape, DayTypeOK, Days
<1>2. CASE Midnight
  <2>1. UNCHANGED <<sale, mail, job, applied, total, byCashier>>
    BY <1>2 DEF Midnight, ledgerVars
  <2>2. SaleRows'
    BY <2>1 DEF SaleInv, SaleRows, Saved
  <2>3. SalesCountedOnce'
    BY <2>1, CountedStays DEF SaleInv, SalesCountedOnce
  <2> QED BY <2>2, <2>3 DEF SaleInv
<1>3. ASSUME NEW t \in Sales, RingUp(t)
      PROVE  SaleInv'
  <2>1. UNCHANGED <<mail, job, applied, total, byCashier>> /\ sale[t].status = "none"
    BY <1>3 DEF RingUp, ledgerVars
  <2>2. /\ sale'[t].status = "ringing" /\ sale'[t].started = today /\ sale'[t].saved = sale[t].saved
        /\ \A u \in Sales : u # t => sale'[u] = sale[u]
    BY <1>1, <1>3 DEF RingUp
  <2>3. SaleRows'
    BY <1>1, <2>1, <2>2 DEF SaleInv, SaleRows, Saved
  <2>4. t \notin applied
    BY <2>1 DEF SaleInv, SaleRows
  <2>5. SalesCountedOnce'
    BY <1>1, <2>1, <2>2, <2>4, CountedStays DEF SaleInv, SalesCountedOnce
  <2> QED BY <2>3, <2>5 DEF SaleInv
<1>4. ASSUME NEW t \in Sales, SaveSale(t)
      PROVE  SaleInv'
  <2>1. UNCHANGED <<mail, job, applied, total, byCashier>> /\ sale[t].status = "ringing"
    BY <1>4 DEF SaveSale, ledgerVars
  <2>2. /\ sale'[t].status = "COMPLETED" /\ sale'[t].started = sale[t].started /\ sale'[t].saved = today
        /\ \A u \in Sales : u # t => sale'[u] = sale[u]
    BY <1>1, <1>4 DEF SaveSale
  <2>3. SaleRows'
    BY <1>1, <2>1, <2>2 DEF SaleInv, SaleRows, Saved
  <2>5. SalesCountedOnce'
    BY <1>1, <2>1, <2>2, CountedStays DEF SaleInv, SalesCountedOnce
  <2> QED BY <2>3, <2>5 DEF SaleInv
<1>5. ASSUME NEW t \in Sales, AnnounceSale(t)
      PROVE  SaleInv'
  <2>1. UNCHANGED <<sale, job, applied, total, byCashier>>
    BY <1>5 DEF AnnounceSale, tillVars
  <2>2. Saved(t) /\ mail'[t] = "queued" /\ \A u \in Sales : u # t => mail'[u] = mail[u]
    BY <1>1, <1>5 DEF AnnounceSale, Saved
  <2>3. SaleRows'
    BY <1>1, <2>1, <2>2 DEF SaleInv, SaleRows, Saved
  <2>5. SalesCountedOnce'
    BY <1>1, <2>1, <2>2, CountedStays DEF SaleInv, SalesCountedOnce
  <2> QED BY <2>3, <2>5 DEF SaleInv
<1> QED
  BY <1>2, <1>3, <1>4, <1>5 DEF TillStep

LEMMA SalesRest ==
    ASSUME DayShape, SaleInv,
           \A t \in Sales : /\ sale'[t].saved = sale[t].saved /\ sale'[t].started = sale[t].started
                            /\ sale'[t].status = sale[t].status
                               \/ (Saved(t) /\ sale'[t].status = "RETURNED"),
           UNCHANGED <<mail, job, applied, total, byCashier>>
    PROVE  SaleInv'
<1>1. SaleRows'
  BY DEF SaleInv, SaleRows, Saved
<1>2. SalesCountedOnce'
  BY CountedStays DEF SaleInv, SalesCountedOnce, DayShape, DayTypeOK
<1> QED BY <1>1, <1>2 DEF SaleInv

LEMMA DeskSales ==
    ASSUME DayShape, SaleInv, ReturnInv, DeskStep
    PROVE  SaleInv'
<1>1. CASE BreakStep
  BY <1>1, BreakRests, SalesRest DEF ledgerVars
<1>2. ASSUME NEW r \in Returns, RequestStep(r)
      PROVE  SaleInv'
  <2>1. UNCHANGED <<mail, job, applied, total, byCashier>>
    BY <1>2 DEF RequestStep, ReadSale, CreateReturn, LookAgain, MarkReturned, TellReturned, ledgerVars
  <2>2. CASE MarkReturned(r)
    <3>1. Of(r) \in Sales /\ Saved(Of(r))
      BY <2>2, EntryFacts DEF MarkReturned, Goes, ReturnInv
    <3>2. sale' = [sale EXCEPT ![Of(r)].status = "RETURNED"]
      BY <2>2 DEF MarkReturned
    <3>3. sale \in [Sales -> [status : {"none", "ringing", "COMPLETED", "RETURNED"},
                              started : 0..LastDay, saved : 0..LastDay]]
      BY DEF DayShape, DayTypeOK
    <3>4. \A t \in Sales : /\ sale'[t].saved = sale[t].saved /\ sale'[t].started = sale[t].started
                           /\ sale'[t].status = sale[t].status
                              \/ (Saved(t) /\ sale'[t].status = "RETURNED")
      BY <3>1, <3>2, <3>3
    <3> QED BY <2>1, <3>4, SalesRest
  <2>3. CASE sale' = sale
    BY <2>1, <2>3, SalesRest
  <2> QED
    BY <1>2, <2>2, <2>3 DEF RequestStep, ReadSale, CreateReturn, LookAgain, TellReturned
<1> QED
  BY <1>1, <1>2 DEF DeskStep

LEMMA LedgerSales ==
    ASSUME DayShape, SaleInv, LedgerStep \/ AuditRestarts
    PROVE  SaleInv'
<1>1. /\ mail \in [Sales -> {"none", "queued", "taken", "again", "retaken", "acked", "dropped"}]
      /\ job \in [Sales -> [Slots -> [step : {"off", "check", "apply", "ack"}, live : BOOLEAN]]]
      /\ total \in [Days -> Nat] /\ byCashier \in [Days -> [Cashiers -> Nat]] /\ applied \subseteq Sales
  BY DEF DayShape, DayTypeOK
<1>2. UNCHANGED sale
  BY DEF LedgerStep, Deliver, CheckApplied, ApplySale, Ack, Throws, ChannelLost, AuditRestarts, tillVars
<1>3. ASSUME UNCHANGED <<applied, total, byCashier>>,
             \A t \in Sales : /\ mail[t] # "none" => mail'[t] # "none"
                              /\ mail'[t] # "none" => mail[t] # "none"
                              /\ mail'[t] = "acked" => t \in applied,
             \A t \in Sales, i \in Slots : /\ job'[t][i].step # "off" => mail'[t] # "none"
                                           /\ job'[t][i].step = "ack" => t \in applied
      PROVE  SaleInv'
  <2>1. SaleRows'
    BY <1>2, <1>3 DEF SaleInv, SaleRows, Saved
  <2>2. SalesCountedOnce'
    BY <1>2, <1>3, CountedStays DEF SaleInv
  <2> QED BY <2>1, <2>2 DEF SaleInv
<1>4. ASSUME NEW t \in Sales, NEW i \in Slots, Deliver(t, i) \/ CheckApplied(t, i) \/ Ack(t, i) \/ Throws(t, i)
      PROVE  SaleInv'
  <2>1. UNCHANGED <<opened, total, byCashier, applied>>
    BY <1>4 DEF Deliver, CheckApplied, Ack, Throws
  <2>2. \A u \in Sales : u # t => mail'[u] = mail[u] /\ job'[u] = job[u]
    BY <1>1, <1>4 DEF Deliver, CheckApplied, Ack, Throws, Step
  <2>3. \A j \in Slots : j # i => job'[t][j] = job[t][j]
    BY <1>1, <1>4 DEF Deliver, CheckApplied, Ack, Throws, Step
  <2>4. mail[t] # "none"
    BY <1>4 DEF Deliver, CheckApplied, Ack, Throws, At, SaleInv, SaleRows
  <2>5. mail'[t] # "none" /\ (mail'[t] = "acked" => t \in applied)
    BY <1>1, <1>4, <2>4 DEF Deliver, CheckApplied, Ack, Throws, At, Refused, SaleInv, SaleRows, SalesCountedOnce
  <2>6. job'[t][i].step = "ack" => t \in applied
    BY <1>1, <1>4 DEF Deliver, CheckApplied, Ack, Throws, Step, Off
  <2>7. /\ \A u \in Sales : /\ mail[u] # "none" => mail'[u] # "none"
                            /\ mail'[u] # "none" => mail[u] # "none"
                            /\ mail'[u] = "acked" => u \in applied
        /\ \A u \in Sales, j \in Slots : /\ job'[u][j].step # "off" => mail'[u] # "none"
                                         /\ job'[u][j].step = "ack" => u \in applied
    BY <2>2, <2>3, <2>4, <2>5, <2>6 DEF SaleInv, SaleRows, SalesCountedOnce
  <2> QED BY <1>3, <2>1, <2>7
<1>5. CASE ChannelLost \/ AuditRestarts
  <2>1. UNCHANGED <<opened, total, byCashier, applied>> /\ mail' = BackToQueue
    BY <1>5 DEF ChannelLost, AuditRestarts
  <2>2. \A t \in Sales : /\ mail[t] # "none" => mail'[t] # "none"
                         /\ mail'[t] # "none" => mail[t] # "none"
                         /\ mail'[t] = "acked" => mail[t] = "acked"
    BY <2>1 DEF BackToQueue
  <2>3. \A t \in Sales, i \in Slots : job'[t][i].step \in {job[t][i].step, "off"}
    <3>1. CASE ChannelLost
      <4>1. job' = [t \in Sales |-> [i \in Slots |-> [job[t][i] EXCEPT !.live = FALSE]]]
        BY <3>1 DEF ChannelLost
      <4>2. \A t \in Sales, i \in Slots : job'[t][i] = [job[t][i] EXCEPT !.live = FALSE]
        BY <4>1
      <4>3. \A t \in Sales, i \in Slots : job[t][i] \in [step : {"off", "check", "apply", "ack"}, live : BOOLEAN]
        BY <1>1
      <4>4. ASSUME NEW j, j \in [step : {"off", "check", "apply", "ack"}, live : BOOLEAN]
            PROVE  [j EXCEPT !.live = FALSE].step = j.step
        BY <4>4
      <4>5. \A t \in Sales, i \in Slots : job'[t][i].step = job[t][i].step
        BY <4>2, <4>3, <4>4
      <4> QED BY <4>5
    <3>2. CASE AuditRestarts
      BY <3>2 DEF AuditRestarts, Off
    <3> QED BY <1>5, <3>1, <3>2
  <2>4. /\ \A u \in Sales : /\ mail[u] # "none" => mail'[u] # "none"
                            /\ mail'[u] # "none" => mail[u] # "none"
                            /\ mail'[u] = "acked" => u \in applied
        /\ \A u \in Sales, j \in Slots : /\ job'[u][j].step # "off" => mail'[u] # "none"
                                         /\ job'[u][j].step = "ack" => u \in applied
    BY <2>2, <2>3 DEF SaleInv, SaleRows, SalesCountedOnce
  <2> QED BY <1>3, <2>1, <2>4
<1>6. ASSUME NEW t \in Sales, NEW i \in Slots, ApplySale(t, i)
      PROVE  SaleInv'
  <2> DEFINE d == sale[t].started
             c == Cashier[t]
  <2>1. /\ total' = [total EXCEPT ![d] = @ + Amount[t]]
        /\ byCashier' = [byCashier EXCEPT ![d][c] = @ + Amount[t]]
        /\ applied' = applied \cup {t} /\ job' = [job EXCEPT ![t][i].step = "ack"]
        /\ UNCHANGED mail /\ t \notin applied
    BY <1>6 DEF ApplySale, AddSale, Step
  <2>2. mail[t] # "none"
    BY <1>6 DEF ApplySale, At, SaleInv, SaleRows
  <2>3. d \in Days /\ c \in Cashiers
    BY <2>2, StoreDayAssumption DEF SaleInv, SaleRows, Saved, Cashiers
  <2>4. \A u \in Sales, j \in Slots : /\ job'[u][j].step # "off" => job[u][j].step # "off" \/ u = t
                                      /\ job'[u][j].step = "ack" => job[u][j].step = "ack" \/ u = t
    BY <1>1, <2>1
  <2>5. SaleRows'
    BY <1>1, <1>2, <2>1, <2>2, <2>4 DEF SaleInv, SaleRows, Saved
  <2>6. ASSUME NEW S \in SUBSET applied
        PROVE  SumFunctionOnSet(Amount, S \cup {t}) = Amount[t] + SumFunctionOnSet(Amount, S)
    <3>1. IsFiniteSet(S) /\ t \notin S
      BY <1>1, <2>1, StoreDayAssumption, FS_Subset
    <3>2. Ints(Amount, S \cup {t})
      BY <1>1, Amounts DEF Ints
    <3> QED BY <3>1, <3>2, SumInsert
  <2> HIDE DEF d, c
  <2>7. ASSUME NEW e \in Days
        PROVE  LET counted == {u \in applied' : sale'[u].started = e} IN
               /\ total'[e] = SumFunctionOnSet(Amount, counted)
               /\ \A k \in Cashiers : byCashier'[e][k] =
                     SumFunctionOnSet(Amount, {u \in counted : Cashier[u] = k})
    <3> DEFINE S == {u \in applied : sale[u].started = e}
               T == {u \in applied' : sale'[u].started = e}
               SC(k) == {u \in S : Cashier[u] = k}
               TC(k) == {u \in T : Cashier[u] = k}
    <3>0. sale[t].started = d /\ Cashier[t] = c
      BY DEF d, c
    <3>1. /\ total[e] = SumFunctionOnSet(Amount, S) /\ S \in SUBSET applied
          /\ \A k \in Cashiers : byCashier[e][k] = SumFunctionOnSet(Amount, SC(k)) /\ SC(k) \in SUBSET applied
      BY DEF SaleInv, SalesCountedOnce
    <3>2. CASE e = d
      <4>1. T = S \cup {t}
        BY <1>2, <2>1, <3>0, <3>2
      <4>2. TC(c) = SC(c) \cup {t} /\ \A k \in Cashiers : k # c => TC(k) = SC(k)
        BY <3>0, <4>1
      <4>3. total'[e] = total[e] + Amount[t] /\ total[e] \in Nat /\ Amount[t] \in Nat
        BY <1>1, <2>1, <3>2, Amounts
      <4>4. /\ byCashier'[e][c] = byCashier[e][c] + Amount[t] /\ byCashier[e][c] \in Nat
            /\ \A k \in Cashiers : k # c => byCashier'[e][k] = byCashier[e][k]
        BY <1>1, <2>1, <2>3, <3>2
      <4> HIDE DEF S, T, SC, TC
      <4>5. total'[e] = SumFunctionOnSet(Amount, T)
        BY <2>6, <3>1, <4>1, <4>3
      <4>6. byCashier'[e][c] = SumFunctionOnSet(Amount, TC(c))
        BY <2>3, <2>6, <3>1, <4>2, <4>3, <4>4
      <4>7. \A k \in Cashiers : byCashier'[e][k] = SumFunctionOnSet(Amount, TC(k))
        BY <3>1, <4>2, <4>4, <4>6
      <4> QED BY <4>5, <4>7 DEF T, TC
    <3>3. CASE e # d
      <4>1. T = S
        BY <1>2, <2>1, <3>0, <3>3
      <4>2. \A k \in Cashiers : TC(k) = SC(k)
        BY <4>1
      <4>3. total'[e] = total[e] /\ byCashier'[e] = byCashier[e]
        BY <1>1, <2>1, <3>3
      <4> HIDE DEF S, T, SC, TC
      <4>4. total'[e] = SumFunctionOnSet(Amount, T)
        BY <3>1, <4>1, <4>3
      <4>5. \A k \in Cashiers : byCashier'[e][k] = SumFunctionOnSet(Amount, TC(k))
        BY <3>1, <4>2, <4>3
      <4> QED BY <4>4, <4>5 DEF T, TC
    <3> QED BY <3>2, <3>3
  <2>8. \A u \in Sales : mail'[u] = "acked" => u \in applied'
    BY <2>1 DEF SaleInv, SalesCountedOnce
  <2>9. SalesCountedOnce'
    BY <2>7, <2>8 DEF SalesCountedOnce
  <2> QED BY <2>5, <2>9 DEF SaleInv
<1> QED
  BY <1>4, <1>5, <1>6 DEF LedgerStep

-----------------------------------------------------------------------------
(* Returns.  A line has what its written entries took, and no more than was *)
(* sold when every return of it was checked by itself.                      *)
LineFits(l) ==
    /\ back[l] = SumFunctionOnSet(Wanted, Made(l))
    /\ l \notin crossed /\ ~ ListedTwice(l) => back[l] <= Sold[l]
SaleDone(t) ==
    /\ sale[t].status = "RETURNED" => AllBack(t)
    /\ Saved(t) /\ AllBack(t) =>
          \/ sale[t].status = "RETURNED"
          \/ \E r \in Returns : Of(r) = t /\ desk[r].step \in {"look", "mark"}

LEMMA FitSplit ==
    ReturnsFitTheSale <=> (\A l \in Lines : LineFits(l)) /\ \A t \in Sales : SaleDone(t)
<1>1. \A l \in Lines : FairShare(l, Made(l))
  <2>1. ASSUME NEW l \in Lines PROVE FairShare(l, Made(l))
    <3>1. Made(l) \in SUBSET Entries /\ \A e \in Made(l) : Names[e] = l
      BY DEF Made
    <3> QED BY <3>1, ShareOfEntries
  <2> QED BY <2>1
<1> QED
  BY <1>1 DEF ReturnsFitTheSale, LineFits, SaleDone, Saved

LEMMA FitJoin ==
    ASSUME \A l \in Lines : LineFits(l)', \A t \in Sales : SaleDone(t)'
    PROVE  ReturnsFitTheSale'
<1>1. \A l \in Lines : FairShare(l, Made(l))'
  <2>1. ASSUME NEW l \in Lines PROVE FairShare(l, Made(l))'
    <3> DEFINE S == Made(l)'
    <3>1. S \in SUBSET Entries /\ \A e \in S : Names[e] = l
      BY DEF Made
    <3> HIDE DEF S
    <3>2. FairShare(l, S)
      BY <3>1, ShareOfEntries
    <3> QED BY <3>2 DEF FairShare, S
  <2> QED BY <2>1
<1> QED
  BY <1>1 DEF ReturnsFitTheSale, LineFits, SaleDone, Saved

(* A sum over two sets of indices that have none in common.                 *)
LEMMA SumTwo ==
    ASSUME NEW f, NEW S, NEW T, IsFiniteSet(S), IsFiniteSet(T), S \cap T = {},
           \A x \in S \cup T : f[x] \in Int
    PROVE  SumFunctionOnSet(f, S \cup T) = SumFunctionOnSet(f, S) + SumFunctionOnSet(f, T)
<1> DEFINE U == S \cup T
           g == [x \in U |-> IF x \in S THEN f[x] ELSE 0]
           h == [x \in U |-> IF x \in T THEN f[x] ELSE 0]
<1>1. IsFiniteSet(U)
  BY FS_Union
<1>2. /\ S \in SUBSET U /\ T \in SUBSET U
      /\ Ints(f, S) /\ Ints(f, T) /\ Ints(g, U) /\ Ints(h, U)
  BY DEF Ints
<1>3. /\ \A x \in U : g[x] = IF x \in S THEN f[x] ELSE 0
      /\ \A x \in U : h[x] = IF x \in T THEN f[x] ELSE 0
  OBVIOUS
<1>4. \A x \in U : f[x] = g[x] + h[x]
  OBVIOUS
<1> HIDE DEF U, g, h
<1>5. SumFunctionOnSet(f, U) = SumFunctionOnSet(g, U) + SumFunctionOnSet(h, U)
  BY <1>1, <1>2, <1>4, SumPlus
<1>6. SumFunctionOnSet(f, S) = SumFunctionOnSet(g, U)
  BY <1>1, <1>2, <1>3, SumOver
<1>7. SumFunctionOnSet(f, T) = SumFunctionOnSet(h, U)
  BY <1>1, <1>2, <1>3, SumOver
<1> QED
  BY <1>5, <1>6, <1>7 DEF U

(* A line listed once is taken by that entry.                               *)
LEMMA OneEntry ==
    ASSUME NEW r \in Returns, NEW l \in Lines, NEW e \in Naming(r, l),
           \A f \in Naming(r, l) : f = e
    PROVE  Units(r, l) = Wanted[e]
<1>1. Naming(r, l) = {} \cup {e} /\ IsFiniteSet({}) /\ e \notin {}
  BY FS_EmptySet
<1>2. Wanted[e] \in Nat
  BY NamingFacts, EntryFacts
<1>3. Ints(Wanted, {} \cup {e})
  BY <1>2 DEF Ints
<1>4. SumFunctionOnSet(Wanted, {} \cup {e}) = Wanted[e] + SumFunctionOnSet(Wanted, {})
  BY <1>1, <1>3, SumInsert
<1>5. SumFunctionOnSet(Wanted, {}) = 0
  BY SumEmpty
<1> QED
  BY <1>1, <1>2, <1>4, <1>5 DEF Units

(* One return more: the units of its entries join the sum of its lines.     *)
LEMMA WriteFits ==
    ASSUME DayShape, ReturnInv, NEW r \in Returns, CreateReturn(r), paid'[r] # 0,
           NEW l \in Lines
    PROVE  LineFits(l)'
<1> DEFINE made == Made(l)
           more == Naming(r, l)
<1>1. /\ back \in [Lines -> Nat] /\ crossed \subseteq Lines
      /\ desk[r].step = "write" /\ paid[r] = 0
      /\ \A x \in Returns : x # r => paid'[x] = paid[x]
  BY DEF CreateReturn, Goes, ReturnInv, DayShape, DayTypeOK
<1>2. LineFits(l)
  BY FitSplit DEF ReturnInv
<1>3. /\ IsFiniteSet(more) /\ more \in SUBSET Entries /\ Units(r, l) \in Nat
      /\ \A e \in more : RequestOf[e] = r /\ Names[e] = l
      /\ more = {} => Units(r, l) = 0
  BY NamingFacts
<1>4. back'[l] = back[l] + Units(r, l) /\ back[l] \in Nat
  BY <1>1 DEF CreateReturn
<1>5. made \in SUBSET Entries /\ IsFiniteSet(made) /\ made \cap more = {}
  <2>1. made \in SUBSET Entries
    BY DEF Made
  <2> QED BY <1>1, <1>3, <2>1, EntryFacts, FS_Subset DEF Made
<1>6. Made(l)' = made \cup more
  <2>1. \A e \in Entries : RequestOf[e] = r /\ Names[e] = l <=> e \in more
    BY DEF Naming, EntriesOf
  <2>2. \A e \in Entries : RequestOf[e] \in Returns
    BY EntryFacts
  <2> QED BY <1>1, <1>3, <2>1, <2>2 DEF Made
<1>7. \A e \in made \cup more : Wanted[e] \in Int
  BY <1>3, <1>5, EntryFacts
<1>8. back[l] = SumFunctionOnSet(Wanted, made)
  BY <1>2 DEF LineFits
<1>9. Units(r, l) = SumFunctionOnSet(Wanted, more)
  BY DEF Units
<1>10. ASSUME l \notin crossed', ~ ListedTwice(l)'
       PROVE  back'[l] <= Sold[l]
  <2>1. l \notin crossed /\ (more # {} => back[l] = desk[r].seen[l])
    BY <1>10 DEF CreateReturn
  <2>2. \A e, f \in more : e = f
    BY <1>10 DEF ListedTwice
  <2>3. ~ ListedTwice(l)
    BY <1>1, <1>10 DEF ListedTwice
  <2>4. back[l] <= Sold[l]
    BY <1>2, <2>1, <2>3 DEF LineFits
  <2>5. CASE more = {}
    BY <1>3, <1>4, <2>4, <2>5
  <2>6. CASE more # {}
    <3>1. PICK e \in more : \A f \in more : f = e
      BY <2>2, <2>6
    <3>2. Units(r, l) = Wanted[e]
      BY <3>1, OneEntry
    <3>3. e \in EntriesOf(r) /\ Names[e] = l
      BY <3>1 DEF Naming
    <3>4. desk[r].seen[Names[e]] + Wanted[e] <= Sold[Names[e]]
      BY <1>1, <3>3 DEF ReturnInv
    <3> QED BY <1>4, <2>1, <2>6, <3>2, <3>3, <3>4
  <2> QED BY <2>5, <2>6
<1> HIDE DEF made, more
<1>11. SumFunctionOnSet(Wanted, made \cup more)
           = SumFunctionOnSet(Wanted, made) + SumFunctionOnSet(Wanted, more)
  BY <1>3, <1>5, <1>7, SumTwo
<1> QED
  BY <1>4, <1>6, <1>8, <1>9, <1>10, <1>11 DEF LineFits

(* The tables of returns as they were, and sales at most saved or marked.   *)
LEMMA ReturnsRest ==
    ASSUME ReturnInv, UNCHANGED <<back, desk, paid, crossed, sale>>
    PROVE  ReturnInv'
<1>1. \A l \in Lines : Made(l)' = Made(l) /\ (ListedTwice(l)' <=> ListedTwice(l))
  BY DEF Made, ListedTwice
<1>2. (\A l \in Lines : LineFits(l)) /\ \A t \in Sales : SaleDone(t)
  BY FitSplit DEF ReturnInv
<1>3. (\A l \in Lines : LineFits(l)') /\ \A t \in Sales : SaleDone(t)'
  BY <1>1, <1>2 DEF LineFits, SaleDone, Saved, AllBack
<1>4. ReturnsFitTheSale'
  BY <1>3, FitJoin
<1> QED
  BY <1>4 DEF ReturnInv, Saved, AllBack

LEMMA TillReturns ==
    ASSUME DayShape, SaleInv, ReturnInv, TillStep
    PROVE  ReturnInv'
<1>1. UNCHANGED <<back, desk, paid, crossed>>
  BY DEF TillStep, Midnight, RingUp, SaveSale, AnnounceSale, tillVars
<1>2. sale \in [Sales -> [status : {"none", "ringing", "COMPLETED", "RETURNED"},
                          started : 0..LastDay, saved : 0..LastDay]]
      /\ today # 0
  BY StoreDayAssumption DEF DayShape, DayTypeOK, Days
<1>3. ASSUME NEW t \in Sales, ~ Saved(t), sale[t].status # "RETURNED", sale'[t].status # "RETURNED",
             \A u \in Sales : u # t => sale'[u] = sale[u]
      PROVE  ReturnInv'
  <2>1. ~ AllBack(t)
    <3>1. PICK l \in LinesOf(t) : back[l] = 0
      BY <1>3, StoreDayAssumption DEF ReturnInv
    <3>2. Sold[l] \in Nat \ {0}
      BY <3>1, LineFacts DEF LinesOf
    <3>3. ~ (back[l] >= Sold[l])
      BY <3>1, <3>2
    <3> QED BY <3>1, <3>3 DEF AllBack
  <2>2. \A u \in Sales : AllBack(u)' <=> AllBack(u)
    BY <1>1 DEF AllBack
  <2>3. \A l \in Lines : LineFits(l)'
    BY <1>1, FitSplit DEF ReturnInv, LineFits, Made, ListedTwice
  <2>4. \A u \in Sales : SaleDone(u)'
    <3>1. \A u \in Sales : SaleDone(u)
      BY FitSplit DEF ReturnInv
    <3>2. ASSUME NEW u \in Sales PROVE SaleDone(u)'
      <4>1. CASE u = t
        BY <1>3, <2>1, <2>2, <4>1 DEF SaleDone
      <4>2. CASE u # t
        <5>1. sale'[u] = sale[u] /\ (AllBack(u)' <=> AllBack(u)) /\ SaleDone(u)
          BY <1>3, <2>2, <3>1, <4>2
        <5> QED BY <1>1, <5>1 DEF SaleDone, Saved
      <4> QED BY <4>1, <4>2
    <3> QED BY <3>2
  <2>5. ReturnsFitTheSale'
    BY <2>3, <2>4, FitJoin
  <2>6. \A r \in Returns : Saved(Of(r)) => Saved(Of(r))'
    BY <1>3, EntryFacts DEF Saved
  <2>7. \A u \in Sales : ~ Saved(u)' => \A l \in LinesOf(u) : back'[l] = 0
    <3>1. \A u \in Sales : ~ Saved(u)' => ~ Saved(u)
      BY <1>3 DEF Saved
    <3> QED BY <1>1, <3>1 DEF ReturnInv
  <2>8. \A r \in Returns :
          /\ paid'[r] # 0 <=> desk'[r].step \notin {"idle", "write"}
          /\ desk'[r].step # "idle" => Saved(Of(r))'
          /\ desk'[r].step = "write" =>
                \A e \in EntriesOf(r) : desk'[r].seen[Names[e]] + Wanted[e] <= Sold[Names[e]]
          /\ desk'[r].step = "mark" => AllBack(Of(r))'
    BY <1>1, <2>2, <2>6, EntryFacts DEF ReturnInv
  <2> QED BY <2>5, <2>7, <2>8 DEF ReturnInv
<1>4. CASE Midnight
  BY <1>1, <1>4, ReturnsRest DEF Midnight
<1>5. ASSUME NEW t \in Sales, RingUp(t) \/ SaveSale(t)
      PROVE  ReturnInv'
  <2>1. ~ Saved(t) /\ sale[t].status # "RETURNED"
    BY <1>5 DEF RingUp, SaveSale, SaleInv, SaleRows
  <2>2. sale'[t].status # "RETURNED" /\ \A u \in Sales : u # t => sale'[u] = sale[u]
    BY <1>2, <1>5 DEF RingUp, SaveSale
  <2> QED BY <1>3, <2>1, <2>2
<1>6. ASSUME NEW t \in Sales, AnnounceSale(t)
      PROVE  ReturnInv'
  BY <1>1, <1>6, ReturnsRest DEF AnnounceSale, tillVars
<1> QED
  BY <1>4, <1>5, <1>6 DEF TillStep

LEMMA RequestReturns ==
    ASSUME DayShape, SaleInv, ReturnInv, NEW r \in Returns, RequestStep(r)
    PROVE  ReturnInv'
<1>1. ReadSale(r) \/ CreateReturn(r) \/ LookAgain(r) \/ MarkReturned(r) \/ TellReturned(r)
  BY DEF RequestStep
<1>2. /\ sale \in [Sales -> [status : {"none", "ringing", "COMPLETED", "RETURNED"},
                             started : 0..LastDay, saved : 0..LastDay]]
      /\ today # 0 /\ back \in [Lines -> Nat] /\ crossed \subseteq Lines
      /\ desk \in [Returns -> DeskStates] /\ paid \in [Returns -> 0..LastDay]
  BY StoreDayAssumption DEF DayShape, DayTypeOK, Days
<1>3. \A x \in Returns : x # r => desk'[x] = desk[x] /\ paid'[x] = paid[x]
  BY <1>1, <1>2 DEF ReadSale, CreateReturn, LookAgain, MarkReturned, TellReturned, Goto
<1>4. \A t \in Sales : sale'[t].saved = sale[t].saved
  BY <1>1, <1>2 DEF ReadSale, CreateReturn, LookAgain, MarkReturned, TellReturned
<1>5. /\ Of(r) \in Sales
      /\ \A e \in EntriesOf(r) : Names[e] \in Lines /\ Wanted[e] \in Nat
      /\ \A l \in Lines : /\ Units(r, l) \in Nat /\ Sold[l] \in Nat
                          /\ SaleOf[l] # Of(r) => Units(r, l) = 0
  BY EntryFacts, NamingFacts, LineFacts DEF EntriesOf
<1>6. (\A l \in Lines : LineFits(l)) /\ \A t \in Sales : SaleDone(t)
  BY FitSplit DEF ReturnInv
<1>7. CASE ReadSale(r)
  <2>1. UNCHANGED <<sale, back, paid, crossed>> /\ desk[r].step = "idle" /\ Saved(Of(r))
    BY <1>7 DEF ReadSale, Goes, Saved
  <2>2. desk'[r] = [step |-> "write", seen |-> back]
    BY <1>2, <1>7 DEF ReadSale
  <2>3. \A e \in EntriesOf(r) : back[Names[e]] + Wanted[e] <= Sold[Names[e]]
    <3>1. \A e \in EntriesOf(r) : back[Names[e]] \in Nat /\ Wanted[e] \in Nat /\ Sold[Names[e]] \in Nat
      BY <1>2, <1>5
    <3> QED BY <1>7, <3>1 DEF ReadSale
  <2>4. \A x \in Returns :
          /\ paid'[x] # 0 <=> desk'[x].step \notin {"idle", "write"}
          /\ desk'[x].step # "idle" => Saved(Of(x))'
          /\ desk'[x].step = "write" =>
                \A e \in EntriesOf(x) : desk'[x].seen[Names[e]] + Wanted[e] <= Sold[Names[e]]
          /\ desk'[x].step = "mark" => AllBack(Of(x))'
    BY <1>3, <2>1, <2>2, <2>3 DEF ReturnInv, Saved, AllBack
  <2>5. \A l \in Lines : LineFits(l)'
    BY <1>6, <2>1 DEF LineFits, Made, ListedTwice
  <2>6. \A t \in Sales : SaleDone(t)'
    <3>1. \A x \in Returns : desk[x].step \in {"look", "mark"} => desk'[x].step \in {"look", "mark"}
      BY <1>3, <2>1
    <3> QED BY <1>6, <2>1, <3>1 DEF SaleDone, Saved, AllBack
  <2>7. \A t \in Sales : ~ Saved(t)' => \A l \in LinesOf(t) : back'[l] = 0
    BY <2>1 DEF ReturnInv, Saved
  <2>8. ReturnsFitTheSale'
    BY <2>5, <2>6, FitJoin
  <2> QED BY <2>4, <2>7, <2>8 DEF ReturnInv
<1>8. CASE CreateReturn(r)
  <2>1. UNCHANGED sale /\ desk[r].step = "write" /\ Saved(Of(r)) /\ paid[r] = 0
    BY <1>8 DEF CreateReturn, Goes, ReturnInv
  <2>2. desk' = [desk EXCEPT ![r].step = "look"] /\ desk'[r].step = "look" /\ paid'[r] # 0
    BY <1>2, <1>8 DEF CreateReturn, Goto
  <2>3. /\ \A l \in Lines : SaleOf[l] # Of(r) => back'[l] = back[l]
        /\ \A l \in Lines : back[l] <= back'[l]
    <3>1. back' = [l \in Lines |-> back[l] + Units(r, l)]
      BY <1>8 DEF CreateReturn
    <3> QED BY <1>2, <1>5, <3>1
  <2>4. \A t \in Sales : AllBack(t) => AllBack(t)'
    <3>1. \A l \in Lines : back[l] \in Nat /\ back'[l] \in Nat /\ Sold[l] \in Nat
      <4>1. back' \in [Lines -> Nat]
        BY RequestShape DEF DayShape, DayTypeOK
      <4> QED BY <1>2, <1>5, <4>1
    <3> QED BY <2>3, <3>1 DEF AllBack, LinesOf
  <2>5. \A x \in Returns :
          /\ paid'[x] # 0 <=> desk'[x].step \notin {"idle", "write"}
          /\ desk'[x].step # "idle" => Saved(Of(x))'
          /\ desk'[x].step = "write" =>
                \A e \in EntriesOf(x) : desk'[x].seen[Names[e]] + Wanted[e] <= Sold[Names[e]]
          /\ desk'[x].step = "mark" => AllBack(Of(x))'
    BY <1>3, <2>1, <2>2, <2>4, EntryFacts DEF ReturnInv, Saved
  <2>6. \A t \in Sales : SaleDone(t)'
    <3>1. \A t \in Sales : t # Of(r) => (AllBack(t)' <=> AllBack(t))
      <4>1. \A t \in Sales : t # Of(r) => \A l \in LinesOf(t) : l \in Lines /\ SaleOf[l] # Of(r)
        BY DEF LinesOf
      <4> QED BY <2>3, <4>1 DEF AllBack
    <3>2. \A x \in Returns : desk[x].step \in {"look", "mark"} => desk'[x].step \in {"look", "mark"}
      BY <1>3, <2>1
    <3>3. ASSUME NEW t \in Sales PROVE SaleDone(t)'
      <4>1. SaleDone(t) /\ UNCHANGED sale
        BY <1>6, <2>1
      <4>2. CASE t = Of(r)
        BY <2>2, <2>4, <4>1, <4>2 DEF SaleDone
      <4>3. CASE t # Of(r)
        <5>1. AllBack(t)' <=> AllBack(t)
          BY <3>1, <4>3
        <5> QED BY <3>2, <4>1, <5>1 DEF SaleDone, Saved
      <4> QED BY <4>2, <4>3
    <3> QED BY <3>3
  <2>7. \A t \in Sales : ~ Saved(t)' => \A l \in LinesOf(t) : back'[l] = 0
    <3>1. \A t \in Sales : ~ Saved(t)' => ~ Saved(t) /\ t # Of(r)
      BY <2>1 DEF Saved
    <3>2. \A t \in Sales : t # Of(r) => \A l \in LinesOf(t) : l \in Lines /\ SaleOf[l] # Of(r)
      BY DEF LinesOf
    <3> QED BY <2>3, <3>1, <3>2 DEF ReturnInv
  <2>8. \A l \in Lines : LineFits(l)'
    BY <1>8, <2>2, WriteFits
  <2>9. ReturnsFitTheSale'
    BY <2>6, <2>8, FitJoin
  <2> QED BY <2>5, <2>7, <2>9 DEF ReturnInv
<1>9. CASE LookAgain(r) \/ MarkReturned(r) \/ TellReturned(r)
  <2>1. UNCHANGED <<back, paid, crossed>> /\ desk[r].step \in {"look", "mark", "tell"}
    BY <1>9 DEF LookAgain, MarkReturned, TellReturned, Goes
  <2>2. /\ desk'[r].step \in {"mark", "tell", "done"}
        /\ desk'[r].step = "mark" => AllBack(Of(r))
        /\ desk[r].step = "mark" => desk'[r].step = "tell" /\ sale'[Of(r)].status = "RETURNED" /\ AllBack(Of(r))
        /\ desk[r].step = "look" /\ desk'[r].step # "mark" => ~ AllBack(Of(r))
        /\ desk[r].step # "mark" => sale' = sale
    <3>1. CASE LookAgain(r)
      <4>1. UNCHANGED sale /\ desk[r].step = "look"
        BY <3>1 DEF LookAgain, Goes
      <4>2. desk'[r].step = IF AllBack(Of(r)) THEN "mark" ELSE "tell"
        BY <1>2, <3>1 DEF LookAgain, Goto
      <4> QED BY <4>1, <4>2
    <3>2. CASE MarkReturned(r)
      BY <1>2, <1>5, <3>2 DEF MarkReturned, Goes, Goto, ReturnInv
    <3>3. CASE TellReturned(r)
      BY <1>2, <1>5, <3>3 DEF TellReturned, Goes, Goto
    <3> QED BY <1>9, <3>1, <3>2, <3>3
  <2>3. \A t \in Sales : AllBack(t)' <=> AllBack(t)
    BY <2>1 DEF AllBack
  <2>4. \A x \in Returns :
          /\ paid'[x] # 0 <=> desk'[x].step \notin {"idle", "write"}
          /\ desk'[x].step # "idle" => Saved(Of(x))'
          /\ desk'[x].step = "write" =>
                \A e \in EntriesOf(x) : desk'[x].seen[Names[e]] + Wanted[e] <= Sold[Names[e]]
          /\ desk'[x].step = "mark" => AllBack(Of(x))'
    BY <1>3, <1>4, <2>1, <2>2, <2>3, EntryFacts DEF ReturnInv, Saved
  <2>5. \A l \in Lines : LineFits(l)'
    BY <1>6, <2>1 DEF LineFits, Made, ListedTwice
  <2>6. \A t \in Sales : SaleDone(t)'
    <3>1. ASSUME NEW t \in Sales PROVE SaleDone(t)'
      <4>1. SaleDone(t) /\ (AllBack(t)' <=> AllBack(t)) /\ (Saved(t)' <=> Saved(t))
        BY <1>4, <1>6, <2>3 DEF Saved
      <4>2. t # Of(r) => sale'[t] = sale[t]
        BY <1>2, <1>5, <1>9 DEF LookAgain, MarkReturned, TellReturned
      <4>3. CASE t = Of(r) /\ desk[r].step = "mark"
        BY <2>2, <2>3, <4>3 DEF SaleDone
      <4>4. CASE t # Of(r)
        <5>1. \A x \in Returns : Of(x) = t => desk'[x] = desk[x]
          BY <1>3, <4>4
        <5> QED BY <4>1, <4>2, <4>4, <5>1 DEF SaleDone
      <4>5. CASE t = Of(r) /\ desk[r].step # "mark"
        <5>1. sale' = sale
          BY <2>2, <4>5
        <5>2. AllBack(t) => (desk[r].step = "look" => desk'[r].step = "mark")
          BY <2>2, <4>5
        <5>3. \A x \in Returns : AllBack(t) /\ desk[x].step \in {"look", "mark"} /\ Of(x) = t =>
                  desk'[x].step \in {"look", "mark"}
          BY <1>3, <4>5, <5>2
        <5> QED BY <4>1, <5>1, <5>3 DEF SaleDone
      <4> QED BY <4>3, <4>4, <4>5
    <3> QED BY <3>1
  <2>7. \A t \in Sales : ~ Saved(t)' => \A l \in LinesOf(t) : back'[l] = 0
    BY <1>4, <2>1 DEF ReturnInv, Saved
  <2>8. ReturnsFitTheSale'
    BY <2>5, <2>6, FitJoin
  <2> QED BY <2>4, <2>7, <2>8 DEF ReturnInv
<1> QED
  BY <1>1, <1>7, <1>8, <1>9

LEMMA DeskReturns ==
    ASSUME DayShape, SaleInv, ReturnInv, DeskStep
    PROVE  ReturnInv'
<1>1. CASE BreakStep
  BY <1>1, BreakRests, ReturnsRest
<1> QED
  BY <1>1, RequestReturns DEF DeskStep

-----------------------------------------------------------------------------
(* The close.  What is taken and refunded on a day only grows.              *)
LEMMA SumsGrow ==
    ASSUME \A t \in Sales : sale[t].saved # 0 => sale'[t].saved = sale[t].saved,
           \A r \in Returns : paid[r] # 0 => paid'[r] = paid[r]
    PROVE  \A d \in Days : /\ Taken(d) \in Nat /\ Taken(d)' \in Nat /\ Taken(d) <= Taken(d)'
                           /\ Refunded(d) \in Nat /\ Refunded(d)' \in Nat /\ Refunded(d) <= Refunded(d)'
<1> SUFFICES ASSUME NEW d \in Days
             PROVE  /\ Taken(d) \in Nat /\ Taken(d)' \in Nat /\ Taken(d) <= Taken(d)'
                    /\ Refunded(d) \in Nat /\ Refunded(d)' \in Nat /\ Refunded(d) <= Refunded(d)'
  OBVIOUS
<1> DEFINE S == {t \in Sales : sale[t].saved = d}
           T == {t \in Sales : sale'[t].saved = d}
           P == {r \in Returns : paid[r] = d}
           Q == {r \in Returns : paid'[r] = d}
<1>1. d # 0
  BY StoreDayAssumption DEF Days
<1>2. T \in SUBSET Sales /\ S \in SUBSET T /\ S \in SUBSET Sales
  BY <1>1
<1>3. Q \in SUBSET Returns /\ P \in SUBSET Q /\ P \in SUBSET Returns
  BY <1>1
<1>4. /\ Taken(d) = SumFunctionOnSet(Amount, S) /\ Taken(d)' = SumFunctionOnSet(Amount, T)
      /\ Refunded(d) = SumFunctionOnSet(Refund, P) /\ Refunded(d)' = SumFunctionOnSet(Refund, Q)
  BY DEF Taken, Refunded
<1> HIDE DEF S, T, P, Q
<1>5. /\ SumFunctionOnSet(Amount, S) \in Nat /\ SumFunctionOnSet(Amount, T) \in Nat
      /\ SumFunctionOnSet(Amount, S) <= SumFunctionOnSet(Amount, T)
  BY <1>2, DaySums
<1>6. /\ SumFunctionOnSet(Refund, P) \in Nat /\ SumFunctionOnSet(Refund, Q) \in Nat
      /\ SumFunctionOnSet(Refund, P) <= SumFunctionOnSet(Refund, Q)
  BY <1>3, DaySums
<1> QED
  BY <1>4, <1>5, <1>6

LEMMA StepSums ==
    ASSUME DayShape, SaleInv, ReturnInv, TillStep \/ DeskStep
    PROVE  \A d \in Days : /\ Taken(d) \in Nat /\ Taken(d)' \in Nat /\ Taken(d) <= Taken(d)'
                           /\ Refunded(d) \in Nat /\ Refunded(d)' \in Nat /\ Refunded(d) <= Refunded(d)'
<1>1. /\ sale \in [Sales -> [status : {"none", "ringing", "COMPLETED", "RETURNED"},
                             started : 0..LastDay, saved : 0..LastDay]]
      /\ paid \in [Returns -> 0..LastDay]
  BY DEF DayShape, DayTypeOK
<1>2. \A t \in Sales : sale[t].saved # 0 => sale'[t].saved = sale[t].saved
  <2>1. CASE TillStep
    <3>1. ASSUME NEW t \in Sales, RingUp(t) \/ SaveSale(t), NEW u \in Sales, sale[u].saved # 0
          PROVE  sale'[u].saved = sale[u].saved
      <4>1. u # t
        BY <3>1 DEF RingUp, SaveSale, SaleInv, SaleRows, Saved
      <4> QED BY <1>1, <3>1, <4>1 DEF RingUp, SaveSale
    <3> QED BY <2>1, <3>1 DEF TillStep, Midnight, AnnounceSale, tillVars
  <2>2. CASE DeskStep
    <3>1. CASE BreakStep
      BY <3>1, BreakRests
    <3> QED
      BY <1>1, <2>2, <3>1 DEF DeskStep, RequestStep, ReadSale, CreateReturn, LookAgain, MarkReturned, TellReturned
  <2> QED BY <2>1, <2>2
<1>3. \A r \in Returns : paid[r] # 0 => paid'[r] = paid[r]
  <2>1. CASE TillStep
    BY <2>1 DEF TillStep, Midnight, RingUp, SaveSale, AnnounceSale, tillVars
  <2>2. CASE DeskStep
    <3>1. CASE BreakStep
      BY <3>1, BreakRests
    <3> QED
      BY <1>1, <2>2, <3>1 DEF DeskStep, RequestStep, ReadSale, CreateReturn, LookAgain, MarkReturned, TellReturned,
                              Goes, ReturnInv
  <2> QED BY <2>1, <2>2
<1> QED
  BY <1>2, <1>3, SumsGrow

LEMMA AskedGrows ==
    ASSUME DayShape, AskInv, \A d \in Days : CloseInv(d), UNCHANGED <<ask, close, log, said, raced>>,
           \A d \in Days : /\ Taken(d) \in Nat /\ Taken(d)' \in Nat /\ Taken(d) <= Taken(d)'
                           /\ Refunded(d) \in Nat /\ Refunded(d)' \in Nat /\ Refunded(d) <= Refunded(d)'
    PROVE  AskInv' /\ \A d \in Days : CloseInv(d)'
<1>1. ASSUME NEW u \in Users, ask[u].op = "count"
      PROVE  CountInv(ask[u])'
  <2> DEFINE r == ask[u]
             d == r.day
  <2>1. r \in CountsAsked
    BY <1>1 DEF DayShape, Asked
  <2>2. d \in Days /\ r.sales \in Int /\ r.refunds \in Int /\ r.seen[1] \in Nat /\ r.seen[2] \in Nat
    BY <2>1 DEF CountsAsked
  <2>3. CountInv(r)
    BY <1>1 DEF AskInv
  <2>4. r' = r
    OBVIOUS
  <2>5. /\ Taken(d) \in Nat /\ Taken(d)' \in Nat /\ Taken(d) <= Taken(d)'
        /\ Refunded(d) \in Nat /\ Refunded(d)' \in Nat /\ Refunded(d) <= Refunded(d)'
    BY <2>2
  <2> DEFINE a == Taken(d)
             b == Refunded(d)
             x == Taken(d)'
             y == Refunded(d)'
  <2>6. /\ r.counted = r.seen[1] - r.seen[2] - r.short
        /\ r.seen[1] <= a /\ r.seen[2] <= b
        /\ r.sales = None \/ (r.seen[1] <= r.sales /\ r.sales <= a)
        /\ r.refunds = None \/ (r.seen[2] <= r.refunds /\ r.refunds <= b)
        /\ r.known => r.local = r.seen[1] /\ r.seen[2] = 0
    BY <2>3 DEF CountInv
  <2>7. a \in Nat /\ b \in Nat /\ x \in Nat /\ y \in Nat /\ a <= x /\ b <= y
    BY <2>5
  <2> HIDE DEF a, b, x, y
  <2>8. /\ r.seen[1] <= x /\ r.seen[2] <= y
        /\ r.sales = None \/ (r.seen[1] <= r.sales /\ r.sales <= x)
        /\ r.refunds = None \/ (r.seen[2] <= r.refunds /\ r.refunds <= y)
    BY <2>2, <2>6, <2>7
  <2> QED BY <2>4, <2>6, <2>8 DEF CountInv, x, y
<1>2. AskInv'
  BY <1>1 DEF AskInv
<1>3. \A d \in Days : CloseInv(d)'
  BY DEF CloseInv
<1> QED BY <1>2, <1>3

(* The same when nothing at the tills moves.                                *)
LEMMA QuietSums == UNCHANGED tillVars => \A d : Taken(d)' = Taken(d) /\ Refunded(d)' = Refunded(d)
BY DEF tillVars, Taken, Refunded

LEMMA QuietAsked ==
    ASSUME DayShape, AskInv, UNCHANGED tillVars, NEW u \in Users,
           \A v \in Users : v # u => ask'[v] = ask[v],
           \A d \in Days : close'[d].status = "none" => close[d].status = "none",
           \A d \in Days : Range(log[d]) \subseteq Range(log'[d]),
           ask'[u].op = "count" => CountInv(ask'[u]),
           ask'[u].op \in {"explain", "close"} => close'[ask'[u].day].status # "none",
           ask'[u].op = "close" => ask'[u].seen.status = "OPEN",
           ask'[u].op = "tell" => ask'[u].seen \in Range(log'[ask'[u].day])
    PROVE  AskInv'
<1>1. \A r : CountInv(r) <=> /\ r.counted = r.seen[1] - r.seen[2] - r.short
                             /\ r.seen[1] <= Taken(r.day)' /\ r.seen[2] <= Refunded(r.day)'
                             /\ r.sales = None \/ (r.seen[1] <= r.sales /\ r.sales <= Taken(r.day)')
                             /\ r.refunds = None \/ (r.seen[2] <= r.refunds /\ r.refunds <= Refunded(r.day)')
                             /\ r.known => r.local = r.seen[1] /\ r.seen[2] = 0
  BY QuietSums DEF CountInv
<1>2. \A v \in Users : ask'[v].op = "count" => CountInv(ask'[v])
  BY DEF AskInv
<1>3. \A v \in Users : ask'[v].op = "count" => CountInv(ask[v])'
  BY <1>1, <1>2 DEF CountInv
<1>4. \A v \in Users : ask[v].op \in {"explain", "close", "tell"} => ask[v].day \in Days
  BY DEF DayShape, Asked, CountsAsked
<1>5. \A v \in Users :
         /\ ask'[v].op \in {"explain", "close"} => close'[ask'[v].day].status # "none"
         /\ ask'[v].op = "close" => ask'[v].seen.status = "OPEN"
         /\ ask'[v].op = "tell" => ask'[v].seen \in Range(log'[ask'[v].day])
  BY <1>4 DEF AskInv
<1> QED
  BY <1>3, <1>5 DEF AskInv

LEMMA AskAsked ==
    ASSUME DayShape, SaleInv, AskInv, \A d \in Days : CloseInv(d), CountStep
    PROVE  AskInv' /\ \A d \in Days : CloseInv(d)'
<1>1. UNCHANGED <<tillVars, mail, job, total, byCashier, applied, close, log, said, raced>>
  BY DEF CountStep, RecordCount, Explain, Close, SumSales, SumRefunds, CrossCheckFails, ledgerVars
<1>2. \A d \in Days : CloseInv(d)'
  BY <1>1 DEF CloseInv
<1>3. PICK u \in Users : \/ \E d \in Days : \/ \E s \in {0, 1} : RecordCount(u, d, s)
                                            \/ Explain(u, d) \/ Close(u, d)
                         \/ SumSales(u) \/ SumRefunds(u) \/ CrossCheckFails(u)
  BY DEF CountStep
<1>4. ask \in [Users -> Asked]
  BY DEF DayShape
<1>5. \A v \in Users : v # u => ask'[v] = ask[v]
  BY <1>3, <1>4 DEF RecordCount, Begin, Explain, Close, SumSales, SumRefunds, CrossCheckFails
<1>6. ASSUME NEW d \in Days, NEW s \in {0, 1}, RecordCount(u, d, s)
      PROVE  AskInv'
  <2> DEFINE r == [op |-> "count", day |-> d, counted |-> Taken(d) - Refunded(d) - s,
                   local |-> total[d], sales |-> None, refunds |-> None, silent |-> FALSE,
                   short |-> s, seen |-> <<Taken(d), Refunded(d)>>, known |-> LedgerKnows(d)]
  <2>1. ask'[u] = r
    BY <1>4, <1>6 DEF RecordCount, Begin
  <2>2. LedgerKnows(d) => total[d] = Taken(d) /\ Refunded(d) = 0
    BY DEF LedgerKnows, Taken, SaleInv, SalesCountedOnce
  <2>3. Taken(d) \in Nat /\ Refunded(d) \in Nat
    BY DaySums DEF Days
  <2>4. /\ r.op = "count" /\ r.counted = Taken(d) - Refunded(d) - s /\ r.day = d
        /\ r.seen[1] = Taken(d) /\ r.seen[2] = Refunded(d) /\ r.short = s
        /\ r.sales = None /\ r.refunds = None /\ r.known = LedgerKnows(d) /\ r.local = total[d]
    OBVIOUS
  <2> HIDE DEF r
  <2>5. CountInv(r)
    BY <2>2, <2>3, <2>4 DEF CountInv
  <2>6. ask'[u].op = "count" /\ CountInv(ask'[u])
    BY <2>1, <2>4, <2>5
  <2> QED BY <1>1, <1>5, <2>6, QuietAsked
<1>7. ASSUME NEW d \in Days, Explain(u, d) \/ Close(u, d)
      PROVE  AskInv'
  <2>1. /\ ask'[u].op \in {"explain", "close"} /\ close[ask'[u].day].status # "none"
        /\ ask'[u].op = "close" => ask'[u].seen.status = "OPEN"
    BY <1>4, <1>7 DEF Explain, Close, Begin
  <2> QED BY <1>1, <1>5, <2>1, QuietAsked
<1>8. CASE SumSales(u) \/ SumRefunds(u) \/ CrossCheckFails(u)
  <2> SUFFICES AskInv'
    BY <1>2
  <2>1. ask[u] \in CountsAsked /\ CountInv(ask[u])
    BY <1>4, <1>8 DEF SumSales, SumRefunds, CrossCheckFails, Asked, AskInv
  <2> DEFINE r == ask[u]
  <2>2. r.day \in Days /\ r.seen[1] \in Nat /\ r.seen[2] \in Nat
    BY <2>1 DEF CountsAsked
  <2>3. CASE SumSales(u)
    <3> DEFINE n == [r EXCEPT !.sales = Taken(r.day)]
    <3>1. ask'[u] = n
      BY <1>4, <2>3 DEF SumSales
    <3>2. /\ n.op = "count" /\ n.counted = r.counted /\ n.day = r.day /\ n.seen = r.seen /\ n.short = r.short
          /\ n.sales = Taken(r.day) /\ n.refunds = r.refunds /\ n.known = r.known /\ n.local = r.local
      BY <2>1 DEF CountsAsked
    <3>3. Taken(r.day) \in Nat
      BY <2>2, DaySums DEF Days
    <3> HIDE DEF n, r
    <3>4. CountInv(n)
      BY <2>1, <2>2, <3>2, <3>3 DEF CountInv, r
    <3>5. ask'[u].op = "count" /\ CountInv(ask'[u])
      BY <3>1, <3>2, <3>4
    <3> QED BY <1>1, <1>5, <3>5, QuietAsked
  <2>4. CASE SumRefunds(u)
    <3> DEFINE n == [r EXCEPT !.refunds = Refunded(r.day)]
    <3>1. ask'[u] = n
      BY <1>4, <2>4 DEF SumRefunds
    <3>2. /\ n.op = "count" /\ n.counted = r.counted /\ n.day = r.day /\ n.seen = r.seen /\ n.short = r.short
          /\ n.sales = r.sales /\ n.refunds = Refunded(r.day) /\ n.known = r.known /\ n.local = r.local
      BY <2>1 DEF CountsAsked
    <3>3. Refunded(r.day) \in Nat
      BY <2>2, DaySums DEF Days
    <3> HIDE DEF n, r
    <3>4. CountInv(n)
      BY <2>1, <2>2, <3>2, <3>3 DEF CountInv, r
    <3>5. ask'[u].op = "count" /\ CountInv(ask'[u])
      BY <3>1, <3>2, <3>4
    <3> QED BY <1>1, <1>5, <3>5, QuietAsked
  <2>5. CASE CrossCheckFails(u)
    <3> DEFINE n == [r EXCEPT !.silent = TRUE]
    <3>1. ask'[u] = n
      BY <1>4, <2>5 DEF CrossCheckFails
    <3>2. /\ n.op = "count" /\ n.counted = r.counted /\ n.day = r.day /\ n.seen = r.seen /\ n.short = r.short
          /\ n.sales = r.sales /\ n.refunds = r.refunds /\ n.known = r.known /\ n.local = r.local
      BY <2>1 DEF CountsAsked
    <3> HIDE DEF n
    <3>4. CountInv(n)
      BY <2>1, <3>2 DEF CountInv
    <3>5. ask'[u].op = "count" /\ CountInv(ask'[u])
      BY <3>1, <3>2, <3>4
    <3> QED BY <1>1, <1>5, <3>5, QuietAsked
  <2> QED BY <1>8, <2>3, <2>4, <2>5
<1> QED
  BY <1>2, <1>3, <1>6, <1>7, <1>8

(* The records of a day nobody wrote to.                                    *)
LEMMA OtherDays ==
    ASSUME NEW d \in Days, CloseInv(d), close'[d] = close[d], log'[d] = log[d], said'[d] = said[d],
           d \notin raced' => d \notin raced
    PROVE  CloseInv(d)'
BY DEF CloseInv

LEMMA SaveAsked ==
    ASSUME DayShape, AskInv, \A d \in Days : CloseInv(d), NEW u \in Users, SaveCount(u)
    PROVE  AskInv' /\ \A d \in Days : CloseInv(d)'
<1> DEFINE r == ask[u]
           n == Counted(r, None)
<1>0. PICK d \in Days : d = r.day
  BY DEF SaveCount, Ready, DayShape, Asked, CountsAsked
<1>1. /\ r \in CountsAsked /\ CountInv(r) /\ ask \in [Users -> Asked]
      /\ r.silent \/ (r.sales # None /\ r.refunds # None)
  BY DEF SaveCount, Ready, Asked, AskInv, DayShape
<1>2. /\ d \in Days /\ r.seen[1] \in Nat /\ r.seen[2] \in Nat /\ r.sales \in Int /\ r.refunds \in Int
      /\ r.local \in Nat /\ r.counted \in Int /\ r.short \in {0, 1} /\ n \in Records
  BY <1>0, <1>1, CountedRecord DEF CountsAsked
<1>3. /\ close \in [Days -> {NoClose} \cup Records] /\ log \in [Days -> Seq(Records)]
      /\ close' = [close EXCEPT ![d] = n] /\ ask' = [ask EXCEPT ![u] = Idle]
      /\ UNCHANGED <<tillVars, log, said, raced>>
  BY <1>0 DEF SaveCount, Answer, DayShape
<1>4. close'[d] = n /\ \A e \in Days : e # d => close'[e] = close[e]
  BY <1>2, <1>3
<1>5. /\ n.diff = r.counted - Expected(r) /\ n.why = None /\ n.nth = close[d].nth + 1 /\ n.short = r.short
      /\ n.status = (IF r.counted - Expected(r) # 0 THEN "BLOCKED_ON_EXPLANATION" ELSE "OPEN")
      /\ n.calm = (/\ r.seen = <<Taken(d), Refunded(d)>>
                   /\ r.silent => r.known)
  BY <1>0 DEF Counted
<1>6. close[d].nth \in Nat
  BY <1>2, <1>3 DEF NoClose, Records
<1>7. n.calm => n.diff = - n.short
  <2> DEFINE a == Taken(d)
             b == Refunded(d)
  <2>1. SUFFICES ASSUME r.seen = <<a, b>>, r.silent => r.known
                 PROVE  r.counted - Expected(r) = - r.short
    BY <1>5
  <2>2. r.seen[1] = a /\ r.seen[2] = b
    BY <2>1
  <2> HIDE DEF a, b
  <2>3. /\ r.counted = a - b - r.short
        /\ r.sales = None \/ (a <= r.sales /\ r.sales <= a)
        /\ r.refunds = None \/ (b <= r.refunds /\ r.refunds <= b)
        /\ r.known => r.local = a /\ b = 0
    BY <1>0, <1>1, <2>2 DEF CountInv, a, b
  <2>4. CASE r.silent
    BY <1>2, <2>1, <2>2, <2>3, <2>4 DEF Expected
  <2>5. CASE ~ r.silent
    <3>1. r.sales # None /\ r.refunds # None
      BY <1>1, <2>5
    <3>2. r.sales = a /\ r.refunds = b
      BY <1>2, <2>2, <2>3, <3>1
    <3> QED BY <1>2, <2>2, <2>3, <2>5, <3>2 DEF Expected
  <2> QED BY <2>4, <2>5
<1> HIDE DEF n
<1>8. CloseInv(d)'
  <2>1. \A i \in DOMAIN log[d] : log[d][i].nth \in Nat
    <3>1. log[d] \in Seq(Records)
      BY <1>3
    <3>2. \A i \in DOMAIN log[d] : log[d][i] \in Records
      BY <3>1
    <3> QED BY <3>2 DEF Records
  <2>2. CloseInv(d)
    BY <1>2
  <2>3. n.status \in {"OPEN", "CLOSED"} => n.diff = 0
    BY <1>5
  <2>4. n.status # "CLOSED"
    BY <1>5
  <2>5. d \notin raced => \A i \in DOMAIN log[d] :
            /\ log[d][i].nth <= n.nth /\ log[d][i].nth # n.nth
    BY <1>5, <1>6, <2>1, <2>2 DEF CloseInv
  <2> QED BY <1>3, <1>4, <1>7, <2>2, <2>3, <2>4, <2>5 DEF CloseInv
<1>9. \A e \in Days : e # d => CloseInv(e)'
  BY <1>3, <1>4, OtherDays
<1>10. AskInv'
  <2>1. ask'[u].op = "idle" /\ \A v \in Users : v # u => ask'[v] = ask[v]
    BY <1>1, <1>3 DEF Idle
  <2>2. \A e \in Days : close'[e].status = "none" => close[e].status = "none"
    BY <1>4, <1>5
  <2> QED BY <1>3, <2>1, <2>2, QuietAsked
<1> QED
  BY <1>8, <1>9, <1>10

LEMMA ExplainAsked ==
    ASSUME DayShape, AskInv, \A d \in Days : CloseInv(d), NEW u \in Users, WriteExplained(u)
    PROVE  AskInv' /\ \A d \in Days : CloseInv(d)'
<1> DEFINE read == ask[u].seen
           becomes == IF read.status = "BLOCKED_ON_EXPLANATION" THEN "OPEN" ELSE read.status
           n(d) == [close[d] EXCEPT !.why = read.diff, !.status = becomes]
<1>0. PICK d \in Days : d = ask[u].day
  BY DEF WriteExplained, DayShape, Asked, CountsAsked
<1>1. /\ ask \in [Users -> Asked] /\ read \in Records /\ close[d].status # "none"
      /\ close \in [Days -> {NoClose} \cup Records] /\ log \in [Days -> Seq(Records)]
  BY <1>0 DEF WriteExplained, Asked, CountsAsked, AskInv, DayShape
<1>2. close[d] \in Records
  BY <1>1 DEF NoClose
<1>3. /\ close' = [close EXCEPT ![d].why = read.diff, ![d].status = becomes]
      /\ raced' = Over(d, read) /\ ask' = [ask EXCEPT ![u] = Idle]
      /\ UNCHANGED <<tillVars, log, said>>
  BY <1>0 DEF WriteExplained, Answer
<1>4. close'[d] = n(d) /\ \A e \in Days : e # d => close'[e] = close[e]
  BY <1>1, <1>3
<1>5. /\ n(d).status = becomes /\ n(d).why = read.diff /\ n(d).nth = close[d].nth
      /\ n(d).diff = close[d].diff /\ n(d).calm = close[d].calm /\ n(d).short = close[d].short
  BY <1>2 DEF Records
<1>6. /\ d \notin raced' => d \notin raced /\ close[d] = read
      /\ \A e \in Days : e # d => (e \notin raced' => e \notin raced)
  BY <1>3 DEF Over
<1>7. becomes \in {"OPEN", "CLOSED"} /\ (becomes = "CLOSED" => read.status = "CLOSED")
  BY <1>1 DEF Records
<1> HIDE DEF n, read, becomes
<1>8. CloseInv(d)'
  <2>1. CloseInv(d)
    OBVIOUS
  <2>2. d \notin raced' => (close[d].status = "CLOSED" => becomes = "CLOSED")
    BY <1>6, <1>7 DEF becomes
  <2> QED BY <1>1, <1>3, <1>4, <1>5, <1>6, <1>7, <2>1, <2>2 DEF CloseInv
<1>9. \A e \in Days : e # d => CloseInv(e)'
  BY <1>3, <1>4, <1>6, OtherDays
<1>10. AskInv'
  <2>1. ask'[u].op = "idle" /\ \A v \in Users : v # u => ask'[v] = ask[v]
    BY <1>1, <1>3 DEF Idle
  <2>2. \A e \in Days : close'[e].status = "none" => close[e].status = "none"
    BY <1>4, <1>5, <1>7
  <2> QED BY <1>3, <2>1, <2>2, QuietAsked
<1> QED
  BY <1>8, <1>9, <1>10

LEMMA TellAsked ==
    ASSUME DayShape, AskInv, \A d \in Days : CloseInv(d), NEW u \in Users, TellClosed(u)
    PROVE  AskInv' /\ \A d \in Days : CloseInv(d)'
<1> DEFINE r == ask[u]
<1>0. PICK d \in Days : d = ask[u].day
  BY DEF TellClosed, DayShape, Asked, CountsAsked
<1>1. /\ ask \in [Users -> Asked] /\ ask[u].seen \in Range(log[d]) /\ ask[u].seen \in Records
      /\ said \in [Days -> Seq(Records)]
  BY <1>0 DEF TellClosed, AskInv, DayShape, Asked, CountsAsked
<1>2. /\ said' = [said EXCEPT ![d] = Append(@, ask[u].seen)] /\ ask' = [ask EXCEPT ![u] = Idle]
      /\ UNCHANGED <<tillVars, close, log, raced>>
  BY <1>0 DEF TellClosed, Answer
<1>3. \A e \in Range(said'[d]) : e \in Range(said[d]) \/ e = ask[u].seen
  <2>1. said'[d] = Append(said[d], ask[u].seen) /\ said[d] \in Seq(Records)
    BY <1>1, <1>2
  <2> QED BY <1>1, <2>1 DEF Range
<1>4. CloseInv(d)'
  <2>1. CloseInv(d)
    OBVIOUS
  <2> QED BY <1>1, <1>2, <1>3, <2>1 DEF CloseInv
<1>5. \A e \in Days : e # d => CloseInv(e)'
  <2>1. \A e \in Days : e # d => said'[e] = said[e]
    BY <1>1, <1>2
  <2> QED BY <1>2, <2>1, OtherDays
<1>6. AskInv'
  <2>1. ask'[u].op = "idle" /\ \A v \in Users : v # u => ask'[v] = ask[v]
    BY <1>1, <1>2 DEF Idle
  <2> QED BY <1>2, <2>1, QuietAsked
<1> QED
  BY <1>4, <1>5, <1>6

LEMMA ClosedAsked ==
    ASSUME DayShape, AskInv, \A d \in Days : CloseInv(d), NEW u \in Users, WriteClosed(u)
    PROVE  AskInv' /\ \A d \in Days : CloseInv(d)'
<1>0. PICK d \in Days : d = ask[u].day
  BY DEF WriteClosed, DayShape, Asked, CountsAsked
<1>a. PICK s \in Records : s = ask[u].seen
  BY DEF WriteClosed, DayShape, Asked, CountsAsked
<1>1. /\ ask \in [Users -> Asked] /\ s.status = "OPEN" /\ close[d].status # "none"
      /\ close \in [Days -> {NoClose} \cup Records] /\ log \in [Days -> Seq(Records)]
  BY <1>0, <1>a DEF WriteClosed, AskInv, DayShape
<1>2. close[d] \in Records
  BY <1>1 DEF NoClose
<1>3. /\ close' = [close EXCEPT ![d].status = "CLOSED"] /\ log' = [log EXCEPT ![d] = Append(@, s)]
      /\ raced' = Over(d, s) /\ ask' = [ask EXCEPT ![u] = [op |-> "tell", day |-> d, seen |-> s]]
      /\ UNCHANGED <<tillVars, said>>
  BY <1>0, <1>a DEF WriteClosed, Then
<1>4. /\ close'[d] = [close[d] EXCEPT !.status = "CLOSED"] /\ log'[d] = Append(log[d], s)
      /\ \A e \in Days : e # d => close'[e] = close[e] /\ log'[e] = log[e]
  BY <1>1, <1>3
<1>5. /\ close'[d].status = "CLOSED" /\ close'[d].why = close[d].why /\ close'[d].nth = close[d].nth
      /\ close'[d].diff = close[d].diff /\ close'[d].calm = close[d].calm
      /\ close'[d].short = close[d].short
  BY <1>2, <1>4 DEF Records
<1>6. /\ d \notin raced' => d \notin raced /\ close[d] = s
      /\ \A e \in Days : e # d => (e \notin raced' => e \notin raced)
  BY <1>3 DEF Over
<1> DEFINE L == log[d]
           M == log'[d]
           n == Len(L)
<1>7. /\ L \in Seq(Records) /\ n \in Nat /\ DOMAIN L = 1..n
      /\ Len(M) = n + 1 /\ DOMAIN M = 1..(n + 1) /\ M # <<>> /\ M[n + 1] = s
      /\ \A i \in 1..n : M[i] = L[i] /\ L[i] \in Records
  <2>1. L \in Seq(Records)
    BY <1>1
  <2> HIDE DEF L
  <2>2. M = Append(L, s)
    BY <1>4 DEF L
  <2> HIDE DEF M
  <2> QED BY <2>1, <2>2
<1>8. Range(L) \subseteq Range(M) /\ s \in Range(M)
  <2> HIDE DEF L, M, n
  <2> QED BY <1>7 DEF Range
<1>9. CloseInv(d)'
  <2>1. CloseInv(d)
    OBVIOUS
  <2>2. /\ close'[d].status # "none" /\ close'[d].calm => close'[d].diff = - close'[d].short
        /\ \A e \in Range(said'[d]) : e \in Range(M)
    BY <1>1, <1>3, <1>5, <1>8, <2>1 DEF CloseInv
  <2>3. ASSUME d \notin raced'
        PROVE  /\ close'[d].diff = 0 \/ close'[d].why = close'[d].diff
               /\ \A i \in DOMAIN M :
                     /\ M[i].diff = 0 \/ M[i].why = M[i].diff
                     /\ M[i].nth <= close'[d].nth
                     /\ \A j \in DOMAIN M : M[j].nth = M[i].nth => j = i
               /\ M[Len(M)].nth = close'[d].nth /\ M[Len(M)].diff = close'[d].diff
    <3>1. d \notin raced /\ close[d] = s
      BY <1>6, <2>3
    <3>2. close[d].diff = 0 \/ close[d].why = close[d].diff
      BY <1>1, <2>1, <3>1 DEF CloseInv
    <3>3. \A i \in 1..n : /\ L[i].diff = 0 \/ L[i].why = L[i].diff
                          /\ L[i].nth <= s.nth /\ L[i].nth # s.nth
                          /\ \A j \in 1..n : L[j].nth = L[i].nth => j = i
      BY <1>1, <1>7, <2>1, <3>1 DEF CloseInv
    <3>4. s.nth \in Nat
      BY DEF Records
    <3> HIDE DEF L, M, n
    <3>5. \A i \in 1..(n + 1) : i \in 1..n \/ i = n + 1
      BY <1>7
    <3>6. \A i \in 1..(n + 1) : /\ M[i].diff = 0 \/ M[i].why = M[i].diff
                                /\ M[i].nth <= s.nth
      BY <1>7, <3>1, <3>2, <3>3, <3>4, <3>5
    <3>7. \A i, j \in 1..(n + 1) : M[j].nth = M[i].nth => j = i
      <4>1. \A i, j \in 1..n : M[j].nth = M[i].nth => j = i
        BY <1>7, <3>3
      <4>2. \A i \in 1..n : M[i].nth # M[n + 1].nth
        BY <1>7, <3>3
      <4> QED BY <3>5, <4>1, <4>2
    <3> QED BY <1>5, <1>7, <3>1, <3>2, <3>6, <3>7
  <2> QED BY <1>5, <1>7, <2>2, <2>3 DEF CloseInv
<1>10. \A e \in Days : e # d => CloseInv(e)'
  BY <1>3, <1>4, <1>6, OtherDays
<1>11. AskInv'
  <2>1. /\ ask'[u].op = "tell" /\ ask'[u].seen \in Range(log'[ask'[u].day])
        /\ \A v \in Users : v # u => ask'[v] = ask[v]
    BY <1>1, <1>3, <1>8
  <2>2. \A e \in Days : close'[e].status = "none" => close[e].status = "none"
    BY <1>4, <1>5
  <2>3. \A e \in Days : Range(log[e]) \subseteq Range(log'[e])
    BY <1>4, <1>8
  <2> QED BY <1>3, <2>1, <2>2, <2>3, QuietAsked
<1> QED
  BY <1>9, <1>10, <1>11

LEMMA InitDay == DayInit => DayInv
<1> SUFFICES ASSUME DayInit PROVE DayInv
  OBVIOUS
<1>1. LastDay \in Nat \ {0} /\ MaxMishaps \in Nat
  BY StoreDayAssumption
<1>2. DayTypeOK
  <2>1. today \in Days /\ mishaps \in 0..MaxMishaps
    BY <1>1 DEF DayInit, Days
  <2>2. sale \in [Sales -> [status : {"none", "ringing", "COMPLETED", "RETURNED"},
                            started : 0..LastDay, saved : 0..LastDay]]
    BY <1>1 DEF DayInit
  <2>3. /\ back \in [Lines -> Nat] /\ crossed \in SUBSET Lines
        /\ \A r \in Returns : desk[r].step \in {"idle", "write", "look", "mark", "tell", "done"}
        /\ paid \in [Returns -> 0..LastDay] /\ cut \in SUBSET Returns
    BY <1>1 DEF DayInit
  <2>4. /\ mail \in [Sales -> {"none", "queued", "taken", "again", "retaken", "acked", "dropped"}]
        /\ job \in [Sales -> [Slots -> [step : {"off", "check", "apply", "ack"}, live : BOOLEAN]]]
    BY DEF DayInit, Off
  <2>5. /\ opened \in SUBSET Days /\ total \in [Days -> Nat]
        /\ byCashier \in [Days -> [Cashiers -> Nat]] /\ applied \in SUBSET Sales
    BY DEF DayInit
  <2>6. /\ \A d \in Days : close[d].status \in {"none", "OPEN", "BLOCKED_ON_EXPLANATION", "CLOSED"}
        /\ \A u \in Users : ask[u].op \in {"idle", "count", "explain", "close", "tell"}
        /\ raced \in SUBSET Days
    BY DEF DayInit, NoClose, Idle
  <2> QED BY <2>1, <2>2, <2>3, <2>4, <2>5, <2>6 DEF DayTypeOK
<1>3. DayShape
  <2>1. desk \in [Returns -> DeskStates]
    BY DEF DayInit, DeskStates
  <2>2. close \in [Days -> {NoClose} \cup Records] /\ ask \in [Users -> Asked]
    BY DEF DayInit, Idle, Asked
  <2>3. log \in [Days -> Seq(Records)] /\ said \in [Days -> Seq(Records)]
    <3>1. <<>> \in Seq(Records)
      OBVIOUS
    <3> QED BY <3>1 DEF DayInit
  <2> QED BY <1>2, <2>1, <2>2, <2>3 DEF DayShape
<1>4. SaleInv
  <2>1. SaleRows
    BY DEF DayInit, SaleRows, Saved, Off
  <2>2. SumFunctionOnSet(Amount, {}) = 0
    BY SumEmpty
  <2>3. \A d \in Days : {t \in applied : sale[t].started = d} = {}
    BY DEF DayInit
  <2>4. \A d \in Days : total[d] = 0 /\ \A c \in Cashiers : byCashier[d][c] = 0
    BY DEF DayInit
  <2>5. \A t \in Sales : mail[t] # "acked"
    BY DEF DayInit
  <2>6. ASSUME NEW d \in Days
        PROVE  LET counted == {t \in applied : sale[t].started = d} IN
               /\ total[d] = SumFunctionOnSet(Amount, counted)
               /\ \A c \in Cashiers : byCashier[d][c] =
                     SumFunctionOnSet(Amount, {t \in counted : Cashier[t] = c})
    <3>1. \A c \in Cashiers : {t \in {} : Cashier[t] = c} = {}
      OBVIOUS
    <3> QED BY <2>2, <2>3, <2>4, <3>1
  <2>7. SalesCountedOnce
    BY <2>5, <2>6 DEF SalesCountedOnce
  <2> QED BY <2>1, <2>7 DEF SaleInv
<1>5. ReturnInv
  <2>1. ASSUME NEW l \in Lines
        PROVE  LineFits(l)
    <3>1. Made(l) = {} /\ back[l] = 0
      BY EntryFacts DEF DayInit, Made
    <3>2. Sold[l] \in Nat /\ SumFunctionOnSet(Wanted, {}) = 0
      BY LineFacts, SumEmpty
    <3> QED BY <3>1, <3>2 DEF LineFits
  <2>2. \A t \in Sales : SaleDone(t)
    BY DEF DayInit, SaleDone, Saved
  <2>3. ReturnsFitTheSale
    BY <2>1, <2>2, FitSplit
  <2>4. \A t \in Sales : \A l \in LinesOf(t) : back[l] = 0
    BY DEF DayInit, LinesOf
  <2>5. \A r \in Returns : desk[r].step = "idle" /\ paid[r] = 0
    BY DEF DayInit
  <2> QED BY <2>3, <2>4, <2>5 DEF ReturnInv
<1>6. AskInv
  BY DEF DayInit, AskInv, Idle
<1>7. \A d \in Days : CloseInv(d)
  <2>1. \A d \in Days : close[d].status = "none" /\ log[d] = <<>> /\ said[d] = <<>>
    BY DEF DayInit, NoClose
  <2>2. DOMAIN <<>> = {}
    OBVIOUS
  <2> QED BY <2>1, <2>2 DEF CloseInv, Range
<1> QED
  BY <1>3, <1>4, <1>5, <1>6, <1>7 DEF DayInv

LEMMA DayMoves ==
    ASSUME DayInv, DayStep
    PROVE  DayInv'
<1>1. DayShape /\ SaleInv /\ ReturnInv /\ AskInv /\ \A d \in Days : CloseInv(d)
  BY DEF DayInv
<1>2. CASE TillStep
  <2>1. UNCHANGED closeVars
    BY <1>2 DEF TillStep, Midnight, RingUp, SaveSale, AnnounceSale
  <2>2. AskInv' /\ \A d \in Days : CloseInv(d)'
    BY <1>1, <1>2, <2>1, StepSums, AskedGrows DEF closeVars
  <2> QED BY <1>1, <1>2, <2>2, TillShape, TillSales, TillReturns DEF DayInv
<1>3. CASE DeskStep
  <2>1. UNCHANGED closeVars
    <3>1. BreakStep => UNCHANGED closeVars
      BY <1>1, BreakRests
    <3> QED
      BY <1>3, <3>1 DEF DeskStep, RequestStep, ReadSale, CreateReturn, LookAgain, MarkReturned, TellReturned
  <2>2. AskInv' /\ \A d \in Days : CloseInv(d)'
    BY <1>1, <1>3, <2>1, StepSums, AskedGrows DEF closeVars
  <2> QED BY <1>1, <1>3, <2>2, DeskShape, DeskSales, DeskReturns DEF DayInv
<1>4. CASE LedgerStep
  <2>1. UNCHANGED <<tillVars, closeVars>>
    BY <1>4 DEF LedgerStep, Deliver, CheckApplied, ApplySale, Ack, Throws, ChannelLost
  <2>2. ReturnInv'
    BY <1>1, <2>1, ReturnsRest DEF tillVars
  <2>3. AskInv' /\ \A d \in Days : CloseInv(d)'
    <3>1. \A d \in Days : Taken(d) \in Nat /\ Refunded(d) \in Nat
      BY DaySums DEF Days
    <3>2. \A d \in Days : /\ Taken(d) \in Nat /\ Taken(d)' \in Nat /\ Taken(d) <= Taken(d)'
                          /\ Refunded(d) \in Nat /\ Refunded(d)' \in Nat /\ Refunded(d) <= Refunded(d)'
      BY <2>1, <3>1, QuietSums
    <3> QED BY <1>1, <2>1, <3>2, AskedGrows DEF closeVars
  <2>4. DayShape'
    BY <1>1, <1>4, LedgerShape DEF SaleInv, SaleRows, Saved, DayShape, DayTypeOK
  <2> QED BY <1>1, <1>4, <2>2, <2>3, <2>4, LedgerSales DEF DayInv
<1>5. CASE AuditRestarts
  <2>1. UNCHANGED <<tillVars, close, log, said, raced>> /\ ask' = [u \in Users |-> Idle]
    BY <1>5 DEF AuditRestarts
  <2>2. ReturnInv'
    BY <1>1, <2>1, ReturnsRest DEF tillVars
  <2>3. AskInv'
    BY <2>1 DEF AskInv, Idle
  <2>4. \A d \in Days : CloseInv(d)'
    BY <1>1, <2>1 DEF CloseInv
  <2> QED BY <1>1, <1>5, <2>2, <2>3, <2>4, RestartShape, LedgerSales DEF DayInv
<1>6. CASE CountStep
  <2>1. UNCHANGED <<tillVars, mail, job, total, byCashier, applied>>
    BY <1>6 DEF CountStep, RecordCount, Explain, Close, SumSales, SumRefunds, CrossCheckFails, ledgerVars
  <2>2. ReturnInv' /\ SaleInv'
    BY <1>1, <2>1, ReturnsRest, SalesRest DEF tillVars
  <2> QED BY <1>1, <1>6, <2>2, AskShapes, AskAsked DEF DayInv
<1>7. CASE CloseStep
  <2>1. UNCHANGED <<tillVars, ledgerVars>>
    BY <1>7 DEF CloseStep, SaveCount, WriteExplained, WriteClosed, TellClosed
  <2>2. ReturnInv' /\ SaleInv'
    BY <1>1, <2>1, ReturnsRest, SalesRest DEF tillVars, ledgerVars
  <2>3. AskInv' /\ \A d \in Days : CloseInv(d)'
    BY <1>1, <1>7, SaveAsked, ExplainAsked, ClosedAsked, TellAsked DEF CloseStep
  <2> QED BY <1>1, <1>7, <2>2, <2>3, CloseShape DEF DayInv
<1> QED
  BY <1>2, <1>3, <1>4, <1>5, <1>6, <1>7, DaySplit

LEMMA DayInvRests ==
    ASSUME DayInv, UNCHANGED dayVars
    PROVE  DayInv'
<1>1. UNCHANGED <<tillVars, ledgerVars, closeVars, mishaps>>
  BY DEF dayVars
<1>2. DayShape /\ SaleInv /\ ReturnInv /\ AskInv /\ \A d \in Days : CloseInv(d)
  BY DEF DayInv
<1>3. DayShape'
  BY <1>1, <1>2 DEF DayShape, DayTypeOK, tillVars, ledgerVars, closeVars
<1>4. SaleInv' /\ ReturnInv'
  BY <1>1, <1>2, ReturnsRest, SalesRest DEF tillVars, ledgerVars
<1>5. \A d \in Days : Taken(d)' = Taken(d) /\ Refunded(d)' = Refunded(d)
  BY <1>1, QuietSums
<1>6. \A d \in Days : /\ Taken(d) \in Nat /\ Taken(d)' \in Nat /\ Taken(d) <= Taken(d)'
                      /\ Refunded(d) \in Nat /\ Refunded(d)' \in Nat /\ Refunded(d) <= Refunded(d)'
  <2>1. \A d \in Days : Taken(d) \in Nat /\ Refunded(d) \in Nat
    BY DaySums DEF Days
  <2> QED BY <1>5, <2>1
<1>7. AskInv' /\ \A d \in Days : CloseInv(d)'
  BY <1>1, <1>2, <1>6, AskedGrows DEF closeVars
<1> QED
  BY <1>3, <1>4, <1>7 DEF DayInv

(* The day of a store goes on whatever the office does.                     *)
THEOREM DayInvariant == Spec => []DayInv
<1>1. Init => DayInv
  BY InitDay DEF Init
<1>2. DayInv /\ [Next]_vars => DayInv'
  <2> SUFFICES ASSUME DayInv, [Next]_vars
               PROVE  DayInv'
    OBVIOUS
  <2>1. DayStep \/ UNCHANGED dayVars
    BY DEF Next, Shop, StockMoves, Office, AskAround, vars
  <2> QED
    BY <2>1, DayMoves, DayInvRests
<1> QED
  BY <1>1, <1>2, PTL DEF Spec

(* Every variable keeps its type in every reachable state.                  *)
THEOREM TypeCorrect == Spec => []TypeOK
<1>1. IInv /\ DayInv => TypeOK
  BY DEF IInv, DirectoryInv, PlaceInv, DayInv, DayShape, TypeOK
<1> QED
  BY <1>1, Invariant, DayInvariant, PTL

(* However often ItemSold is delivered, on however many handlers, and       *)
(* whatever fails: the ledger of a day is the sum of the sales applied to   *)
(* it, and what was acknowledged was applied.                               *)
THEOREM EachSaleCountedOnce == Spec => []SalesCountedOnce
<1>1. DayInv => SalesCountedOnce
  BY DEF DayInv, SaleInv
<1> QED
  BY <1>1, DayInvariant, PTL

(* Returns keep within the sale unless two tills cross on a line or one     *)
(* request lists it twice, refund the share of the line total to half a     *)
(* cent for each entry, and leave the sale RETURNED when all of it came     *)
(* back and no request broke off before its mark, for any number of returns *)
(* at once.                                                                 *)
THEOREM ReturnsKeepToTheSale == Spec => []ReturnsFitTheSale
<1>1. DayInv => ReturnsFitTheSale
  BY DEF DayInv, ReturnInv
<1> QED
  BY <1>1, DayInvariant, PTL

(* A day is closed on the count it was counted with, and every difference   *)
(* in its log is explained, for any number of people at it.                 *)
THEOREM DaysCloseOnTheirCount == Spec => []ClosedOnItsCount
<1>1. ASSUME NEW d \in Days, DayShape, CloseInv(d)
      PROVE  /\ close[d].status # "none" /\ close[d].calm => close[d].diff = - close[d].short
             /\ \A e \in Range(said[d]) : e \in Range(log[d])
             /\ d \notin raced =>
                   /\ \A e \in Range(log[d]) : e.diff = 0 \/ e.why = e.diff
                   /\ IsInjective([i \in DOMAIN log[d] |-> log[d][i].nth])
                   /\ close[d].status = "CLOSED" =>
                         LET last == log[d][Len(log[d])]
                         IN  last.nth = close[d].nth /\ last.diff = close[d].diff
  <2>1. /\ close[d].status # "none" /\ close[d].calm => close[d].diff = - close[d].short
        /\ \A e \in Range(said[d]) : e \in Range(log[d])
    BY <1>1 DEF CloseInv
  <2>2. ASSUME d \notin raced
        PROVE  /\ \A e \in Range(log[d]) : e.diff = 0 \/ e.why = e.diff
               /\ \A i, j \in DOMAIN log[d] : log[d][i].nth = log[d][j].nth => i = j
               /\ close[d].status = "CLOSED" =>
                     /\ log[d][Len(log[d])].nth = close[d].nth
                     /\ log[d][Len(log[d])].diff = close[d].diff
    BY <1>1, <2>2 DEF CloseInv, Range
  <2>3. (\A i, j \in DOMAIN log[d] : log[d][i].nth = log[d][j].nth => i = j) =>
            IsInjective([i \in DOMAIN log[d] |-> log[d][i].nth])
    BY DEF IsInjective
  <2> QED
    BY <2>1, <2>2, <2>3
<1>2. DayInv => ClosedOnItsCount
  BY <1>1 DEF DayInv, ClosedOnItsCount
<1> QED
  BY <1>2, DayInvariant, PTL
=============================================================================
