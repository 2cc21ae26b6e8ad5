---------------------------- MODULE AccountsProofs ----------------------------
(* Theorems about Accounts, for any clients, addresses, passwords and faults. *)
EXTENDS Accounts, TLAPS, FiniteSetTheorems

(***************************************************************************)
(* The inductive invariant.                                                *)
(***************************************************************************)

\* A row for each address at most.
EmailsUnique == \A u, v \in users : u.email = v.email => u = v

\* A handler has its request in hand and, once it knows an account, that of the
\* address and password of the request.
Handling ==
    \A c \in Clients :
        /\ pc[c] # "idle" => api = "serving" /\ request[c] \in Requests
        /\ pc[c] = "known" => /\ account[c] \in users
                              /\ account[c].email = request[c].email
                              /\ account[c].password = request[c].password

\* Only a process whose variables could be read gets further than its start.
Configured == api # "down" => ConfigLoads

\* Ids suffice for the registrations under way.
IdsSuffice == nextId + Cardinality(Registering) <= MaxId + 1

Inv == /\ TypeOK /\ EmailsUnique /\ Handling /\ Configured /\ IdsSuffice
       /\ TokenSpeaksForOwner

(***************************************************************************)
(* The registrations under way.                                            *)
(***************************************************************************)

\* Their number is a number.
LEMMA RegisteringFinite == Cardinality(Registering) \in Nat /\ IsFiniteSet(Registering)
<1>1. Registering \subseteq Clients
  BY DEF Registering
<1> QED
  BY <1>1, AccountsAssumption, FS_Subset, FS_CardinalityType

LEMMA NextRegisteringFinite == Cardinality(Registering') \in Nat /\ IsFiniteSet(Registering')
<1>1. Registering' \subseteq Clients
  BY DEF Registering
<1> QED
  BY <1>1, AccountsAssumption, FS_Subset, FS_CardinalityType

\* As long as none begins and no id is drawn, the ids go on sufficing.
LEMMA NoneBegins ==
    ASSUME TypeOK, IdsSuffice, nextId' = nextId, Registering' \subseteq Registering
    PROVE  IdsSuffice'
<1>1. Cardinality(Registering') <= Cardinality(Registering)
  BY RegisteringFinite, FS_Subset
<1> QED
  BY <1>1, RegisteringFinite, NextRegisteringFinite, AccountsAssumption DEF IdsSuffice, TypeOK

\* One that ends may take an id along.
LEMMA OneEnds ==
    ASSUME TypeOK, IdsSuffice, NEW c \in Registering,
           Registering' \subseteq Registering \ {c}, nextId' \in {nextId, nextId + 1}
    PROVE  IdsSuffice' /\ nextId <= MaxId /\ nextId' \in 1..(MaxId + 1)
<1>1. /\ IsFiniteSet(Registering \ {c})
      /\ Cardinality(Registering \ {c}) = Cardinality(Registering) - 1
  BY RegisteringFinite, FS_RemoveElement
<1>2. Cardinality(Registering') <= Cardinality(Registering \ {c})
  BY <1>1, FS_Subset
<1>3. /\ Cardinality(Registering) \in Nat /\ Cardinality(Registering') \in Nat
      /\ nextId \in Nat \ {0} /\ MaxId \in Nat
  BY RegisteringFinite, NextRegisteringFinite, AccountsAssumption DEF TypeOK
<1>4. nextId + Cardinality(Registering) <= MaxId + 1
  BY DEF IdsSuffice
<1>5. nextId' + Cardinality(Registering') <= MaxId + 1
  BY <1>1, <1>2, <1>3, <1>4
<1>6. Cardinality(Registering \ {c}) \in Nat
  BY <1>1, FS_CardinalityType
<1>7. nextId <= MaxId
  BY <1>1, <1>3, <1>4, <1>6
<1> QED
  BY <1>3, <1>5, <1>7 DEF IdsSuffice

\* A handler that goes on or ends is registering no more; the others are as before.
LEMMA HandlerMoves ==
    ASSUME TypeOK, NEW c \in Clients, Answer(c, answer'[c]) \/ \E row : Go(c, row)
    PROVE  /\ Registering' \subseteq Registering \ {c}
           /\ pc' \in [Clients -> {"idle", "received", "known"}]
           /\ request' \in [Clients -> Requests \union {None}]
           /\ \A d \in Clients \ {c} : pc'[d] = pc[d] /\ request'[d] = request[d]
                                       /\ account'[d] = account[d]
<1>1. /\ pc' \in [Clients -> {"idle", "received", "known"}]
      /\ request' \in [Clients -> Requests \union {None}]
      /\ pc'[c] # "received"
      /\ \A d \in Clients \ {c} : pc'[d] = pc[d] /\ request'[d] = request[d]
                                  /\ account'[d] = account[d]
  BY DEF TypeOK, Answer, Go
<1> QED
  BY <1>1 DEF Registering, Received, Acceptable

\* A handler that ends.
LEMMA Ends ==
    ASSUME Inv, NEW c \in Clients, NEW status \in Statuses, Answer(c, status),
           users \subseteq users', api' = api
    PROVE  /\ Registering' \subseteq Registering \ {c}
           /\ Handling'
           /\ pc' \in [Clients -> {"idle", "received", "known"}]
           /\ request' \in [Clients -> Requests \union {None}]
           /\ account' \in [Clients -> Users \union {None}]
           /\ answer' \in [Clients -> Statuses \union {None}]
<1>1. answer'[c] = status /\ answer' \in [Clients -> Statuses \union {None}]
  BY DEF Answer, Inv, TypeOK
<1>2. account' \in [Clients -> Users \union {None}] /\ pc'[c] = "idle"
  BY DEF Answer, Inv, TypeOK
<1>3. /\ Registering' \subseteq Registering \ {c}
      /\ pc' \in [Clients -> {"idle", "received", "known"}]
      /\ request' \in [Clients -> Requests \union {None}]
      /\ \A d \in Clients \ {c} : pc'[d] = pc[d] /\ request'[d] = request[d]
                                  /\ account'[d] = account[d]
  BY <1>1, HandlerMoves DEF Inv
<1>4. Handling'
  BY <1>2, <1>3 DEF Handling, Inv
<1> QED
  BY <1>1, <1>2, <1>3, <1>4

\* A handler that knows an account now, that of its request.
LEMMA Knows ==
    ASSUME Inv, NEW c \in Clients, pc[c] = "received", NEW row \in Users, Go(c, row),
           row \in users', row.email = request[c].email, row.password = request[c].password,
           users \subseteq users', api' = api
    PROVE  /\ Registering' \subseteq Registering \ {c}
           /\ Handling'
           /\ pc' \in [Clients -> {"idle", "received", "known"}]
           /\ request' \in [Clients -> Requests \union {None}]
           /\ account' \in [Clients -> Users \union {None}]
           /\ answer' \in [Clients -> Statuses \union {None}]
<1>1. /\ account' \in [Clients -> Users \union {None}] /\ account'[c] = row
      /\ answer' = answer /\ answer \in [Clients -> Statuses \union {None}]
      /\ request' = request
  BY DEF Go, Inv, TypeOK
<1>2. /\ Registering' \subseteq Registering \ {c}
      /\ pc' \in [Clients -> {"idle", "received", "known"}]
      /\ request' \in [Clients -> Requests \union {None}]
      /\ \A d \in Clients \ {c} : pc'[d] = pc[d] /\ request'[d] = request[d]
                                  /\ account'[d] = account[d]
  BY HandlerMoves DEF Inv
<1>3. Handling'
  BY <1>1, <1>2 DEF Handling, Inv
<1> QED
  BY <1>1, <1>2, <1>3

(***************************************************************************)
(* The steps.                                                              *)
(***************************************************************************)

\* What does not touch accounts and tokens leaves most of the invariant alone.
LEMMA Apart ==
    ASSUME Inv, UNCHANGED <<env, users, nextId, handlers>>, Configured',
           api' \in {"down", "starting", "pinging", "listening", "serving"},
           api = "serving" => api' = "serving",
           pings' \in 0..(Attempts - 1), dbUp' \in BOOLEAN,
           clock' \in 0..MaxClock, faults' \in 0..MaxFaults
    PROVE  Inv'
<1>1. TypeOK'
  BY DEF Inv, TypeOK, handlers
<1>2. EmailsUnique' /\ TokenSpeaksForOwner' /\ Handling'
  BY DEF Inv, EmailsUnique, TokenSpeaksForOwner, Handling, handlers
<1>3. Registering' = Registering
  BY DEF Registering, Received, Acceptable, handlers
<1>4. IdsSuffice'
  BY <1>3 DEF Inv, IdsSuffice
<1> QED
  BY <1>1, <1>2, <1>4 DEF Inv

\* The surroundings and main.
LEMMA ProcessPreserves == Inv /\ (Tick \/ DbLost \/ DbBack \/ Run) => Inv'
<1> SUFFICES ASSUME Inv, Tick \/ DbLost \/ DbBack \/ Run PROVE Inv'
  OBVIOUS
<1>1. /\ api \in {"down", "starting", "pinging", "listening", "serving"} /\ pings \in 0..(Attempts - 1)
      /\ dbUp \in BOOLEAN /\ clock \in 0..MaxClock /\ faults \in 0..MaxFaults
      /\ Configured
  BY DEF Inv, TypeOK
<1>2. CASE Tick
  <2>1. clock' \in 0..MaxClock
    BY <1>1, <1>2, AccountsAssumption DEF Tick
  <2> QED
    BY <1>1, <1>2, <2>1, Apart DEF Tick, process, Configured, ConfigLoads
<1>3. CASE DbLost
  <2>1. faults' \in 0..MaxFaults
    BY <1>1, <1>3, AccountsAssumption DEF DbLost, Fault
  <2> QED
    BY <1>1, <1>3, <2>1, Apart DEF DbLost, process, Configured, ConfigLoads
<1>4. CASE DbBack
  BY <1>1, <1>4, Apart DEF DbBack, process, Configured, ConfigLoads
<1>5. CASE Start
  BY <1>1, <1>5, Apart DEF Start, outside, Configured, ConfigLoads
<1>6. CASE OpenDatabase
  BY <1>1, <1>6, Apart DEF OpenDatabase, outside, Configured, ConfigLoads
<1>7. ASSUME NEW answers \in BOOLEAN, PingRedis(answers) PROVE Inv'
  <2>1. pings' \in 0..(Attempts - 1)
    BY <1>1, <1>7, AccountsAssumption DEF PingRedis
  <2> QED
    BY <1>1, <1>7, <2>1, Apart DEF PingRedis, outside, Configured, ConfigLoads
<1>8. CASE Listen
  <2>1. faults' \in 0..MaxFaults
    BY <1>1, <1>8, AccountsAssumption DEF Listen, Fault
  <2> QED
    BY <1>1, <1>8, <2>1, Apart DEF Listen, outside, Configured, ConfigLoads
<1> QED
  BY <1>2, <1>3, <1>4, <1>5, <1>6, <1>7, <1>8 DEF Run

\* A crash takes the handlers along.
LEMMA CrashPreserves == Inv /\ Crash => Inv'
<1> SUFFICES ASSUME Inv, Crash PROVE Inv'
  OBVIOUS
<1>1. TypeOK'
  <2>1. faults' \in 0..MaxFaults /\ pings' \in 0..(Attempts - 1)
    BY AccountsAssumption DEF Crash, Fault, Inv, TypeOK
  <2> QED
    BY <2>1 DEF Crash, Inv, TypeOK, outside
<1>2. EmailsUnique' /\ TokenSpeaksForOwner' /\ Handling' /\ Configured'
  BY DEF Crash, Inv, EmailsUnique, TokenSpeaksForOwner, Handling, Configured
<1>3. Registering' \subseteq Registering
  BY DEF Crash, Registering, Received
<1>4. IdsSuffice'
  BY <1>3, NoneBegins DEF Crash, Inv
<1> QED
  BY <1>1, <1>2, <1>4 DEF Inv

\* A registration begins only while there is an id for it.
LEMMA SubmitPreserves ==
    ASSUME Inv, NEW c \in Clients, NEW r \in Requests, Submit(c, r)
    PROVE  Inv'
<1>1. TypeOK'
  BY DEF Submit, Inv, TypeOK, outside, process
<1>2. EmailsUnique' /\ TokenSpeaksForOwner' /\ Handling' /\ Configured'
  BY DEF Submit, Inv, TypeOK, EmailsUnique, TokenSpeaksForOwner, Handling, Configured, ConfigLoads,
         outside, process
<1>3. IdsSuffice'
  <2>1. CASE r.kind # "register"
    <3>1. Registering' \subseteq Registering
      BY <2>1 DEF Submit, Registering, Received, Acceptable, Inv, TypeOK
    <3> QED
      BY <3>1, NoneBegins DEF Submit, Inv
  <2>2. CASE r.kind = "register"
    <3>1. Registering' \subseteq Registering \union {c} /\ c \notin Registering
      BY DEF Submit, Registering, Received, Acceptable, Inv, TypeOK
    <3>2. /\ IsFiniteSet(Registering \union {c})
          /\ Cardinality(Registering \union {c}) = Cardinality(Registering) + 1
      BY <3>1, RegisteringFinite, FS_AddElement
    <3>3. Cardinality(Registering') <= Cardinality(Registering \union {c})
      BY <3>1, <3>2, FS_Subset
    <3>4. nextId' = nextId /\ nextId + Cardinality(Registering) <= MaxId
      BY <2>2 DEF Submit
    <3>5. nextId \in Nat /\ MaxId \in Nat
      BY AccountsAssumption DEF Inv, TypeOK
    <3> QED
      BY <3>2, <3>3, <3>4, <3>5, RegisteringFinite, NextRegisteringFinite DEF IdsSuffice
  <2> QED
    BY <2>1, <2>2
<1> QED
  BY <1>1, <1>2, <1>3 DEF Inv

\* The statuses that a handler answers are statuses.
LEMMA StatusesOK == {200, 201, 400, 401, 409, 500} \subseteq Statuses
BY DEF Statuses

\* A handler that leaves the accounts alone and ends.
LEMMA PlainEnd ==
    ASSUME Inv, NEW c \in Clients, NEW status \in Statuses, Answer(c, status),
           UNCHANGED <<outside, process, users, nextId>>, faults' \in 0..MaxFaults,
           token' \in [Clients -> Tokens \union {None}], TokenSpeaksForOwner'
    PROVE  Inv'
<1>1. users \subseteq users' /\ api' = api
  BY DEF process
<1>2. /\ Registering' \subseteq Registering \ {c}
      /\ Handling'
      /\ pc' \in [Clients -> {"idle", "received", "known"}]
      /\ request' \in [Clients -> Requests \union {None}]
      /\ account' \in [Clients -> Users \union {None}]
      /\ answer' \in [Clients -> Statuses \union {None}]
  BY <1>1, Ends
<1>3. IdsSuffice'
  BY <1>2, NoneBegins DEF Inv
<1>4. TypeOK'
  BY <1>2 DEF Inv, TypeOK, outside, process
<1> QED
  BY <1>2, <1>3, <1>4 DEF Inv, EmailsUnique, Configured, ConfigLoads, outside, process

\* A registration under way finds an id.
LEMMA IdLeft ==
    ASSUME Inv, NEW c \in Registering
    PROVE  nextId <= MaxId
<1>1. Cardinality(Registering \ {c}) = Cardinality(Registering) - 1
      /\ Cardinality(Registering \ {c}) \in Nat
  BY RegisteringFinite, FS_RemoveElement, FS_CardinalityType
<1> QED
  BY <1>1, RegisteringFinite, AccountsAssumption DEF Inv, IdsSuffice, TypeOK

\* One more account, of an address that had none.
LEMMA UserAdded ==
    ASSUME Inv, NEW c \in Registering, ~ Taken(request[c].email), nextId <= MaxId,
           users' = users \union {NewUser(c)}, nextId' = nextId + 1, token' = token
    PROVE  /\ NewUser(c) \in Users /\ users' \subseteq Users
           /\ EmailsUnique' /\ TokenSpeaksForOwner'
           /\ \A u, v \in users' : u.id < nextId' /\ (u.id = v.id => u = v)
<1>1. nextId \in 1..MaxId /\ nextId \in Nat
  BY AccountsAssumption DEF Inv, TypeOK
<1>2. request[c] \in Requests /\ request[c].password \in Passwords
  BY DEF Registering, Received, Acceptable, Inv, Handling
<1>3. NewUser(c) \in Users /\ NewUser(c).id = nextId /\ NewUser(c).email = request[c].email
  BY <1>1, <1>2 DEF NewUser, Users, Requests
<1>4. EmailsUnique'
  BY <1>3 DEF EmailsUnique, Inv, Taken
<1>5. TokenSpeaksForOwner'
  BY DEF TokenSpeaksForOwner, Inv
<1>6. \A u \in users : u.id \in Nat /\ u.id < nextId
  BY DEF Inv, TypeOK, Users
<1>7. \A u, v \in users' : u.id < nextId' /\ (u.id = v.id => u = v)
  BY <1>1, <1>3, <1>6 DEF Inv, TypeOK
<1> QED
  BY <1>3, <1>4, <1>5, <1>7 DEF Inv, TypeOK

\* db.Create, with what it finds and what it inserts.
LEMMA InsertPreserves ==
    ASSUME Inv, NEW c \in Clients, Insert(c)
    PROVE  Inv'
<1>1. c \in Registering /\ pc[c] = "received"
  BY DEF Insert, Registering, Received
<1>2. /\ UNCHANGED <<outside, process, faults, token>> /\ nextId' = nextId + 1
      /\ users \subseteq users' /\ api' = api
  BY DEF Insert, process
<1>3. /\ Registering' \subseteq Registering \ {c}
      /\ Handling' /\ EmailsUnique' /\ TokenSpeaksForOwner'
      /\ pc' \in [Clients -> {"idle", "received", "known"}]
      /\ request' \in [Clients -> Requests \union {None}]
      /\ account' \in [Clients -> Users \union {None}]
      /\ answer' \in [Clients -> Statuses \union {None}]
      /\ users' \subseteq Users
      /\ \A u, v \in users' : u.id < nextId' /\ (u.id = v.id => u = v)
  <2>1. CASE Taken(request[c].email)
    <3>1. Answer(c, 409) /\ users' = users
      BY <2>1 DEF Insert
    <3>2. /\ Registering' \subseteq Registering \ {c}
          /\ Handling'
          /\ pc' \in [Clients -> {"idle", "received", "known"}]
          /\ request' \in [Clients -> Requests \union {None}]
          /\ account' \in [Clients -> Users \union {None}]
          /\ answer' \in [Clients -> Statuses \union {None}]
      BY <1>2, <3>1, Ends, StatusesOK
    <3>3. \A u \in users : u.id \in Nat /\ u.id < nextId /\ nextId \in Nat
      BY DEF Inv, TypeOK, Users
    <3> QED
      BY <1>2, <3>1, <3>2, <3>3 DEF Inv, TypeOK, EmailsUnique, TokenSpeaksForOwner
  <2>2. CASE ~ Taken(request[c].email)
    <3>1. users' = users \union {NewUser(c)} /\ Go(c, NewUser(c))
      BY <2>2 DEF Insert
    <3>2. nextId <= MaxId
      BY <1>1, IdLeft
    <3>3. /\ NewUser(c) \in Users /\ users' \subseteq Users
          /\ EmailsUnique' /\ TokenSpeaksForOwner'
          /\ \A u, v \in users' : u.id < nextId' /\ (u.id = v.id => u = v)
      BY <1>1, <1>2, <2>2, <3>1, <3>2, UserAdded
    <3>4. NewUser(c).email = request[c].email /\ NewUser(c).password = request[c].password
      BY DEF NewUser
    <3> QED
      BY <1>1, <1>2, <3>1, <3>3, <3>4, Knows
  <2> QED
    BY <2>1, <2>2
<1>4. IdsSuffice' /\ nextId' \in 1..(MaxId + 1)
  BY <1>1, <1>2, <1>3, OneEnds DEF Inv
<1>5. TypeOK'
  BY <1>2, <1>3, <1>4 DEF Inv, TypeOK, outside, process
<1> QED
  BY <1>2, <1>3, <1>4, <1>5 DEF Inv, Configured, ConfigLoads, outside, process

\* db.Create that reports an error, with or without the row.
LEMMA InsertFailsPreserves ==
    ASSUME Inv, NEW c \in Clients, NEW applied \in BOOLEAN, InsertFails(c, applied)
    PROVE  Inv'
<1>1. c \in Registering
  BY DEF InsertFails, Registering, Received
<1>2. faults' \in 0..MaxFaults /\ UNCHANGED <<outside, process, token>> /\ Answer(c, 409)
  BY AccountsAssumption DEF InsertFails, StatementFails, Fault, Inv, TypeOK
<1>3. CASE ~ applied
  <2>1. UNCHANGED <<users, nextId>>
    BY <1>3 DEF InsertFails
  <2>2. token' \in [Clients -> Tokens \union {None}] /\ TokenSpeaksForOwner'
    BY <1>2, <2>1 DEF Inv, TypeOK, TokenSpeaksForOwner
  <2> QED
    BY <1>2, <2>1, <2>2, PlainEnd, StatusesOK
<1>4. CASE applied
  <2>1. users' = users \union {NewUser(c)} /\ nextId' = nextId + 1 /\ ~ Taken(request[c].email)
    BY <1>4 DEF InsertFails
  <2>2. /\ Registering' \subseteq Registering \ {c}
        /\ Handling'
        /\ pc' \in [Clients -> {"idle", "received", "known"}]
        /\ request' \in [Clients -> Requests \union {None}]
        /\ account' \in [Clients -> Users \union {None}]
        /\ answer' \in [Clients -> Statuses \union {None}]
    BY <1>2, <2>1, Ends, StatusesOK DEF process
  <2>3. IdsSuffice' /\ nextId <= MaxId /\ nextId' \in 1..(MaxId + 1)
    BY <1>1, <2>1, <2>2, OneEnds DEF Inv
  <2>4. /\ users' \subseteq Users /\ EmailsUnique' /\ TokenSpeaksForOwner'
        /\ \A u, v \in users' : u.id < nextId' /\ (u.id = v.id => u = v)
    BY <1>1, <1>2, <2>1, <2>3, UserAdded
  <2>5. TypeOK'
    BY <1>2, <2>2, <2>3, <2>4 DEF Inv, TypeOK, outside, process
  <2> QED
    BY <1>2, <2>2, <2>3, <2>4, <2>5 DEF Inv, Configured, ConfigLoads, outside, process
<1> QED
  BY <1>3, <1>4

\* With variables that could be read, a token has an expiry.
LEMMA ExpiryType ==
    ASSUME Inv, ConfigLoads
    PROVE  clock + IntEnv(ExpiryVar, DefaultExpiry) \in Int
<1>1. env[ExpiryVar] \in Numbers \union {Unset} /\ clock \in Int
  BY AccountsAssumption DEF ConfigLoads, Inv, TypeOK
<1>2. DefaultExpiry \in Int /\ \A h \in Numbers : h \in Int
  BY AccountsAssumption
<1>3. IntEnv(ExpiryVar, DefaultExpiry) \in Int
  BY <1>1, <1>2 DEF IntEnv
<1> QED
  BY <1>1, <1>3

\* A token is signed for the row that the handler knows.
LEMMA IssuePreserves ==
    ASSUME Inv, NEW c \in Clients, IssueToken(c)
    PROVE  Inv'
<1>1. /\ account[c] \in users /\ account[c].email = request[c].email
      /\ account[c].password = request[c].password
      /\ account[c] \in Users /\ request[c] \in Requests /\ ConfigLoads
  BY DEF IssueToken, Inv, Handling, Configured, TypeOK
<1>2. clock + IntEnv(ExpiryVar, DefaultExpiry) \in Int
  BY <1>1, ExpiryType
<1> DEFINE new == [id |-> account[c].id, email |-> account[c].email, by |-> request[c].password,
                   exp |-> clock + IntEnv(ExpiryVar, DefaultExpiry)]
           status == IF request[c].kind = "register" THEN 201 ELSE 200
<1>3. new \in Tokens
  BY <1>1, <1>2 DEF Tokens, Users, Requests
<1>4. [id |-> new.id, email |-> new.email, password |-> new.by] = account[c]
  BY <1>1 DEF Users
<1>5. /\ token' = [token EXCEPT ![c] = new] /\ Answer(c, status) /\ status \in Statuses
      /\ UNCHANGED <<outside, process, users, nextId>> /\ faults' \in 0..MaxFaults
  BY StatusesOK DEF IssueToken, Inv, TypeOK
<1> HIDE DEF new, status
<1>6. token' \in [Clients -> Tokens \union {None}]
  BY <1>3, <1>5 DEF Inv, TypeOK
<1>7. TokenSpeaksForOwner'
  <2>1. token \in [Clients -> Tokens \union {None}] /\ users' = users
    BY <1>5 DEF Inv, TypeOK
  <2>2. token'[c] = new /\ \A d \in Clients \ {c} : token'[d] = token[d]
    BY <1>5, <2>1
  <2> QED
    BY <1>1, <1>4, <2>1, <2>2 DEF TokenSpeaksForOwner, Inv
<1> QED
  BY <1>5, <1>6, <1>7, PlainEnd

\* The other ends of a handler change no account and no token.
LEMMA RefusalsPreserve ==
    ASSUME Inv, NEW c \in Clients, RegisterRefused(c) \/ LookupFails(c)
    PROVE  Inv'
<1>1. /\ Answer(c, 400) \/ Answer(c, 500) \/ Answer(c, 401)
      /\ UNCHANGED <<outside, process, users, nextId, token>>
      /\ faults' \in 0..MaxFaults
  BY AccountsAssumption DEF RegisterRefused, LookupFails, StatementFails, Fault, Inv, TypeOK
<1>2. token' \in [Clients -> Tokens \union {None}] /\ TokenSpeaksForOwner'
  BY <1>1 DEF Inv, TypeOK, TokenSpeaksForOwner
<1> QED
  BY <1>1, <1>2, PlainEnd, StatusesOK

\* A login finds the one account of its address, when the password is that of it.
LEMMA LookupPreserves ==
    ASSUME Inv, NEW c \in Clients, Lookup(c)
    PROVE  Inv'
<1>1. UNCHANGED <<outside, process, faults, users, nextId, token>>
  BY DEF Lookup
<1>2. token' \in [Clients -> Tokens \union {None}] /\ TokenSpeaksForOwner'
  BY <1>1 DEF Inv, TypeOK, TokenSpeaksForOwner
<1>3. CASE Answer(c, 401)
  BY <1>1, <1>2, <1>3, PlainEnd, StatusesOK DEF Inv, TypeOK
<1>4. CASE ~ Answer(c, 401)
  <2>1. PICK u \in Rows(request[c].email) :
            u.password = request[c].password /\ Go(c, u)
    <3>1. PICK v \in Rows(request[c].email) : v.password = request[c].password
      BY <1>4 DEF Lookup
    <3>2. PICK u \in Rows(request[c].email) : Go(c, u)
      BY <1>4, <3>1 DEF Lookup
    <3>3. u = v
      BY <3>1, <3>2 DEF Rows, Inv, EmailsUnique
    <3> QED
      BY <3>1, <3>2, <3>3
  <2>2. /\ u \in users /\ u \in Users /\ u.email = request[c].email
        /\ users \subseteq users' /\ u \in users' /\ api' = api /\ pc[c] = "received"
    BY <1>1, <2>1 DEF Rows, Inv, TypeOK, process, Lookup, Received
  <2>3. /\ Registering' \subseteq Registering \ {c}
        /\ Handling'
        /\ pc' \in [Clients -> {"idle", "received", "known"}]
        /\ request' \in [Clients -> Requests \union {None}]
        /\ account' \in [Clients -> Users \union {None}]
        /\ answer' \in [Clients -> Statuses \union {None}]
    BY <2>1, <2>2, Knows
  <2>4. IdsSuffice'
    BY <1>1, <2>3, NoneBegins DEF Inv
  <2>5. TypeOK'
    BY <1>1, <1>2, <2>3 DEF Inv, TypeOK, outside, process
  <2> QED
    BY <1>1, <1>2, <2>3, <2>4, <2>5 DEF Inv, EmailsUnique, Configured, ConfigLoads, outside, process
<1> QED
  BY <1>3, <1>4

\* JWTAuth changes nothing but what the client is answered.
LEMMA AuthenticatePreserves ==
    ASSUME Inv, NEW c \in Clients, Authenticate(c)
    PROVE  Inv'
<1>1. TypeOK'
  BY StatusesOK DEF Authenticate, Inv, TypeOK, outside, process
<1>2. EmailsUnique' /\ TokenSpeaksForOwner' /\ Handling' /\ Configured'
  BY DEF Authenticate, Inv, EmailsUnique, TokenSpeaksForOwner, Handling, Configured, ConfigLoads,
         outside, process
<1>3. Registering' = Registering
  BY DEF Authenticate, Registering, Received, Acceptable
<1>4. IdsSuffice'
  BY <1>3 DEF Authenticate, Inv, IdsSuffice
<1> QED
  BY <1>1, <1>2, <1>4 DEF Inv

\* Every step preserves the invariant.
LEMMA StepsPreserve == Inv /\ [Next]_vars => Inv'
<1> SUFFICES ASSUME Inv, [Next]_vars PROVE Inv'
  OBVIOUS
<1>1. CASE Tick \/ DbLost \/ DbBack \/ Run
  BY <1>1, ProcessPreserves
<1>2. CASE Crash
  BY <1>2, CrashPreserves
<1>3. ASSUME NEW c \in Clients, NEW r \in Requests, Submit(c, r) PROVE Inv'
  BY <1>3, SubmitPreserves
<1>4. ASSUME NEW c \in Clients, Handle(c) PROVE Inv'
  BY <1>4, InsertPreserves, InsertFailsPreserves, IssuePreserves, RefusalsPreserve,
     LookupPreserves DEF Handle
<1>5. ASSUME NEW c \in Clients, Authenticate(c) PROVE Inv'
  BY <1>5, AuthenticatePreserves
<1>6. CASE UNCHANGED vars
  <2>1. Registering' = Registering
    BY <1>6 DEF vars, handlers, Registering, Received, Acceptable
  <2> QED
    BY <1>6, <2>1 DEF vars, outside, process, handlers, Inv, TypeOK, EmailsUnique, Handling,
                      Configured, ConfigLoads, IdsSuffice, TokenSpeaksForOwner
<1> QED
  BY <1>1, <1>2, <1>3, <1>4, <1>5, <1>6 DEF Next

\* A process that is down, without accounts and without requests.
LEMMA InitOK == Init => Inv
<1> SUFFICES ASSUME Init PROVE Inv
  OBVIOUS
<1>1. Registering = {}
  BY DEF Init, Registering, Received
<1>2. IdsSuffice
  BY <1>1, FS_EmptySet, AccountsAssumption DEF Init, IdsSuffice
<1>3. TypeOK
  <2>1. 0 \in 0..(Attempts - 1) /\ 0 \in 0..MaxClock /\ 0 \in 0..MaxFaults /\ 1 \in 1..(MaxId + 1)
    BY AccountsAssumption
  <2> QED
    BY <2>1 DEF Init, TypeOK
<1> QED
  BY <1>2, <1>3 DEF Init, Inv, EmailsUnique, Handling, Configured, TokenSpeaksForOwner

(***************************************************************************)
(* The theorems.                                                           *)
(***************************************************************************)

\* Accounts, handlers and tokens are as they should be in every run.
THEOREM Invariant == Spec => []Inv
BY InitOK, StepsPreserve, PTL DEF Spec

\* Every variable keeps its type, and ids are unique and below the sequence.
THEOREM TypeCorrect == Spec => []TypeOK
BY Invariant, PTL DEF Inv

\* A token is kept only by who presented the password its account has.
THEOREM TokensSpeak == Spec => []TokenSpeaksForOwner
BY Invariant, PTL DEF Inv

\* All tokens for one address speak for one account.
THEOREM OneOwner == Spec => []OneOwnerPerAddress
<1>1. Inv => OneOwnerPerAddress
  <2> SUFFICES ASSUME Inv, NEW c \in Clients, NEW d \in Clients, token[c] # None,
                      token[d] # None, token[c].email = token[d].email
               PROVE  token[c].id = token[d].id /\ token[c].by = token[d].by
    BY DEF OneOwnerPerAddress
  <2> DEFINE row(e) == [id |-> token[e].id, email |-> token[e].email, password |-> token[e].by]
  <2>1. row(c) \in users /\ row(d) \in users
    BY DEF Inv, TokenSpeaksForOwner
  <2>2. row(c) = row(d)
    BY <2>1 DEF Inv, EmailsUnique
  <2>3. row(c).id = row(d).id /\ row(c).password = row(d).password
    BY <2>2
  <2> QED
    BY <2>3
<1> QED
  BY <1>1, Invariant, PTL

\* What a client is answered when its answer changes.
Truly(c) == /\ answer'[c] = 201 => Owns(c)
            /\ dbUp /\ faults' = faults =>
                  /\ answer'[c] = 409 => Taken(request[c].email)
                  /\ answer'[c] = 401 /\ pc[c] = "received" => ~ Owns(c)

\* An answer is that of its handler, and leaves the others as they are.
LEMMA AnswerOfOne ==
    ASSUME Inv, NEW d \in Clients, NEW status \in Statuses, Answer(d, status),
           NEW c \in Clients, answer'[c] # answer[c]
    PROVE  c = d /\ answer'[c] = status
BY DEF Answer, Inv, TypeOK

\* Whatever step changes an answer, it is a true one.
LEMMA StepsAnswerTruly ==
    ASSUME Inv, [Next]_vars, NEW c \in Clients, answer'[c] # answer[c]
    PROVE  Truly(c)
<1>1. answer \in [Clients -> Statuses \union {None}] /\ faults \in Nat /\ None \notin Int
  BY AccountsAssumption DEF Inv, TypeOK
<1>2. answer' # answer
  OBVIOUS
<1>3. PICK d \in Clients : (\E r \in Requests : Submit(d, r)) \/ Handle(d) \/ Authenticate(d)
  <2>1. ~ (Tick \/ DbLost \/ DbBack \/ Crash) /\ vars' # vars
    BY <1>2 DEF Tick, DbLost, DbBack, Crash, vars, handlers
  <2>2. ~ (Start \/ OpenDatabase \/ Listen)
    BY <1>2 DEF Start, OpenDatabase, Listen, handlers
  <2>3. ~ \E answers \in BOOLEAN : PingRedis(answers)
    BY <1>2 DEF PingRedis, handlers
  <2> QED
    BY <2>1, <2>2, <2>3 DEF Next, Run
<1>4. CASE \E r \in Requests : Submit(d, r)
  <2>1. c = d /\ answer'[c] = None
    BY <1>1, <1>4 DEF Submit
  <2> QED
    BY <1>1, <2>1 DEF Truly
<1>5. CASE Authenticate(d)
  <2>1. c = d /\ answer'[c] \in {200, 401} /\ pc[c] = "idle"
    BY <1>1, <1>5 DEF Authenticate
  <2> QED
    BY <2>1 DEF Truly
<1>6. CASE RegisterRefused(d)
  <2>1. PICK status \in {400, 500} : Answer(d, status)
    BY <1>6 DEF RegisterRefused
  <2>2. answer'[c] \in {400, 500}
    BY <2>1, AnswerOfOne, StatusesOK
  <2> QED
    BY <2>2 DEF Truly
<1>7. CASE Insert(d)
  <2>1. Taken(request[d].email) /\ Answer(d, 409)
    BY <1>2, <1>7 DEF Insert, Go
  <2>2. c = d /\ answer'[c] = 409
    BY <2>1, AnswerOfOne, StatusesOK
  <2> QED
    BY <2>1, <2>2 DEF Truly
<1>8. CASE (\E applied \in BOOLEAN : InsertFails(d, applied)) \/ LookupFails(d)
  <2>1. StatementFails /\ (Answer(d, 409) \/ Answer(d, 401))
    BY <1>8 DEF InsertFails, LookupFails
  <2>2. answer'[c] \in {401, 409}
    BY <2>1, AnswerOfOne, StatusesOK
  <2>3. ~ (dbUp /\ faults' = faults)
    BY <1>1, <2>1 DEF StatementFails, Fault
  <2> QED
    BY <2>2, <2>3 DEF Truly
<1>9. CASE Lookup(d)
  <2>1. /\ Answer(d, 401)
        /\ ~ \E u \in Rows(request[d].email) : u.password = request[d].password
    BY <1>2, <1>9 DEF Lookup, Go
  <2>2. c = d /\ answer'[c] = 401
    BY <2>1, AnswerOfOne, StatusesOK
  <2> QED
    BY <2>1, <2>2 DEF Truly, Owns, Rows
<1>10. CASE IssueToken(d)
  <2>1. Answer(d, 201) \/ Answer(d, 200)
    BY <1>10 DEF IssueToken
  <2>2. c = d /\ answer'[c] \in {200, 201}
    BY <2>1, AnswerOfOne, StatusesOK
  <2>3. Owns(d)
    BY <1>10 DEF IssueToken, Inv, Handling, Owns
  <2> QED
    BY <2>2, <2>3 DEF Truly
<1> QED
  BY <1>3, <1>4, <1>5, <1>6, <1>7, <1>8, <1>9, <1>10 DEF Handle

\* 201, 409 and 401 say what is in the table, whatever went wrong before.
THEOREM AnswersAreTrue == Spec => AnswersTrue
<1>1. Inv /\ [Next]_vars =>
        [\A c \in Clients :
            answer'[c] # answer[c] =>
                /\ answer'[c] = 201 => Owns(c)
                /\ dbUp /\ faults' = faults =>
                      /\ answer'[c] = 409 => Taken(request[c].email)
                      /\ answer'[c] = 401 /\ pc[c] = "received" => ~ Owns(c)]_vars
  BY StepsAnswerTruly DEF Truly
<1> QED
  BY <1>1, Invariant, PTL DEF Spec, AnswersTrue

(***************************************************************************)
(* The accounts implement Registry.  A row becomes an account in the step  *)
(* that inserts it and a token a session in the step that signs it; every  *)
(* other step changes neither.                                             *)
(***************************************************************************)

LEMMA RegistryInit == Init => Promise!Init
BY DEF Init, Promise!Init, Session

\* The row that is inserted is of no address and no id that exists.
LEMMA InsertRegisters ==
    ASSUME Inv, NEW c \in Registering, ~ Taken(request[c].email), nextId <= MaxId,
           users' = users \union {NewUser(c)}, nextId' = nextId + 1, token' = token
    PROVE  Promise!Next
<1>1. NewUser(c) \in Users
  BY UserAdded
<1>2. NewUser(c).id = nextId /\ NewUser(c).email = request[c].email
  BY DEF NewUser
<1>3. \A u \in users : u.id \in Nat /\ u.id < nextId /\ u.email # request[c].email
  BY DEF Inv, TypeOK, Users, Taken
<1>4. \A u \in users : NewUser(c).id # u.id /\ NewUser(c).email # u.email
  BY <1>2, <1>3 DEF Inv, TypeOK
<1>5. Promise!Register(NewUser(c))
  BY <1>4 DEF Promise!Register, Session
<1> QED
  BY <1>1, <1>5 DEF Promise!Next

\* The token that is signed says what its holder presented.
LEMMA IssueOpens ==
    ASSUME Inv, NEW c \in Clients, IssueToken(c)
    PROVE  Promise!Next
<1> DEFINE row == account[c]
           new == [id |-> row.id, email |-> row.email, by |-> request[c].password,
                   exp |-> clock + IntEnv(ExpiryVar, DefaultExpiry)]
<1>1. row \in users /\ row \in Users /\ row.password = request[c].password
  BY DEF IssueToken, Inv, Handling, TypeOK
<1>2. token' = [token EXCEPT ![c] = new] /\ users' = users
  BY DEF IssueToken
<1>3. [id |-> new.id, email |-> new.email, password |-> new.by] = row
  BY <1>1 DEF Users
<1>4. new \in Tokens
  <2>1. clock + IntEnv(ExpiryVar, DefaultExpiry) \in Int
    BY ExpiryType DEF IssueToken, Inv, Handling, Configured
  <2> QED
    BY <1>1, <2>1 DEF Tokens, Users, Inv, Handling, IssueToken, Requests
<1>5. new # None
  BY <1>4, NoneAssumption
<1> HIDE DEF row, new
<1>6. token \in [Clients -> Tokens \union {None}]
  BY DEF Inv, TypeOK
<1>7. token'[c] = new /\ \A d \in Clients \ {c} : token'[d] = token[d]
  BY <1>2, <1>6
<1>8. Session(c)' = row /\ \A d \in Clients \ {c} : Session(d)' = Session(d)
  BY <1>3, <1>5, <1>7 DEF Session
<1>9. [d \in Clients |-> Session(d)]' = [[d \in Clients |-> Session(d)] EXCEPT ![c] = row]
  BY <1>8
<1>10. Promise!Open(c, row)
  BY <1>1, <1>2, <1>9 DEF Promise!Open
<1> QED
  BY <1>1, <1>10 DEF Promise!Next

\* Every step registers an account, opens a session, or is invisible.
LEMMA RegistryStep == Inv /\ [Next]_vars => [Promise!Next]_(Promise!vars)
<1> SUFFICES ASSUME Inv, [Next]_vars PROVE [Promise!Next]_(Promise!vars)
  OBVIOUS
<1>1. ASSUME UNCHANGED <<users, token>> PROVE UNCHANGED Promise!vars
  BY <1>1 DEF Promise!vars, Session
<1>2. ASSUME NEW c \in Clients, Insert(c) PROVE [Promise!Next]_(Promise!vars)
  <2>1. CASE Taken(request[c].email)
    BY <1>1, <1>2, <2>1 DEF Insert
  <2>2. CASE ~ Taken(request[c].email)
    <3>1. /\ c \in Registering /\ nextId' = nextId + 1 /\ token' = token
          /\ users' = users \union {NewUser(c)}
      BY <1>2, <2>2 DEF Insert, Registering, Received
    <3>2. nextId <= MaxId
      BY <3>1, IdLeft
    <3> QED
      BY <2>2, <3>1, <3>2, InsertRegisters
  <2> QED
    BY <2>1, <2>2
<1>3. ASSUME NEW c \in Clients, NEW applied \in BOOLEAN, InsertFails(c, applied)
      PROVE  [Promise!Next]_(Promise!vars)
  <2>1. CASE ~ applied
    BY <1>1, <1>3, <2>1 DEF InsertFails
  <2>2. CASE applied
    <3>1. /\ c \in Registering /\ nextId' = nextId + 1 /\ token' = token
          /\ users' = users \union {NewUser(c)} /\ ~ Taken(request[c].email)
      BY <1>3, <2>2 DEF InsertFails, Registering, Received
    <3>2. nextId <= MaxId
      BY <3>1, IdLeft
    <3> QED
      BY <3>1, <3>2, InsertRegisters
  <2> QED
    BY <2>1, <2>2
<1>4. ASSUME NEW c \in Clients, IssueToken(c) PROVE [Promise!Next]_(Promise!vars)
  BY <1>4, IssueOpens
<1>5. ASSUME NEW c \in Clients, RegisterRefused(c) \/ Lookup(c) \/ LookupFails(c) \/ Authenticate(c)
      PROVE  [Promise!Next]_(Promise!vars)
  BY <1>1, <1>5 DEF RegisterRefused, Lookup, LookupFails, Authenticate
<1>6. ASSUME NEW c \in Clients, NEW r \in Requests, Submit(c, r)
      PROVE  [Promise!Next]_(Promise!vars)
  BY <1>1, <1>6 DEF Submit
<1>7. CASE Tick \/ DbLost \/ DbBack \/ Run \/ Crash
  BY <1>1, <1>7 DEF Tick, DbLost, DbBack, Run, Start, OpenDatabase, PingRedis, Listen, Crash, handlers
<1>8. CASE UNCHANGED vars
  BY <1>1, <1>8 DEF vars, handlers
<1> QED
  BY <1>2, <1>3, <1>4, <1>5, <1>6, <1>7, <1>8 DEF Next, Handle

\* The accounts keep the promise of Registry, for any clients that race, any
\* statements that fail with or without effect, and any restarts.
THEOREM RegistryImplemented == Spec => ImplementsRegistry
BY RegistryInit, RegistryStep, Invariant, PTL DEF Spec, ImplementsRegistry, Promise!Spec

=============================================================================
