------------------------------- MODULE Accounts --------------------------------
(***************************************************************************)
(* Backend_API_Auth: the process behind the API, from its start to its     *)
(* crash, and the accounts: registration, login and the tokens that        *)
(* JWTAuth accepts.  Handlers run concurrently and share the users table.  *)
(*                                                                         *)
(* A token is what it says (account, address, expiry); `by` is history,    *)
(* the password its holder presented for it.  Passwords stand for their    *)
(* bcrypt hashes, which are equal to the plain text or not.                *)
(***************************************************************************)
EXTENDS Integers, FiniteSets

CONSTANTS Clients, Emails,
          Passwords,       \* those that can be registered
          Unfit,           \* one that cannot: too short for the binding, or too
                           \* long for bcrypt
          IntVars,         \* the variables LoadConfig reads with getIntEnv
          ExpiryVar,       \* of them, JWT_EXPIRY_HOURS
          PortVar,         \* and SERVER_PORT
          DefaultExpiry, DefaultPort,
          Numbers,         \* the numbers a variable may be set to
          Unset, Garbage,  \* no value; one that is not a number
          Attempts,        \* the pings of NewCacheService
          MaxClock,        \* bound: hours told apart; the clock then stands still
          MaxId,           \* bound: INSERTs that draw an id
          MaxFaults,       \* bound: crashes, statements that fail, losses of the database
          None

ASSUME AccountsAssumption ==
    /\ IsFiniteSet(Clients)
    /\ ExpiryVar \in IntVars /\ PortVar \in IntVars
    /\ Numbers \subseteq Int /\ DefaultExpiry \in Nat /\ DefaultPort \in Nat
    /\ {Unset, Garbage, None} \cap Int = {} /\ Unset # Garbage
    /\ Attempts \in Nat \ {0} /\ MaxClock \in Nat /\ MaxId \in Nat /\ MaxFaults \in Nat

VARIABLES env,        \* the environment of the process
          api,        \* "down", "starting", "pinging", "listening", "serving"
          pings,      \* pings of Redis that failed in this start
          dbUp, clock, faults,
          users,      \* rows [id, email, password]
          nextId,     \* the sequence behind users.id
          pc,         \* [Clients -> "idle", "received", "known"]: its request
          request,    \* [Clients -> what it asks, or None]
          account,    \* [Clients -> the row its request created or found]
          answer,     \* [Clients -> the status of the last answer, or None]
          token       \* [Clients -> the token it keeps]

process  == <<api, pings>>
outside  == <<env, dbUp, clock>>
handlers == <<pc, request, account, answer, token>>
vars     == <<outside, process, faults, users, nextId, handlers>>

AllPasswords == Passwords \union {Unfit}
Requests == [kind : {"register", "login"}, email : Emails, password : AllPasswords]
Users    == [id : 1..MaxId, email : Emails, password : Passwords]
Tokens   == [id : 1..MaxId, email : Emails, exp : Int, by : AllPasswords]
Statuses == {200, 201, 400, 401, 409, 500}

\* The mark for no token is not a token.
ASSUME NoneAssumption == None \notin Tokens

\* getIntEnv: an empty variable means the fallback.
IntEnv(v, fallback) == IF env[v] = Unset THEN fallback ELSE env[v]
ConfigLoads == \A v \in IntVars : env[v] # Garbage

\* The numbers a listener takes for a port, whatever Atoi made of the variable.
Ports == 0..65535
PortUsable == IntEnv(PortVar, DefaultPort) \in Ports

Init == /\ env \in [IntVars -> Numbers \union {Unset, Garbage}]
        /\ api = "down" /\ pings = 0 /\ dbUp \in BOOLEAN
        /\ clock = 0 /\ faults = 0 /\ users = {} /\ nextId = 1
        /\ pc = [c \in Clients |-> "idle"]
        /\ request = [c \in Clients |-> None]
        /\ account = [c \in Clients |-> None]
        /\ answer = [c \in Clients |-> None]
        /\ token = [c \in Clients |-> None]

-----------------------------------------------------------------------------
(* The surroundings. *)

Fault == faults < MaxFaults /\ faults' = faults + 1

Tick == /\ clock < MaxClock /\ clock' = clock + 1
        /\ UNCHANGED <<env, dbUp, process, faults, users, nextId, handlers>>

DbLost == /\ dbUp /\ Fault /\ dbUp' = FALSE
          /\ UNCHANGED <<env, clock, process, users, nextId, handlers>>
DbBack == /\ ~ dbUp /\ dbUp' = TRUE
          /\ UNCHANGED <<env, clock, process, faults, users, nextId, handlers>>

-----------------------------------------------------------------------------
(* main. *)

\* A process is started; log.Fatalf ends it when a variable is no number, or the
\* database cannot be reached or its users table not migrated.
Start == /\ api = "down"
         /\ api' = IF ConfigLoads THEN "starting" ELSE "down"
         /\ UNCHANGED <<pings, outside, faults, users, nextId, handlers>>

OpenDatabase == /\ api = "starting"
                /\ api' = IF dbUp THEN "pinging" ELSE "down"
                /\ UNCHANGED <<pings, outside, faults, users, nextId, handlers>>

PingRedis_Slip(answers) ==
    /\ api = "pinging"
    /\ pings' = IF answers \/ pings + 1 = Attempts THEN 0 ELSE pings + 1
    /\ api' = IF answers THEN "listening" ELSE IF pings + 1 = Attempts THEN "down" ELSE "pinging"
    /\ UNCHANGED <<outside, faults, users, nextId, handlers>>

\* NewCacheService: after the last ping that fails the API goes on without a cache.
PingRedis(answers) ==
    /\ api = "pinging"
    /\ LET done == answers \/ pings + 1 = Attempts
       IN  /\ pings' = IF done THEN 0 ELSE pings + 1
           /\ api' = IF done THEN "listening" ELSE "pinging"
    /\ UNCHANGED <<outside, faults, users, nextId, handlers>>

\* router.Run: log.Fatalf ends the process when it cannot listen, for the number
\* of the port or because something else has it.
Listen == /\ api = "listening"
          /\ \/ api' = (IF PortUsable THEN "serving" ELSE "down") /\ UNCHANGED faults
             \/ api' = "down" /\ Fault
          /\ UNCHANGED <<pings, outside, users, nextId, handlers>>

\* The process dies and takes its handlers along; their clients get no answer.
Crash ==
    /\ api # "down" /\ Fault
    /\ api' = "down" /\ pings' = 0
    /\ pc' = [c \in Clients |-> "idle"]
    /\ request' = [c \in Clients |-> None]
    /\ account' = [c \in Clients |-> None]
    /\ UNCHANGED <<outside, users, nextId, answer, token>>

-----------------------------------------------------------------------------
(* The handlers. *)

Answer(c, status) == /\ pc' = [pc EXCEPT ![c] = "idle"]
                     /\ answer' = [answer EXCEPT ![c] = status]
                     /\ request' = [request EXCEPT ![c] = None]
                     /\ account' = [account EXCEPT ![c] = None]

Go(c, row) == /\ pc' = [pc EXCEPT ![c] = "known"]
              /\ account' = [account EXCEPT ![c] = row]
              /\ UNCHANGED <<request, answer>>

\* The database is away, or an error occurs with it there.
StatementFails == Fault \/ (~ dbUp /\ UNCHANGED faults)

Received(c, kind) == pc[c] = "received" /\ request[c].kind = kind
Acceptable(c) == request[c].password \in Passwords

\* Registrations that will draw an id.
Registering == {c \in Clients : Received(c, "register") /\ Acceptable(c)}

Submit(c, r) ==
    /\ api = "serving" /\ pc[c] = "idle"
    /\ r.kind = "register" => nextId + Cardinality(Registering) <= MaxId
    /\ pc' = [pc EXCEPT ![c] = "received"]
    /\ request' = [request EXCEPT ![c] = r]
    /\ answer' = [answer EXCEPT ![c] = None]
    /\ UNCHANGED <<outside, process, faults, users, nextId, account, token>>

RegisterRefused_Slip(c) ==
    /\ Received(c, "register") /\ ~ Acceptable(c)
    /\ Answer(c, 409)
    /\ UNCHANGED <<outside, process, faults, users, nextId, token>>

\* 400 from the binding (min=8), 500 from bcrypt (72 bytes).
RegisterRefused(c) ==
    /\ Received(c, "register") /\ ~ Acceptable(c)
    /\ \E status \in {400, 500} : Answer(c, status)
    /\ UNCHANGED <<outside, process, faults, users, nextId, token>>

\* The unique index on users.email.
Taken_Slip(email) == FALSE
Taken(email) == \E u \in users : u.email = email

NewUser(c) == [id |-> nextId, email |-> request[c].email, password |-> request[c].password]

\* db.Create: the address is inserted, or found taken by the unique index; an id
\* is drawn either way.
Insert(c) ==
    /\ Received(c, "register") /\ Acceptable(c)
    /\ dbUp
    /\ IF Taken(request[c].email)
       THEN Answer(c, 409) /\ UNCHANGED users
       ELSE users' = users \union {NewUser(c)} /\ Go(c, NewUser(c))
    /\ nextId' = nextId + 1
    /\ UNCHANGED <<outside, process, faults, token>>

\* Any other error is answered 409 too; the row may be there, if only the reply
\* of the database was lost.
InsertFails(c, applied) ==
    /\ Received(c, "register") /\ Acceptable(c)
    /\ StatementFails
    /\ applied => dbUp /\ ~ Taken(request[c].email)
    /\ IF applied THEN users' = users \union {NewUser(c)} /\ nextId' = nextId + 1
                  ELSE UNCHANGED <<users, nextId>>
    /\ Answer(c, 409)
    /\ UNCHANGED <<outside, process, token>>

Rows(email) == {u \in users : u.email = email}

Lookup_Slip(c) ==
    /\ Received(c, "login")
    /\ dbUp
    /\ IF Taken(request[c].email)
       THEN \E u \in Rows(request[c].email) : Go(c, u)
       ELSE Answer(c, 401)
    /\ UNCHANGED <<outside, process, faults, users, nextId, token>>

\* Login: 401 without a row, and with a row of another password.
Lookup(c) ==
    /\ Received(c, "login")
    /\ dbUp
    /\ IF \E u \in Rows(request[c].email) : u.password = request[c].password
       THEN \E u \in Rows(request[c].email) : Go(c, u)
       ELSE Answer(c, 401)
    /\ UNCHANGED <<outside, process, faults, users, nextId, token>>

\* An error of the database is answered 401 as well.
LookupFails(c) ==
    /\ Received(c, "login")
    /\ StatementFails
    /\ Answer(c, 401)
    /\ UNCHANGED <<outside, process, users, nextId, token>>

\* GenerateToken, from the row and the hours of the configuration.
IssueToken(c) ==
    /\ pc[c] = "known"
    /\ token' = [token EXCEPT ![c] =
          [id |-> account[c].id, email |-> account[c].email, by |-> request[c].password,
           exp |-> clock + IntEnv(ExpiryVar, DefaultExpiry)]]
    /\ Answer(c, IF request[c].kind = "register" THEN 201 ELSE 200)
    /\ UNCHANGED <<outside, process, faults, users, nextId>>

\* JWTAuth before a handler of /api: the token alone decides.
Authenticate(c) ==
    /\ api = "serving" /\ pc[c] = "idle" /\ token[c] # None
    /\ answer' = [answer EXCEPT ![c] = IF clock < token[c].exp THEN 200 ELSE 401]
    /\ UNCHANGED <<outside, process, faults, users, nextId, pc, request, account, token>>

-----------------------------------------------------------------------------
Run == Start \/ OpenDatabase \/ (\E answers \in BOOLEAN : PingRedis(answers)) \/ Listen

Handle(c) == \/ RegisterRefused(c)
             \/ Insert(c)
             \/ \E applied \in BOOLEAN : InsertFails(c, applied)
             \/ Lookup(c)
             \/ LookupFails(c)
             \/ IssueToken(c)

Next == \/ Tick \/ DbLost \/ DbBack
        \/ Run \/ Crash
        \/ \E c \in Clients : \/ \E r \in Requests : Submit(c, r)
                              \/ Handle(c)
                              \/ Authenticate(c)

Spec == Init /\ [][Next]_vars

\* The container is restarted (restart: unless-stopped, and the Deployment), and
\* the calls of its main return.
FairSpec == Spec /\ WF_vars(Run)

-----------------------------------------------------------------------------
(* What must hold. *)

\* Every variable has its type, no two accounts share an id, and the sequence is
\* ahead of all of them.
TypeOK ==
    /\ env \in [IntVars -> Numbers \union {Unset, Garbage}]
    /\ api \in {"down", "starting", "pinging", "listening", "serving"}
    /\ pings \in 0..(Attempts - 1) /\ dbUp \in BOOLEAN
    /\ clock \in 0..MaxClock /\ faults \in 0..MaxFaults
    /\ users \subseteq Users
    /\ nextId \in 1..(MaxId + 1)
    /\ \A u, v \in users : u.id < nextId /\ (u.id = v.id => u = v)
    /\ pc \in [Clients -> {"idle", "received", "known"}]
    /\ request \in [Clients -> Requests \union {None}]
    /\ account \in [Clients -> Users \union {None}]
    /\ answer \in [Clients -> Statuses \union {None}]
    /\ token \in [Clients -> Tokens \union {None}]

\* A token names an account that exists, and whoever keeps it presented the
\* password under which that account was registered, in whatever order
\* registrations, logins, failing statements and restarts came.
TokenSpeaksForOwner ==
    \A c \in Clients : token[c] # None =>
        [id |-> token[c].id, email |-> token[c].email, password |-> token[c].by] \in users

\* Clients that register one address at the same time do not both get in: all
\* tokens for an address, of now and later, speak for one account.
OneOwnerPerAddress ==
    \A c, d \in Clients :
        token[c] # None /\ token[d] # None /\ token[c].email = token[d].email =>
            token[c].id = token[d].id /\ token[c].by = token[d].by

\* handlers/auth.go:50-62 and 72-81, whatever failed before, raced, or was lost
\* on its way: 201 is answered to the owner of the account; 409 "email already
\* registered" only while it is, and 401 only while no account is of the address
\* and the password given (unless the statement behind the answer failed).  Who
\* got no answer to a registration that was carried out is refused a second one,
\* and can log in.
Owns(c) == \E u \in users : u.email = request[c].email /\ u.password = request[c].password
AnswersTrue ==
    [][\A c \in Clients :
          answer'[c] # answer[c] =>
              /\ answer'[c] = 201 => Owns(c)
              /\ dbUp /\ faults' = faults =>
                    /\ answer'[c] = 409 => Taken(request[c].email)
                    /\ answer'[c] = 401 /\ pc[c] = "received" => ~ Owns(c)]_vars

\* The accounts keep the promise of Registry: the table and the tokens change as
\* if every registration and every login happened at one instant, the one in which
\* its statement is carried out or its token signed.
Session(c) == IF token[c] = None THEN None
              ELSE [id |-> token[c].id, email |-> token[c].email, password |-> token[c].by]
Promise == INSTANCE Registry WITH Holders <- Clients, Possible <- Users, NoSession <- None,
                                  registered <- users, session <- [c \in Clients |-> Session(c)]
ImplementsRegistry == Promise!Spec

\* With an environment it can read, a port it can listen on and a database that
\* stays, the API comes to serve for good, through losses of the database,
\* crashes, ports that were taken, and with or without Redis.
ServesAtLast == ConfigLoads /\ PortUsable /\ <>[]dbUp => <>[](api = "serving")

=============================================================================
