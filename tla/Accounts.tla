------------------------------ MODULE Accounts ------------------------------
(***************************************************************************)
(* Accounts and tokens of the relay: registration, login and the           *)
(* management of auth tokens (localup-api handlers.rs and middleware), and *)
(* their use by the control plane (localup-control validate_auth_token).   *)
(*                                                                         *)
(* A session token opens the API, an auth token opens tunnels.  Requests   *)
(* are calls that run concurrently; one action is one access to the        *)
(* database.  A call that has read a row may write it later.               *)
(***************************************************************************)
EXTENDS Integers, FiniteSets

CONSTANTS
    User,
    Request,       \* calls of users to the API, and connections of clients
    MaxTokens      \* bound: tokens made

ASSUME AccountAssumption == MaxTokens \in Nat

Token == 1..MaxTokens

VARIABLES
    users,         \* the table users
    rows,          \* the table auth_tokens: [Token -> row]
    made,          \* the JWTs: [Token -> [user, type]], type "none" for those not made
    given,         \* those that their user has been told
    expired,       \* those past their expiry
    request,       \* the calls
    checks,        \* what the relay's program has given its tunnel handler to check by
    tunnels,       \* tokens with which a tunnel was opened
    revoked,       \* history: deactivated or deleted, and not activated again
    orphans        \* history: default tokens whose row could not be inserted

tables == <<users, rows>>
accountVars == <<users, rows, made, given, expired, request, checks, tunnels, revoked, orphans>>

NoRecord == [user |-> "none", default |-> FALSE, active |-> FALSE, used |-> FALSE]
Quiet == [op |-> "none", at |-> "idle", user |-> "none", token |-> 0, copy |-> NoRecord]

\* TunnelHandler::new and with_database: the exit node gives its handler a validator and the
\* database, the `relay' command and the library only the validator, and that only when a
\* secret is configured.
Checks == {"database", "jwt", "nothing"}

AccountsInit ==
    /\ checks \in Checks
    /\ users = {} /\ rows = [t \in Token |-> NoRecord]
    /\ made = [t \in Token |-> [user |-> "none", type |-> "none"]]
    /\ given = {} /\ expired = {} /\ request = [r \in Request |-> Quiet]
    /\ tunnels = {} /\ revoked = {} /\ orphans = {}

Step(r, l) == request' = [request EXCEPT ![r].at = l]
Answer(r) == request' = [request EXCEPT ![r] = [Quiet EXCEPT !.at = "done"]]
Found(t) == rows[t] # NoRecord
Unmade == {t \in Token : made[t].type = "none"}
Fresh == CHOOSE t \in Unmade : \A s \in Unmade : t <= s

-----------------------------------------------------------------------------
\* Anyone may register or log in, the latter with the right password.
BeginRegister(r, u) ==
    /\ request[r].at = "idle" /\ u \notin users          \* EMAIL_EXISTS otherwise
    /\ request' = [request EXCEPT ![r] = [Quiet EXCEPT !.op = "register", !.at = "user", !.user = u]]
    /\ UNCHANGED <<tables, made, given, expired, tunnels, revoked, orphans, checks>>

\* The email is unique: the second of two registrations fails here.
InsertUser(r) ==
    /\ request[r].at = "user"
    /\ IF request[r].user \in users THEN Answer(r) /\ UNCHANGED users
       ELSE Step(r, "default") /\ users' = users \cup {request[r].user}
    /\ UNCHANGED <<rows, made, given, expired, tunnels, revoked, orphans, checks>>

BeginLogin(r, u) ==
    /\ request[r].at = "idle" /\ u \in users
    /\ LET none == \A t \in Token : ~(rows[t].user = u /\ rows[t].default) IN
       request' = [request EXCEPT ![r] = [Quiet EXCEPT !.op = "login", !.user = u,
                                          !.at = IF none THEN "default" ELSE "session"]]
    /\ UNCHANGED <<tables, made, given, expired, tunnels, revoked, orphans, checks>>

\* The default auth token of a user.  Its row may fail to be inserted, which is only logged.
InsertDefault(r) ==
    /\ request[r].at = "default" /\ Unmade # {}
    /\ made' = [made EXCEPT ![Fresh] = [user |-> request[r].user, type |-> "auth"]]
    /\ \/ /\ rows' = [rows EXCEPT ![Fresh] = [user |-> request[r].user, default |-> TRUE,
                                              active |-> TRUE, used |-> FALSE]]
          /\ UNCHANGED orphans
       \/ orphans' = orphans \cup {Fresh} /\ UNCHANGED rows
    /\ Step(r, "session")
    /\ UNCHANGED <<users, expired, tunnels, revoked, checks>>

\* Registration tells the user the token, saved or not ...
RegisterDefault(r) ==
    /\ request[r].op = "register" /\ InsertDefault(r)
    /\ given' = given \cup {Fresh}

\* ... login makes one for a user who has none, and never tells it.
LoginDefault(r) ==
    /\ request[r].op = "login" /\ InsertDefault(r)
    /\ UNCHANGED given

\* The session token, for seven days.
GiveSession(r) ==
    /\ request[r].at = "session" /\ Unmade # {}
    /\ made' = [made EXCEPT ![Fresh] = [user |-> request[r].user, type |-> "session"]]
    /\ given' = given \cup {Fresh}
    /\ Answer(r)
    /\ UNCHANGED <<tables, expired, tunnels, revoked, orphans, checks>>

-----------------------------------------------------------------------------
\* require_auth: a session token that has not expired.  The user is the token's.
Sessions == {t \in given : made[t].type = "session" /\ t \notin expired}

create_auth_token(r) ==
    /\ request[r].at = "idle" /\ Unmade # {}
    /\ \E s \in Sessions :
         LET u == made[s].user t == Fresh IN
         /\ made' = [made EXCEPT ![t] = [user |-> u, type |-> "auth"]]
         /\ rows' = [rows EXCEPT ![t] = [user |-> u, default |-> FALSE, active |-> TRUE, used |-> FALSE]]
         /\ given' = given \cup {t}
    /\ Answer(r)
    /\ UNCHANGED <<users, expired, tunnels, revoked, orphans, checks>>

\* update_auth_token and delete_auth_token read the row and check whose it is ...
FindOwn(r) ==
    /\ request[r].at = "idle"
    /\ \E s \in Sessions, t \in Token, op \in {"activate", "deactivate", "rename", "delete"} :
         /\ Found(t) /\ rows[t].user = made[s].user
         /\ request' = [request EXCEPT ![r] = [op |-> op, at |-> "write", user |-> made[s].user,
                                               token |-> t, copy |-> rows[t]]]
    /\ UNCHANGED <<tables, made, given, expired, tunnels, revoked, orphans, checks>>

\* Fault: every column of the row that was read is written back.
Update_WholeRow(row, copy, op) ==
    IF op = "activate" THEN [copy EXCEPT !.active = TRUE]
    ELSE IF op = "deactivate" THEN [copy EXCEPT !.active = FALSE]
    ELSE IF op = "touch" THEN [copy EXCEPT !.used = TRUE] ELSE copy

\* An update writes the columns that were set, and no others.
Update(row, copy, op) ==
    IF op = "activate" THEN [row EXCEPT !.active = TRUE]
    ELSE IF op = "deactivate" THEN [row EXCEPT !.active = FALSE]
    ELSE IF op = "touch" THEN [row EXCEPT !.used = TRUE] ELSE row

\* ... and write it; a row that is gone by now is an error, and the database may fail.
WriteOwn(r) ==
    /\ request[r].at = "write"
    /\ LET t == request[r].token op == request[r].op IN
       \/ /\ rows' = IF ~Found(t) THEN rows
                     ELSE IF op = "delete" THEN [rows EXCEPT ![t] = NoRecord]
                     ELSE [rows EXCEPT ![t] = Update(@, request[r].copy, op)]
          /\ revoked' = IF op \in {"delete", "deactivate"} THEN revoked \cup {t}
                        ELSE IF op = "activate" /\ Found(t) THEN revoked \ {t} ELSE revoked
       \/ UNCHANGED <<rows, revoked>>
    /\ Answer(r)
    /\ UNCHANGED <<users, made, given, expired, tunnels, orphans, checks>>

-----------------------------------------------------------------------------
\* What validate_auth_token accepts: without a validator anything, without a database
\* every auth token that has not expired.
Accepted(t) ==
    \/ checks = "nothing"
    \/ /\ made[t].type = "auth" /\ t \notin expired
       /\ checks = "database" => Found(t) /\ rows[t].active /\ rows[t].user = made[t].user

\* A client connects with a token it was given.  The database may fail, which refuses it;
\* last_used_at is written afterwards.
Validate(r) ==
    /\ request[r].at = "idle"
    /\ \E t \in given :
         \/ /\ Accepted(t) /\ tunnels' = tunnels \cup {t}
            /\ IF checks = "database"
               THEN request' = [request EXCEPT ![r] = [op |-> "touch", at |-> "touch", user |-> made[t].user,
                                                       token |-> t, copy |-> rows[t]]]
               ELSE Answer(r)
         \/ (~Accepted(t) \/ checks = "database") /\ Answer(r) /\ UNCHANGED tunnels
    /\ UNCHANGED <<tables, made, given, expired, revoked, orphans, checks>>

Touch(r) ==
    /\ request[r].at = "touch"
    /\ LET t == request[r].token IN
       \/ rows' = IF Found(t) THEN [rows EXCEPT ![t] = Update(@, request[r].copy, "touch")] ELSE rows
       \/ UNCHANGED rows                                 \* a failure is only logged
    /\ Answer(r)
    /\ UNCHANGED <<users, made, given, expired, tunnels, revoked, orphans, checks>>

\* A session ends after a week; a default token never expires.
Expire(t) ==
    /\ made[t].type # "none" /\ t \notin expired /\ ~rows[t].default
    /\ expired' = expired \cup {t}
    /\ UNCHANGED <<tables, made, given, request, tunnels, revoked, orphans, checks>>

RequestStep(r) ==
    \/ \E u \in User : BeginRegister(r, u) \/ BeginLogin(r, u)
    \/ InsertUser(r) \/ RegisterDefault(r) \/ LoginDefault(r) \/ GiveSession(r)
    \/ create_auth_token(r) \/ FindOwn(r) \/ WriteOwn(r) \/ Validate(r) \/ Touch(r)

AccountsNext == (\E r \in Request : RequestStep(r)) \/ \E t \in Token : Expire(t)

AccountsSpec == AccountsInit /\ [][AccountsNext]_accountVars
-----------------------------------------------------------------------------
\* A token that was revoked is accepted no more, whatever calls had read its row before,
\* where the handler has the database (the exit node; the `relay' command checks the JWT
\* only, main.rs:2793).  One that its user was given is accepted until it is revoked or
\* expires, unless it is a default token whose row could not be saved (handlers.rs:2655).
\* And where anything is checked at all, no tunnel was opened with a session token.
TokensHonoured ==
    /\ checks = "database" => \A t \in revoked : ~Accepted(t)
    /\ \A t \in given \ (revoked \cup expired \cup orphans) : made[t].type = "auth" => Accepted(t)
    /\ checks # "nothing" => \A t \in tunnels : made[t].type = "auth"
=============================================================================
