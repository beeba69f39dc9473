----------------------------- MODULE ApiProofs -----------------------------
(***************************************************************************)
(* Proofs about the management API, for any number of calls, domains,      *)
(* users and tokens, and about the start of the relay that serves it.      *)
(*                                                                         *)
(* Accounts: whatever calls had read a row before, a token that was        *)
(* revoked opens no tunnel, and one that was not, does.  Domains: whatever *)
(* calls, restarts and wildcards cross, a certificate is served for the    *)
(* domain it was issued for, and a domain that is registered is covered.   *)
(* Traffic: what is told of tunnels and their services was so meanwhile.   *)
(* RelayStart: a relay that came up is whole, whatever failed on the way.  *)
(***************************************************************************)
EXTENDS Accounts, Domains, Traffic, RelayStart, SequenceTheorems, FiniteSetTheorems,
        WellFoundedInduction, TLAPS

(***************************************************************************)
(* Accounts and tokens.                                                    *)
(***************************************************************************)
\* A set of naturals has a least element, so the next token is well defined.
LEMMA LeastNat ==
    ASSUME NEW T \in SUBSET Nat, T # {}
    PROVE  \E x \in T : \A y \in T : x <= y
<1> DEFINE R == {ss \in Nat \X Nat : ss[1] < ss[2]}
<1>1. IsWellFoundedOn(R, Nat)
  BY NatLessThanWellFounded, Zenon DEF OpToRel
<1>2. PICK x \in T : \A y \in T : ~(<<y, x>> \in R)
  <2> HIDE DEF R
  <2> QED
    BY <1>1, WFMin
<1>3. \A y \in T : ~(y < x)
  BY <1>2
<1> QED
  BY <1>3

\* The token that is made next is one that was not made.
LEMMA FreshUnmade == Unmade # {} => Fresh \in Unmade
<1> SUFFICES ASSUME Unmade # {} PROVE Fresh \in Unmade
  OBVIOUS
<1>1. Unmade \in SUBSET Nat
  BY AccountAssumption DEF Unmade, Token
<1>2. \E t \in Unmade : \A s \in Unmade : t <= s
  BY <1>1, LeastNat
<1> QED
  BY <1>2 DEF Fresh

-----------------------------------------------------------------------------
Owner == User \cup {"none"}
TokenRow == [user : Owner, default : BOOLEAN, active : BOOLEAN, used : BOOLEAN]
Jwt == [user : Owner, type : {"none", "auth", "session"}]

AccountsTypeOK ==
    /\ rows \in [Token -> TokenRow] /\ made \in [Token -> Jwt]
    /\ given \subseteq Token /\ revoked \subseteq Token /\ tunnels \subseteq Token

\* What a call carries from one access of the database to the next: the token
\* whose row it has read was an auth token.
RequestsOK ==
    /\ DOMAIN request = Request
    /\ \A r \in Request :
         /\ request[r].user \in Owner
         /\ request[r].at \in {"write", "touch"} =>
               request[r].token \in Token /\ made[request[r].token].type = "auth"

\* A row is that of an auth token, under the name the token carries.
TokenRowsRight == \A t \in Token : Found(t) => made[t].type = "auth" /\ rows[t].user = made[t].user

\* Every token anyone was told, or has revoked, or has used was made before.
KnownMade ==
    /\ \A t \in given \cup revoked \cup tunnels : made[t].type # "none"
    /\ checks # "nothing" => \A t \in tunnels : made[t].type = "auth"

\* A revoked token has no active row; an auth token that was saved and not
\* revoked has one.
ActiveUnlessRevoked ==
    /\ \A t \in revoked : ~(Found(t) /\ rows[t].active)
    /\ \A t \in Token \ (revoked \cup orphans) : made[t].type = "auth" => Found(t) /\ rows[t].active

AccountsInv == AccountsTypeOK /\ RequestsOK /\ TokenRowsRight /\ KnownMade /\ ActiveUnlessRevoked

\* The inductive invariant is enough for the property.
LEMMA Honoured == AccountsInv => TokensHonoured
  BY DEF AccountsInv, AccountsTypeOK, TokenRowsRight, KnownMade, ActiveUnlessRevoked, TokensHonoured, Accepted

\* A step moves one call, and an auth token remains one.
LEMMA CallsStay ==
    ASSUME RequestsOK, NEW r \in Request, NEW c, request' = [request EXCEPT ![r] = c], c.user \in Owner,
           c.at \in {"write", "touch"} => c.token \in Token /\ made'[c.token].type = "auth",
           \A t \in Token : made[t].type = "auth" => made'[t].type = "auth"
    PROVE  RequestsOK'
  BY DEF RequestsOK

\* An answer leaves a call without a token.
LEMMA AnswerCalls ==
    ASSUME RequestsOK, NEW r \in Request, Answer(r),
           \A t \in Token : made[t].type = "auth" => made'[t].type = "auth"
    PROVE  RequestsOK'
<1> DEFINE c == [Quiet EXCEPT !.at = "done"]
<1>1. c.user \in Owner /\ c.at = "done"
  BY DEF Quiet, Owner
<1>2. request' = [request EXCEPT ![r] = c]
  BY DEF Answer
<1> HIDE DEF c
<1> QED
  BY <1>1, <1>2, CallsStay

\* A step within a call keeps the token the call has read.
LEMMA StepCalls ==
    ASSUME RequestsOK, NEW r \in Request, NEW l \in {"default", "session"}, Step(r, l),
           \A t \in Token : made[t].type = "auth" => made'[t].type = "auth"
    PROVE  RequestsOK'
  BY DEF RequestsOK, Step

\* A step that leaves tables, tokens and histories alone.
LEMMA TablesStay ==
    ASSUME AccountsInv, rows' = rows, made' = made, given' = given, revoked' = revoked, orphans' = orphans,
           tunnels' = tunnels, checks' = checks
    PROVE  AccountsTypeOK' /\ TokenRowsRight' /\ KnownMade' /\ ActiveUnlessRevoked'
  BY DEF AccountsInv, AccountsTypeOK, TokenRowsRight, KnownMade, ActiveUnlessRevoked, Found

\* Registering and logging in begin.
LEMMA BeginRequestKeeps ==
    ASSUME AccountsInv, NEW r \in Request, NEW u \in User, BeginRegister(r, u) \/ BeginLogin(r, u)
    PROVE  AccountsInv'
<1>1. /\ rows' = rows /\ made' = made /\ given' = given /\ revoked' = revoked /\ orphans' = orphans
      /\ tunnels' = tunnels /\ checks' = checks
  BY DEF BeginRegister, BeginLogin, tables
<1>2. \E c : request' = [request EXCEPT ![r] = c] /\ c.user = u /\ c.at \in {"user", "default", "session"}
  <2>1. CASE BeginRegister(r, u)
    <3> DEFINE c == [Quiet EXCEPT !.op = "register", !.at = "user", !.user = u]
    <3>1. c.user = u /\ c.at = "user"
      BY DEF Quiet
    <3> QED
      BY <2>1, <3>1 DEF BeginRegister
  <2>2. CASE BeginLogin(r, u)
    <3> DEFINE a == IF \A t \in Token : ~(rows[t].user = u /\ rows[t].default) THEN "default" ELSE "session"
               c == [Quiet EXCEPT !.op = "login", !.user = u, !.at = a]
    <3>1. c.user = u /\ c.at \in {"default", "session"}
      BY DEF Quiet
    <3>2. request' = [request EXCEPT ![r] = c]
      BY <2>2 DEF BeginLogin
    <3> HIDE DEF c
    <3> QED
      BY <3>1, <3>2
  <2> QED
    BY <2>1, <2>2
<1>3. RequestsOK'
  BY <1>1, <1>2, CallsStay DEF AccountsInv, Owner
<1> QED
  BY <1>1, <1>3, TablesStay DEF AccountsInv

\* A new token: it was never told, revoked or used, and it has no row yet.  It
\* gets one, or it is a session, or it is counted among the orphans.
LEMMA MakeKeeps ==
    ASSUME AccountsInv, Unmade # {}, NEW u \in Owner, NEW k \in {"auth", "session"}, NEW d \in BOOLEAN,
           made' = [made EXCEPT ![Fresh] = [user |-> u, type |-> k]],
           given' \subseteq given \cup {Fresh}, revoked' = revoked, tunnels' = tunnels, checks' = checks,
           \/ /\ k = "auth" /\ orphans' = orphans
              /\ rows' = [rows EXCEPT ![Fresh] = [user |-> u, default |-> d, active |-> TRUE, used |-> FALSE]]
           \/ rows' = rows /\ orphans' = orphans \cup {Fresh}
           \/ k = "session" /\ rows' = rows /\ orphans' = orphans
    PROVE  /\ AccountsTypeOK' /\ TokenRowsRight' /\ KnownMade' /\ ActiveUnlessRevoked'
           /\ \A t \in Token : made[t].type = "auth" => made'[t].type = "auth"
<1> DEFINE f == Fresh
           row == [user |-> u, default |-> d, active |-> TRUE, used |-> FALSE]
           jwt == [user |-> u, type |-> k]
<1>1. f \in Token /\ made[f].type = "none"
  BY FreshUnmade DEF Unmade
<1>2. /\ row \in TokenRow /\ row.user = u /\ row.active = TRUE /\ row # NoRecord
      /\ jwt \in Jwt /\ jwt.user = u /\ jwt.type = k
  BY DEF TokenRow, Jwt, NoRecord
<1>3. /\ made' = [made EXCEPT ![f] = jwt] /\ given' \subseteq given \cup {f}
      /\ \/ k = "auth" /\ rows' = [rows EXCEPT ![f] = row] /\ orphans' = orphans
         \/ rows' = rows /\ orphans' = orphans \cup {f}
         \/ k = "session" /\ rows' = rows /\ orphans' = orphans
  OBVIOUS
<1> HIDE DEF f, row, jwt
<1>4. AccountsTypeOK'
  BY <1>1, <1>2, <1>3 DEF AccountsInv, AccountsTypeOK
<1>5. made'[f] = jwt /\ \A t \in Token \ {f} : made'[t] = made[t] /\ rows'[t] = rows[t]
  BY <1>1, <1>3 DEF AccountsInv, AccountsTypeOK
<1>6. \/ k = "auth" /\ rows'[f] = row
      \/ rows'[f] = rows[f] /\ (k = "session" \/ f \in orphans')
  BY <1>1, <1>3 DEF AccountsInv, AccountsTypeOK
<1>7. ~Found(f) /\ f \notin given \cup revoked \cup tunnels
  BY <1>1 DEF AccountsInv, TokenRowsRight, KnownMade
<1>8. TokenRowsRight'
  BY <1>2, <1>5, <1>6, <1>7 DEF AccountsInv, TokenRowsRight, Found
<1>9. KnownMade'
  BY <1>2, <1>3, <1>5, <1>7 DEF AccountsInv, AccountsTypeOK, KnownMade
<1>10. ActiveUnlessRevoked'
  <2>1. \A t \in revoked : ~(Found(t) /\ rows[t].active)'
    BY <1>5, <1>7 DEF AccountsInv, AccountsTypeOK, ActiveUnlessRevoked, Found
  <2>2. ASSUME NEW t \in Token, t \notin revoked, t \notin orphans', made'[t].type = "auth"
        PROVE  rows'[t] # NoRecord /\ rows'[t].active
    <3>1. CASE t = f
      BY <1>2, <1>5, <1>6, <2>2, <3>1
    <3>2. CASE t # f
      BY <1>3, <1>5, <2>2, <3>2 DEF AccountsInv, ActiveUnlessRevoked, Found
    <3> QED
      BY <3>1, <3>2
  <2> QED
    BY <2>1, <2>2 DEF ActiveUnlessRevoked, Found
<1> QED
  BY <1>1, <1>4, <1>5, <1>8, <1>9, <1>10

\* The default token of a user is saved, or its making fails.
LEMMA DefaultKeeps ==
    ASSUME AccountsInv, NEW r \in Request, RegisterDefault(r) \/ LoginDefault(r)
    PROVE  AccountsInv'
<1>1. /\ InsertDefault(r) /\ given' \subseteq given \cup {Fresh}
  BY DEF RegisterDefault, LoginDefault
<1>2. request[r].user \in Owner
  BY DEF AccountsInv, RequestsOK
<1>3. /\ AccountsTypeOK' /\ TokenRowsRight' /\ KnownMade' /\ ActiveUnlessRevoked'
      /\ \A t \in Token : made[t].type = "auth" => made'[t].type = "auth"
  <2>1. /\ Unmade # {} /\ made' = [made EXCEPT ![Fresh] = [user |-> request[r].user, type |-> "auth"]]
        /\ revoked' = revoked /\ tunnels' = tunnels /\ checks' = checks
        /\ \/ /\ orphans' = orphans
              /\ rows' = [rows EXCEPT ![Fresh] = [user |-> request[r].user, default |-> TRUE,
                                                  active |-> TRUE, used |-> FALSE]]
           \/ rows' = rows /\ orphans' = orphans \cup {Fresh}
    BY <1>1 DEF InsertDefault
  <2> QED
    BY <1>1, <1>2, <2>1, MakeKeeps
<1>4. RequestsOK'
  BY <1>1, <1>3, StepCalls DEF AccountsInv, InsertDefault
<1> QED
  BY <1>3, <1>4 DEF AccountsInv

\* A session token has no row.
LEMMA SessionKeeps ==
    ASSUME AccountsInv, NEW r \in Request, GiveSession(r)
    PROVE  AccountsInv'
<1>1. request[r].user \in Owner
  BY DEF AccountsInv, RequestsOK
<1>2. /\ AccountsTypeOK' /\ TokenRowsRight' /\ KnownMade' /\ ActiveUnlessRevoked'
      /\ \A t \in Token : made[t].type = "auth" => made'[t].type = "auth"
  <2>1. /\ Unmade # {} /\ made' = [made EXCEPT ![Fresh] = [user |-> request[r].user, type |-> "session"]]
        /\ given' \subseteq given \cup {Fresh}
        /\ rows' = rows /\ revoked' = revoked /\ tunnels' = tunnels /\ orphans' = orphans /\ checks' = checks
    BY DEF GiveSession, tables
  <2> QED
    BY <1>1, <2>1, MakeKeeps
<1>3. RequestsOK'
  BY <1>2, AnswerCalls DEF AccountsInv, GiveSession
<1> QED
  BY <1>2, <1>3 DEF AccountsInv

\* A token that is created has an active row, or is never told.
LEMMA CreateKeeps ==
    ASSUME AccountsInv, NEW r \in Request, create_auth_token(r)
    PROVE  AccountsInv'
<1>1. PICK s \in Sessions :
         /\ made' = [made EXCEPT ![Fresh] = [user |-> made[s].user, type |-> "auth"]]
         /\ rows' = [rows EXCEPT ![Fresh] = [user |-> made[s].user, default |-> FALSE,
                                             active |-> TRUE, used |-> FALSE]]
         /\ given' = given \cup {Fresh}
  BY DEF create_auth_token
<1>2. made[s].user \in Owner
  BY DEF Sessions, AccountsInv, AccountsTypeOK, Jwt
<1>3. /\ AccountsTypeOK' /\ TokenRowsRight' /\ KnownMade' /\ ActiveUnlessRevoked'
      /\ \A t \in Token : made[t].type = "auth" => made'[t].type = "auth"
  <2>1. Unmade # {} /\ revoked' = revoked /\ tunnels' = tunnels /\ orphans' = orphans /\ checks' = checks
    BY DEF create_auth_token
  <2> QED
    BY <1>1, <1>2, <2>1, MakeKeeps
<1>4. RequestsOK'
  BY <1>3, AnswerCalls DEF AccountsInv, create_auth_token
<1> QED
  BY <1>3, <1>4 DEF AccountsInv

\* The columns an update sets: `active' as the operation says, the owner never.
LEMMA UpdateFacts ==
    ASSUME NEW row \in TokenRow, NEW copy, NEW op
    PROVE  /\ Update(row, copy, op) \in TokenRow
           /\ Update(row, copy, op).user = row.user
           /\ op = "activate" => Update(row, copy, op).active = TRUE
           /\ op = "deactivate" => Update(row, copy, op).active = FALSE
           /\ op \notin {"activate", "deactivate"} => Update(row, copy, op).active = row.active
  BY DEF Update, TokenRow

\* A write of a row that was read some steps ago, by a management call or by
\* the touch of last_used_at: the row may be gone, or have been changed since.
LEMMA WriteKeeps ==
    ASSUME AccountsInv, NEW r \in Request, WriteOwn(r) \/ Touch(r), ~(rows' = rows /\ revoked' = revoked)
    PROVE  AccountsInv'
<1> DEFINE t == request[r].token
           op == IF Touch(r) THEN "touch" ELSE request[r].op
           new == Update(rows[t], request[r].copy, op)
<1>1. t \in Token /\ made[t].type = "auth" /\ rows[t] \in TokenRow
  BY DEF AccountsInv, AccountsTypeOK, RequestsOK, WriteOwn, Touch
<1>2. made' = made /\ given' = given /\ tunnels' = tunnels /\ orphans' = orphans /\ checks' = checks /\ Answer(r)
  BY DEF WriteOwn, Touch
<1>3. /\ rows' = IF ~Found(t) THEN rows
                 ELSE IF op = "delete" THEN [rows EXCEPT ![t] = NoRecord] ELSE [rows EXCEPT ![t] = new]
      /\ revoked' = IF op \in {"delete", "deactivate"} THEN revoked \cup {t}
                    ELSE IF op = "activate" /\ Found(t) THEN revoked \ {t} ELSE revoked
  <2>1. CASE Touch(r)
    BY <2>1 DEF Touch
  <2>2. CASE ~Touch(r)
    BY <2>2 DEF WriteOwn
  <2> QED
    BY <2>1, <2>2
<1>4. /\ new \in TokenRow /\ new.user = rows[t].user
      /\ op = "activate" => new.active = TRUE
      /\ op = "deactivate" => new.active = FALSE
      /\ op \notin {"activate", "deactivate"} => new.active = rows[t].active
  <2> DEFINE row == rows[t]
             copy == request[r].copy
  <2>1. row \in TokenRow
    BY <1>1
  <2> HIDE DEF t, op, row, copy
  <2>2. /\ Update(row, copy, op) \in TokenRow
        /\ Update(row, copy, op).user = row.user
        /\ op = "activate" => Update(row, copy, op).active = TRUE
        /\ op = "deactivate" => Update(row, copy, op).active = FALSE
        /\ op \notin {"activate", "deactivate"} => Update(row, copy, op).active = row.active
    BY <2>1, UpdateFacts
  <2> QED
    BY <2>2 DEF row, copy
<1>5. NoRecord \in TokenRow /\ NoRecord.active = FALSE
  BY DEF NoRecord, TokenRow, Owner
<1> HIDE DEF t, op, new
<1>6. AccountsTypeOK'
  BY <1>1, <1>2, <1>3, <1>4, <1>5 DEF AccountsInv, AccountsTypeOK
<1>7. \A s \in Token \ {t} : rows'[s] = rows[s]
  BY <1>1, <1>3 DEF AccountsInv, AccountsTypeOK
<1>8. rows'[t] = IF ~Found(t) THEN rows[t] ELSE IF op = "delete" THEN NoRecord ELSE new
  BY <1>1, <1>3 DEF AccountsInv, AccountsTypeOK
<1>9. TokenRowsRight'
  BY <1>1, <1>2, <1>4, <1>7, <1>8 DEF AccountsInv, TokenRowsRight, Found
<1>10. KnownMade'
  BY <1>1, <1>2, <1>3 DEF AccountsInv, KnownMade
<1>11. ActiveUnlessRevoked'
  <2>1. ASSUME NEW s \in revoked'
        PROVE  ~(rows'[s] # NoRecord /\ rows'[s].active)
    <3>1. CASE s # t
      BY <1>3, <1>7, <2>1, <3>1 DEF AccountsInv, AccountsTypeOK, ActiveUnlessRevoked, Found
    <3>2. CASE s = t /\ ~Found(t)
      BY <1>8, <3>2 DEF Found
    <3>3. CASE s = t /\ Found(t) /\ op \in {"delete", "deactivate"}
      BY <1>4, <1>5, <1>8, <3>3
    <3>4. CASE s = t /\ Found(t) /\ op \notin {"delete", "deactivate"}
      <4>1. t \in revoked /\ op # "activate"
        BY <1>3, <2>1, <3>4
      <4> QED
        BY <1>4, <1>8, <3>4, <4>1 DEF AccountsInv, ActiveUnlessRevoked
    <3> QED
      BY <3>1, <3>2, <3>3, <3>4
  <2>2. ASSUME NEW s \in Token, s \notin revoked', s \notin orphans, made[s].type = "auth"
        PROVE  rows'[s] # NoRecord /\ rows'[s].active
    <3>1. CASE s # t
      BY <1>3, <1>7, <2>2, <3>1 DEF AccountsInv, ActiveUnlessRevoked, Found
    <3>2. CASE s = t /\ op = "activate" /\ Found(t)
      BY <1>4, <1>5, <1>8, <3>2
    <3>3. CASE s = t /\ ~(op = "activate" /\ Found(t))
      <4>1. t \notin revoked /\ op \notin {"delete", "deactivate"}
        BY <1>3, <2>2, <3>3
      <4>2. Found(t) /\ rows[t].active
        BY <1>1, <2>2, <3>3, <4>1 DEF AccountsInv, ActiveUnlessRevoked
      <4>3. rows'[t] = new /\ new.active = rows[t].active
        BY <1>4, <1>8, <3>3, <4>1, <4>2
      <4> QED
        BY <1>5, <3>3, <4>2, <4>3
    <3> QED
      BY <3>1, <3>2, <3>3
  <2> QED
    BY <1>2, <2>1, <2>2 DEF ActiveUnlessRevoked, Found
<1>12. RequestsOK'
  BY <1>2, AnswerCalls DEF AccountsInv
<1> QED
  BY <1>6, <1>9, <1>10, <1>11, <1>12 DEF AccountsInv

\* A write that fails, or finds its row gone and revokes nothing new.
LEMMA FailedWriteKeeps ==
    ASSUME AccountsInv, NEW r \in Request, WriteOwn(r) \/ Touch(r), rows' = rows, revoked' = revoked
    PROVE  AccountsInv'
<1>1. /\ made' = made /\ given' = given /\ orphans' = orphans /\ tunnels' = tunnels /\ checks' = checks
      /\ Answer(r)
  BY DEF WriteOwn, Touch
<1>2. RequestsOK'
  BY <1>1, AnswerCalls DEF AccountsInv
<1> QED
  BY <1>1, <1>2, TablesStay DEF AccountsInv

\* The remaining steps read the tables, or add a user, and change no row.
LEMMA ReadKeeps ==
    ASSUME AccountsInv, NEW r \in Request, InsertUser(r) \/ FindOwn(r) \/ Validate(r)
    PROVE  AccountsInv'
<1>1. CASE InsertUser(r)
  <2>1. /\ rows' = rows /\ made' = made /\ given' = given /\ revoked' = revoked /\ orphans' = orphans
        /\ tunnels' = tunnels /\ checks' = checks
    BY <1>1 DEF InsertUser
  <2>2. RequestsOK'
    BY <1>1, <2>1, AnswerCalls, StepCalls DEF InsertUser, AccountsInv
  <2> QED
    BY <2>1, <2>2, TablesStay DEF AccountsInv
<1>2. CASE FindOwn(r)
  <2>1. /\ rows' = rows /\ made' = made /\ given' = given /\ revoked' = revoked /\ orphans' = orphans
        /\ tunnels' = tunnels /\ checks' = checks
    BY <1>2 DEF FindOwn, tables
  <2>2. PICK s \in Sessions, t \in Token, o \in {"activate", "deactivate", "rename", "delete"} :
           /\ Found(t)
           /\ request' = [request EXCEPT ![r] = [op |-> o, at |-> "write", user |-> made[s].user,
                                                 token |-> t, copy |-> rows[t]]]
    BY <1>2 DEF FindOwn
  <2>3. made[s].user \in Owner /\ made[t].type = "auth"
    BY <2>2 DEF Sessions, AccountsInv, AccountsTypeOK, Jwt, TokenRowsRight
  <2> DEFINE c == [op |-> o, at |-> "write", user |-> made[s].user, token |-> t, copy |-> rows[t]]
  <2>4. c.user = made[s].user /\ c.token = t /\ request' = [request EXCEPT ![r] = c]
    BY <2>2
  <2> HIDE DEF c
  <2>5. RequestsOK'
    BY <2>1, <2>3, <2>4, CallsStay DEF AccountsInv
  <2> QED
    BY <2>1, <2>5, TablesStay DEF AccountsInv
<1>3. CASE Validate(r)
  <2>1. rows' = rows /\ made' = made /\ given' = given /\ revoked' = revoked /\ orphans' = orphans
    BY <1>3 DEF Validate, tables
  <2>0. PICK t \in given :
           \/ /\ Accepted(t) /\ tunnels' = tunnels \cup {t}
              /\ IF checks = "database"
                 THEN request' = [request EXCEPT ![r] = [op |-> "touch", at |-> "touch", user |-> made[t].user,
                                                         token |-> t, copy |-> rows[t]]]
                 ELSE Answer(r)
           \/ (~Accepted(t) \/ checks = "database") /\ Answer(r) /\ UNCHANGED tunnels
    BY <1>3, Zenon DEF Validate
  <2>2. /\ \/ Answer(r)
           \/ /\ checks = "database" /\ Accepted(t)
              /\ request' = [request EXCEPT ![r] = [op |-> "touch", at |-> "touch", user |-> made[t].user,
                                                    token |-> t, copy |-> rows[t]]]
        /\ tunnels' = tunnels \/ (Accepted(t) /\ tunnels' = tunnels \cup {t})
    BY <2>0
  <2>3. /\ t \in Token /\ made[t].user \in Owner /\ made[t].type # "none" /\ checks' = checks
        /\ Accepted(t) => made[t].type = "auth" \/ checks = "nothing"
    BY <1>3 DEF AccountsInv, AccountsTypeOK, Jwt, Accepted, KnownMade, Validate
  <2>4. RequestsOK'
    <3>1. CASE ~Answer(r)
      <4> DEFINE c == [op |-> "touch", at |-> "touch", user |-> made[t].user, token |-> t, copy |-> rows[t]]
      <4>1. c.user = made[t].user /\ c.token = t /\ request' = [request EXCEPT ![r] = c]
        BY <2>2, <3>1
      <4>2. made'[t].type = "auth"
        BY <2>1, <2>2, <2>3, <3>1
      <4> HIDE DEF c
      <4> QED
        BY <2>1, <2>3, <4>1, <4>2, CallsStay DEF AccountsInv
    <3>2. CASE Answer(r)
      BY <2>1, <3>2, AnswerCalls DEF AccountsInv
    <3> QED
      BY <3>1, <3>2
  <2>5. AccountsTypeOK' /\ KnownMade'
    BY <2>1, <2>2, <2>3 DEF AccountsInv, AccountsTypeOK, KnownMade
  <2>6. TokenRowsRight' /\ ActiveUnlessRevoked'
    BY <2>1 DEF AccountsInv, TokenRowsRight, ActiveUnlessRevoked, Found
  <2> QED
    BY <2>4, <2>5, <2>6 DEF AccountsInv
<1> QED
  BY <1>1, <1>2, <1>3

-----------------------------------------------------------------------------
\* Where the handler has the database, revoked tokens open nothing; the others open
\* tunnels until they expire; for any number of users, calls and tokens.
THEOREM TokensRight == AccountsSpec => []TokensHonoured
<1>1. AccountsInit => AccountsInv
  <2> SUFFICES ASSUME AccountsInit PROVE AccountsInv
    OBVIOUS
  <2>1. NoRecord \in TokenRow /\ [user |-> "none", type |-> "none"] \in Jwt /\ Quiet.user \in Owner /\ Quiet.at = "idle"
    BY DEF NoRecord, TokenRow, Owner, Jwt, Quiet
  <2>2. \A t \in Token : ~Found(t) /\ made[t].type = "none"
    BY DEF AccountsInit, Found
  <2>3. AccountsTypeOK /\ RequestsOK
    BY <2>1 DEF AccountsInit, AccountsTypeOK, RequestsOK
  <2> QED
    BY <2>2, <2>3 DEF AccountsInit, AccountsInv, TokenRowsRight, KnownMade, ActiveUnlessRevoked
<1>2. AccountsInv /\ [AccountsNext]_accountVars => AccountsInv'
  <2> SUFFICES ASSUME AccountsInv, [AccountsNext]_accountVars PROVE AccountsInv'
    OBVIOUS
  <2>1. ASSUME NEW r \in Request, RequestStep(r) PROVE AccountsInv'
    BY <2>1, BeginRequestKeeps, ReadKeeps, DefaultKeeps, SessionKeeps, CreateKeeps, WriteKeeps,
       FailedWriteKeeps DEF RequestStep
  <2>2. ASSUME (\E t \in Token : Expire(t)) \/ UNCHANGED accountVars PROVE AccountsInv'
    <3>1. /\ rows' = rows /\ made' = made /\ given' = given /\ revoked' = revoked /\ orphans' = orphans
          /\ tunnels' = tunnels /\ request' = request /\ checks' = checks
      BY <2>2 DEF Expire, accountVars, tables
    <3>2. RequestsOK'
      BY <3>1 DEF AccountsInv, RequestsOK
    <3> QED
      BY <3>1, <3>2, TablesStay DEF AccountsInv
  <2> QED
    BY <2>1, <2>2 DEF AccountsNext
<1> QED
  BY <1>1, <1>2, Honoured, PTL DEF AccountsSpec

(***************************************************************************)
(* Domains and certificates.                                               *)
(***************************************************************************)
\* The n-th certificate exists and was uploaded or issued for the domain d.
Issued(n, d) == n \in 1 .. Len(issues) /\ issues[n].domain = d

Stage == {"idle", "done", "order", "token", "pending", "challenge", "take", "cert", "key", "load", "readcert",
          "readkey", "save", "mark", "insert", "find", "rmcert", "rmkey", "drop", "list", "forget", "clear", "fail"}

\* What a call carries.
Record == [op : Op \cup {"none"}, at : Stage, domain : Domain \cup {NoDomain}, of : Domain \cup {NoDomain},
           order : Nat, cert : Nat, key : Nat, found : SUBSET Nat]

DomainRow == [status : {"none", "pending", "active", "failed"}, cert : Nat, key : Nat, path : BOOLEAN]

OrderRow == [domain : Domain, type : {"http01", "dns01"}]
Issue == [domain : Domain, good : BOOLEAN]

DomainsTypeOK ==
    /\ domains \in [Domain -> DomainRow]
    /\ files \in [Domain -> [cert : Nat, key : Nat]]
    /\ issues \in Seq(Issue)
    /\ orders \in Seq(OrderRow)
    /\ call \in [Call -> Record]

\* What a call has on it: the domains it works for, the order it takes, and the
\* certificate it has written or read.
CallOK(c) ==
    /\ call[c].at \notin {"idle", "done"} => call[c].domain \in Domain /\ call[c].of \in Domain
    /\ call[c].at = "take" => call[c].op = "complete" /\ call[c].order \in DOMAIN orders
    /\ call[c].op = "upload" => call[c].of = call[c].domain
    /\ call[c].at = "insert" => call[c].op = "upload"
    /\ call[c].at \in {"key", "load", "readcert", "insert"} =>
         Issued(call[c].cert, call[c].of) /\ call[c].key = call[c].cert
    /\ call[c].at \in {"readkey", "save"} => Issued(call[c].cert, call[c].domain)
    /\ call[c].at = "save" => Issued(call[c].key, call[c].domain)

\* A call that is alone with the files of its domain finds in them what it has
\* written, and what it has loaded is well-formed.
Alone(c) ==
    /\ call[c].at \in {"key", "load", "readcert"} /\ call[c].of \notin clash =>
         files[call[c].of].cert = call[c].cert
    /\ call[c].at \in {"load", "readcert"} /\ call[c].of \notin clash =>
         files[call[c].of].key = call[c].cert
    /\ call[c].at \in {"readcert", "insert"} /\ call[c].of \notin clash =>
         issues[call[c].cert].good
    /\ call[c].at = "readkey" /\ call[c].domain \notin clash \cup mixed =>
         /\ call[c].of = call[c].domain /\ issues[call[c].cert].good
         /\ files[call[c].domain].key = call[c].cert
    /\ call[c].at = "save" /\ call[c].domain \notin clash \cup mixed =>
         call[c].key = call[c].cert /\ issues[call[c].cert].good

CallsOK == \A c \in Call : CallOK(c) /\ Alone(c)

\* Files hold what was issued for their domain.
FilesRight ==
    \A d \in Domain : /\ files[d].cert # 0 => Issued(files[d].cert, d)
                      /\ files[d].key # 0 => Issued(files[d].key, d)

\* So do rows; and one that nobody disturbed has a certificate with its key.
RowsRight ==
    \A d \in Domain :
      /\ domains[d].cert # 0 => Issued(domains[d].cert, d) /\ Issued(domains[d].key, d)
      /\ domains[d].cert # 0 /\ d \notin clash \cup mixed =>
           domains[d].key = domains[d].cert /\ issues[domains[d].cert].good
      /\ domains[d].status = "active" => domains[d].cert # 0

DomainsInv == DomainsTypeOK /\ CallsOK /\ FilesRight /\ RowsRight

\* The inductive invariant is enough for both properties.
LEMMA InvImplies == DomainsInv => CertOfDomain /\ RegisteredIsCovered
<1> SUFFICES ASSUME DomainsInv PROVE CertOfDomain /\ RegisteredIsCovered
  OBVIOUS
<1> USE DEF DomainsInv
<1>1. \A d \in Domain : loaded(d) # 0 => Issued(loaded(d), d)
  BY DEF loaded, Loads, FilesRight, RowsRight
<1>2. \A d \in Domain : get_certificate_details(d) # 0 => Issued(get_certificate_details(d), d)
  BY DEF get_certificate_details, FilesRight
<1>3. CertOfDomain
  BY <1>1, <1>2 DEF CertOfDomain, Issued, RowsRight
<1>4. \A d \in Domain : domains[d].status = "active" /\ d \notin clash \cup mixed => loaded(d) # 0
  BY DEF loaded, Loads, RowsRight
<1>5. ASSUME NEW d \in Domain, Registered(d), {d, Parent[d]} \cap (mixed \cup clash) = {}
      PROVE  covering(d) # 0
  <2>1. d \notin clash \cup mixed /\ Parent[d] \notin clash \cup mixed /\ Parent[d] \in Domain \cup {NoDomain}
    BY <1>5, DomainAssumption
  <2>2. CASE domains[d].status = "active"
    BY <1>4, <2>1, <2>2 DEF covering
  <2>3. CASE domains[d].status # "active"
    <3>1. Parent[d] \in Domain /\ domains[Parent[d]].status = "active" /\ Parent[d] # NoDomain
      BY <1>5, <2>1, <2>3 DEF Registered
    <3>2. loaded(d) = 0
      BY <2>3 DEF loaded
    <3> QED
      BY <1>4, <2>1, <3>1, <3>2 DEF covering
  <2> QED
    BY <2>2, <2>3
<1>6. RegisteredIsCovered
  BY <1>5 DEF RegisteredIsCovered, is_custom_domain_registered, resolve
<1> QED
  BY <1>3, <1>6

\* Certificates are only added.
IssuesGrow == \A n \in 1 .. Len(issues) : n \in 1 .. Len(issues') /\ issues'[n] = issues[n]

\* A step of the call c that writes at most to the files of d leaves the other
\* calls as they were: those it disturbs have d counted as a clash.
LEMMA OthersStand ==
    ASSUME DomainsInv, NEW c \in Call, NEW d,
           \A e \in Call \ {c} : call'[e] = call[e],
           IssuesGrow, DOMAIN orders \subseteq DOMAIN orders', clash \subseteq clash', mixed \subseteq mixed',
           \A x \in Domain \ {d} : files'[x] = files[x],
           files' = files \/ clash' = Clashes(c, d)
    PROVE  \A e \in Call \ {c} : CallOK(e)' /\ Alone(e)'
<1> SUFFICES ASSUME NEW e \in Call \ {c} PROVE CallOK(e)' /\ Alone(e)'
  OBVIOUS
<1>1. call'[e] = call[e] /\ CallOK(e) /\ Alone(e)
  BY DEF DomainsInv, CallsOK
<1>2. \A n, x : Issued(n, x) => n \in 1 .. Len(issues') /\ issues'[n].domain = x /\ issues'[n] = issues[n]
  BY DEF Issued, IssuesGrow
<1>3. CallOK(e)'
  <2>1. call[e].at = "take" => call[e].order \in DOMAIN orders'
    BY <1>1 DEF CallOK
  <2> QED
    BY <1>1, <1>2, <2>1 DEF CallOK, Issued
<1>4. call[e].at \in {"key", "load", "readcert", "insert", "readkey", "save"} =>
         issues'[call[e].cert] = issues[call[e].cert]
  BY <1>1, <1>2 DEF CallOK
<1>5. CASE files' = files
  BY <1>1, <1>3, <1>4, <1>5 DEF Alone
<1>6. CASE clash' = Clashes(c, d)
  <2>1. d \in clash' \/ e \notin Using(c, d)
    BY <1>6 DEF Clashes
  <2>2. call[e].at \in {"key", "load", "readcert"} /\ call[e].of \notin clash' => files'[call[e].of] = files[call[e].of]
    BY <1>1, <2>1 DEF CallOK, Using
  <2>3. call[e].at = "readkey" /\ call[e].domain \notin clash' => files'[call[e].domain] = files[call[e].domain]
    BY <1>1, <2>1 DEF CallOK, Using
  <2> QED
    BY <1>1, <1>3, <1>4, <2>2, <2>3 DEF Alone
<1> QED
  BY <1>5, <1>6

\* A step that changes no file and no certificate: what the rows hold may change
\* in status only.
LEMMA QuietKeeps ==
    ASSUME DomainsInv, NEW c \in Call, call' \in [Call -> Record], \A e \in Call \ {c} : call'[e] = call[e],
           CallOK(c)', Alone(c)',
           issues' = issues, files' = files, clash' = clash, mixed' = mixed,
           orders' \in Seq(OrderRow), DOMAIN orders \subseteq DOMAIN orders',
           domains' \in [Domain -> DomainRow],
           \A d \in Domain : /\ domains'[d].cert = domains[d].cert /\ domains'[d].key = domains[d].key
                             /\ domains'[d].status = "active" => domains[d].status = "active"
    PROVE  DomainsInv'
<1>1. IssuesGrow
  BY DEF IssuesGrow
<1>2. \A e \in Call \ {c} : CallOK(e)' /\ Alone(e)'
  BY <1>1, OthersStand
<1>3. CallsOK'
  BY <1>2 DEF CallsOK
<1>4. DomainsTypeOK'
  BY DEF DomainsInv, DomainsTypeOK
<1>5. FilesRight' /\ RowsRight'
  BY DEF DomainsInv, FilesRight, RowsRight, Issued
<1> QED
  BY <1>3, <1>4, <1>5 DEF DomainsInv

\* The end of a call.
LEMMA DoneIsOK ==
    ASSUME DomainsInv, NEW c \in Call, Done(c)
    PROVE  /\ call' \in [Call -> Record] /\ \A e \in Call \ {c} : call'[e] = call[e]
           /\ CallOK(c)' /\ Alone(c)'
<1>1. call' \in [Call -> Record] /\ (\A e \in Call \ {c} : call'[e] = call[e]) /\ call'[c] = [Idle EXCEPT !.at = "done"]
  <2>1. [Idle EXCEPT !.at = "done"] \in Record
    BY DEF Idle, Record, Stage
  <2> QED
    BY <2>1 DEF Done, DomainsInv, DomainsTypeOK
<1>2. call'[c].at = "done" /\ call'[c].op = "none"
  BY <1>1 DEF Idle
<1> QED
  BY <1>1, <1>2 DEF CallOK, Alone

\* The stages of a call that hold no certificate.
Plain == {"order", "token", "pending", "challenge", "cert", "mark", "find", "rmcert", "rmkey", "drop", "list",
          "forget", "clear", "fail"}

\* Nothing is claimed of a call at a plain stage.
LEMMA PlainIsOK ==
    ASSUME DomainsInv, NEW c \in Call, call' \in [Call -> Record], \A e \in Call \ {c} : call'[e] = call[e],
           call'[c].at \in Plain, call'[c].domain = call[c].domain,
           call'[c].of = call[c].of, call'[c].op = call[c].op, call[c].at \notin {"idle", "done"}
    PROVE  CallOK(c)' /\ Alone(c)'
  BY DEF DomainsInv, CallsOK, CallOK, Alone, Plain

\* A move to another stage changes nothing else of a call.
LEMMA GotoFacts ==
    ASSUME DomainsInv, NEW c \in Call, NEW l \in Stage, Goto(c, l)
    PROVE  /\ call' \in [Call -> Record] /\ \A e \in Call \ {c} : call'[e] = call[e]
           /\ call'[c] = [call[c] EXCEPT !.at = l]
  BY ZenonT(60) DEF Goto, DomainsInv, DomainsTypeOK, Record

\* A move to a stage of which nothing is claimed.
LEMMA GotoPlain ==
    ASSUME DomainsInv, NEW c \in Call, NEW l \in Plain, Goto(c, l), call[c].at \notin {"idle", "done"}
    PROVE  /\ call' \in [Call -> Record] /\ \A e \in Call \ {c} : call'[e] = call[e]
           /\ CallOK(c)' /\ Alone(c)'
<1>1. l \in Stage
  BY DEF Plain, Stage
<1>2. /\ call' \in [Call -> Record] /\ \A e \in Call \ {c} : call'[e] = call[e]
      /\ call'[c] = [call[c] EXCEPT !.at = l]
  BY <1>1, GotoFacts
<1>3. /\ call'[c].at = l /\ call'[c].domain = call[c].domain
      /\ call'[c].of = call[c].of /\ call'[c].op = call[c].op
  BY <1>2 DEF DomainsInv, DomainsTypeOK, Record
<1> QED
  BY <1>2, <1>3, PlainIsOK

\* Where a request starts.
LEMMA FirstFacts ==
    ASSUME NEW op \in Op
    PROVE  /\ First(op) \in {"cert", "find", "take", "order", "list"}
           /\ First(op) = "take" => op = "complete"
           /\ op = "upload" => First(op) = "cert"
<1>1. op = "upload" => First(op) = "cert"
  BY Zenon DEF First
<1>2. op = "delete" => First(op) = "find"
  BY Zenon DEF First
<1>3. op = "complete" => First(op) = "take"
  BY Zenon DEF First
<1>4. op \in {"initiate", "request"} => First(op) = "order"
  BY Zenon DEF First
<1>5. op \in {"cancel", "restart"} => First(op) = "list"
  BY Zenon DEF First
<1> QED
  BY <1>1, <1>2, <1>3, <1>4, <1>5 DEF Op

\* A call begins.
LEMMA BeginKeeps ==
    ASSUME DomainsInv, NEW c \in Call, Begin(c)
    PROVE  DomainsInv'
<1>1. PICK op \in Ops[c], d \in Domain :
        \E n \in (IF op = "complete" THEN DOMAIN orders ELSE {0}) :
           call' = [call EXCEPT ![c] = [Idle EXCEPT !.op = op, !.at = First(op), !.domain = d, !.of = d, !.order = n]]
  BY DEF Begin
<1>2. PICK n \in (IF op = "complete" THEN DOMAIN orders ELSE {0}) :
         call' = [call EXCEPT ![c] = [Idle EXCEPT !.op = op, !.at = First(op), !.domain = d, !.of = d, !.order = n]]
  BY <1>1
<1>3. op \in Op /\ n \in Nat
  BY DomainAssumption DEF DomainsInv, DomainsTypeOK
<1> DEFINE k == [Idle EXCEPT !.op = op, !.at = First(op), !.domain = d, !.of = d, !.order = n]
<1>4. k.op = op /\ k.at = First(op) /\ k.domain = d /\ k.of = d /\ k.order = n
  BY DEF Idle
<1>5. First(op) \in Stage /\ First(op) \in {"cert", "find", "take", "order", "list"}
  BY <1>3, FirstFacts DEF Stage
<1>6. k \in Record
  BY <1>3, <1>5 DEF Idle, Record
<1>7. call' = [call EXCEPT ![c] = k]
  BY <1>2
<1> HIDE DEF k
<1>8. call' \in [Call -> Record] /\ (\A e \in Call \ {c} : call'[e] = call[e]) /\ call'[c] = k
  BY <1>6, <1>7 DEF DomainsInv, DomainsTypeOK
<1>9. CallOK(c)' /\ Alone(c)'
  <2>1. /\ issues' = issues /\ files' = files /\ orders' = orders /\ clash' = clash /\ mixed' = mixed
    BY DEF Begin, shared, history
  <2>2. First(op) = "take" => op = "complete" /\ n \in DOMAIN orders
    BY <1>3, FirstFacts
  <2> QED
    BY <1>4, <1>5, <1>8, <2>1, <2>2 DEF CallOK, Alone
<1>10. /\ issues' = issues /\ files' = files /\ orders' = orders /\ clash' = clash /\ mixed' = mixed /\ domains' = domains
  BY DEF Begin, shared, history
<1> QED
  BY <1>8, <1>9, <1>10, QuietKeeps DEF DomainsInv, DomainsTypeOK

\* The steps of an order, and the other steps that touch no certificate.
LEMMA OrderKeeps ==
    ASSUME DomainsInv, NEW c \in Call, NewOrder(c)
    PROVE  DomainsInv'
<1>1. /\ issues' = issues /\ files' = files /\ clash' = clash /\ mixed' = mixed /\ domains' = domains
      /\ call[c].at = "order"
  BY DEF NewOrder, history
<1>2. call[c].domain \in Domain
  BY <1>1 DEF DomainsInv, CallsOK, CallOK
<1>3. CASE Done(c) /\ orders' = orders
  BY <1>1, <1>3, DoneIsOK, QuietKeeps DEF DomainsInv, DomainsTypeOK
<1>4. ASSUME NEW type \in {"http01", "dns01"}, orders' = Append(orders, [domain |-> call[c].domain, type |-> type]),
             call' = [call EXCEPT ![c].at = "token", ![c].order = Len(orders) + 1]
      PROVE  DomainsInv'
  <2>1. [domain |-> call[c].domain, type |-> type] \in OrderRow
    BY <1>2 DEF OrderRow
  <2>2. /\ orders' \in Seq(OrderRow)
        /\ DOMAIN orders \subseteq DOMAIN orders'
    BY <1>4, <2>1 DEF DomainsInv, DomainsTypeOK
  <2>3. Len(orders) + 1 \in Nat /\ "token" \in Stage
    BY DEF DomainsInv, DomainsTypeOK, Stage
  <2>4. call[c] \in Record
    BY DEF DomainsInv, DomainsTypeOK
  <2>5. /\ call'[c] = [call[c] EXCEPT !.at = "token", !.order = Len(orders) + 1]
        /\ \A e \in Call \ {c} : call'[e] = call[e]
    BY <1>4 DEF DomainsInv, DomainsTypeOK
  <2>6. /\ call'[c] \in Record /\ call'[c].at = "token" /\ call'[c].domain = call[c].domain
        /\ call'[c].of = call[c].of /\ call'[c].op = call[c].op
    BY <2>3, <2>4, <2>5 DEF Record
  <2>7. call' \in [Call -> Record]
    BY <1>4, <2>5, <2>6 DEF DomainsInv, DomainsTypeOK
  <2>8. CallOK(c)' /\ Alone(c)'
    BY <1>1, <2>5, <2>6, <2>7, PlainIsOK DEF Plain
  <2> QED
    BY <1>1, <2>2, <2>5, <2>7, <2>8, QuietKeeps DEF DomainsInv, DomainsTypeOK
<1> QED
  BY <1>3, <1>4 DEF NewOrder

\* Steps that touch neither files, rows nor orders that others rely on.
LEMMA PlainKeeps ==
    ASSUME DomainsInv, NEW c \in Call,
           \/ StoreToken(c) \/ SaveDomain(c) \/ SaveChallenge(c) \/ MarkCompleted(c) \/ FindDomain(c)
           \/ ForgetTokens(c) \/ ClearChallenges(c) \/ MarkFailed(c)
    PROVE  DomainsInv'
<1>1. /\ issues' = issues /\ files' = files /\ clash' = clash /\ mixed' = mixed /\ orders' = orders
      /\ call[c].at \in {"token", "pending", "challenge", "mark", "find", "forget", "clear", "fail"}
  BY DEF StoreToken, SaveDomain, SaveChallenge, MarkCompleted, FindDomain, ForgetTokens, ClearChallenges, MarkFailed,
         shared, history
<1>2. Done(c) \/ \E l \in Plain : Goto(c, l)
  BY DEF StoreToken, SaveDomain, SaveChallenge, MarkCompleted, FindDomain, ForgetTokens, ClearChallenges, MarkFailed,
         Plain
<1>3. /\ call' \in [Call -> Record] /\ \A e \in Call \ {c} : call'[e] = call[e]
      /\ CallOK(c)' /\ Alone(c)'
  BY <1>1, <1>2, DoneIsOK, GotoPlain
<1>4. call[c].domain \in Domain
  BY <1>1 DEF DomainsInv, CallsOK, CallOK
<1>5. \/ domains' = domains
      \/ domains' = [domains EXCEPT ![call[c].domain].status = "pending"]
      \/ domains' = [domains EXCEPT ![call[c].domain].status = "failed"]
  BY DEF StoreToken, SaveDomain, SaveChallenge, MarkCompleted, FindDomain, ForgetTokens, ClearChallenges, MarkFailed,
         shared
<1>6. /\ domains' \in [Domain -> DomainRow]
      /\ \A d \in Domain : /\ domains'[d].cert = domains[d].cert /\ domains'[d].key = domains[d].key
                           /\ domains'[d].status = "active" => domains[d].status = "active"
  <2>1. CASE domains' = domains
    BY <2>1 DEF DomainsInv, DomainsTypeOK
  <2>2. ASSUME NEW s \in {"pending", "failed"}, domains' = [domains EXCEPT ![call[c].domain].status = s]
        PROVE  <1>6!1 /\ <1>6!2
    <3>1. domains'[call[c].domain] = [domains[call[c].domain] EXCEPT !.status = s]
      BY <1>4, <2>2 DEF DomainsInv, DomainsTypeOK
    <3>2. domains[call[c].domain] \in DomainRow
      BY <1>4 DEF DomainsInv, DomainsTypeOK
    <3>3. /\ domains'[call[c].domain] \in DomainRow
          /\ domains'[call[c].domain].cert = domains[call[c].domain].cert
          /\ domains'[call[c].domain].key = domains[call[c].domain].key
          /\ domains'[call[c].domain].status = s
      BY <3>1, <3>2 DEF DomainRow
    <3>4. \A d \in Domain \ {call[c].domain} : domains'[d] = domains[d]
      BY <2>2 DEF DomainsInv, DomainsTypeOK
    <3>5. domains' \in [Domain -> DomainRow]
      BY <1>4, <2>2, <3>3, <3>4 DEF DomainsInv, DomainsTypeOK
    <3> QED
      BY <3>3, <3>4, <3>5
  <2> QED
    BY <1>5, <2>1, <2>2
<1> QED
  BY <1>1, <1>3, <1>6, QuietKeeps DEF DomainsInv, DomainsTypeOK

\* Listing the orders of a domain.
LEMMA ListKeeps ==
    ASSUME DomainsInv, NEW c \in Call, ListPending(c)
    PROVE  DomainsInv'
<1>1. /\ issues' = issues /\ files' = files /\ clash' = clash /\ mixed' = mixed /\ orders' = orders
      /\ domains' = domains /\ call[c].at = "list"
  BY DEF ListPending, shared, history
<1>2. CASE Done(c)
  BY <1>1, <1>2, DoneIsOK, QuietKeeps DEF DomainsInv, DomainsTypeOK
<1>3. ASSUME NEW found \in {PendingOf(call[c].domain), {}},
             call' = [call EXCEPT ![c].at = "forget", ![c].found = found]
      PROVE  DomainsInv'
  <2>1. found \in SUBSET Nat /\ "forget" \in Stage
    BY DEF PendingOf, DomainsInv, DomainsTypeOK, Stage
  <2>2. call[c] \in Record
    BY DEF DomainsInv, DomainsTypeOK
  <2>3. /\ call'[c] = [call[c] EXCEPT !.at = "forget", !.found = found]
        /\ \A e \in Call \ {c} : call'[e] = call[e]
    BY <1>3 DEF DomainsInv, DomainsTypeOK
  <2>4. /\ call'[c] \in Record /\ call'[c].at = "forget" /\ call'[c].domain = call[c].domain
        /\ call'[c].of = call[c].of /\ call'[c].op = call[c].op
    BY <2>1, <2>2, <2>3 DEF Record
  <2>5. call' \in [Call -> Record]
    BY <1>3, <2>3, <2>4 DEF DomainsInv, DomainsTypeOK
  <2>6. CallOK(c)' /\ Alone(c)'
    BY <1>1, <2>3, <2>4, <2>5, PlainIsOK DEF Plain
  <2> QED
    BY <1>1, <2>3, <2>5, <2>6, QuietKeeps DEF DomainsInv, DomainsTypeOK
<1> QED
  BY <1>2, <1>3 DEF ListPending

\* A completion takes its order; the domain it then works for is the order's.
LEMMA TakeKeeps ==
    ASSUME DomainsInv, NEW c \in Call, TakeOrder(c)
    PROVE  DomainsInv'
<1>1. /\ issues' = issues /\ files' = files /\ clash' = clash /\ mixed' = mixed /\ orders' = orders
      /\ domains' = domains /\ call[c].at = "take"
  BY DEF TakeOrder
<1>2. CASE Done(c)
  BY <1>1, <1>2, DoneIsOK, QuietKeeps DEF DomainsInv, DomainsTypeOK
<1>3. CASE call' = [call EXCEPT ![c].at = "cert", ![c].of = orders[call[c].order].domain]
  <2> DEFINE d == orders[call[c].order].domain
  <2>1. /\ call[c].op = "complete" /\ call[c].domain \in Domain /\ call[c].order \in DOMAIN orders
    BY <1>1 DEF DomainsInv, CallsOK, CallOK
  <2>2. d \in Domain /\ "cert" \in Stage
    <3>1. orders[call[c].order] \in OrderRow
      BY <2>1, ElementOfSeq DEF DomainsInv, DomainsTypeOK
    <3> QED
      BY <3>1 DEF Stage, OrderRow
  <2> HIDE DEF d
  <2>3. call[c] \in Record
    BY DEF DomainsInv, DomainsTypeOK
  <2>4. /\ call'[c] = [call[c] EXCEPT !.at = "cert", !.of = d]
        /\ \A e \in Call \ {c} : call'[e] = call[e]
    BY <1>3 DEF DomainsInv, DomainsTypeOK, d
  <2>5. /\ call'[c] \in Record /\ call'[c].at = "cert" /\ call'[c].domain = call[c].domain
        /\ call'[c].of = d /\ call'[c].op = "complete"
    BY <2>1, <2>2, <2>3, <2>4 DEF Record
  <2>6. call' \in [Call -> Record]
    BY <1>3, <2>4, <2>5 DEF DomainsInv, DomainsTypeOK
  <2>7. CallOK(c)' /\ Alone(c)'
    BY <2>1, <2>2, <2>5 DEF CallOK, Alone
  <2> QED
    BY <1>1, <2>4, <2>6, <2>7, QuietKeeps DEF DomainsInv, DomainsTypeOK
<1> QED
  BY <1>2, <1>3 DEF TakeOrder

\* Rows that are not written stay right, whatever is issued meanwhile.
LEMMA RowsStay ==
    ASSUME DomainsInv, domains' = domains, IssuesGrow, clash \subseteq clash', mixed \subseteq mixed'
    PROVE  RowsRight'
<1>1. \A n, x : Issued(n, x) => Issued(n, x)' /\ issues'[n] = issues[n]
  BY DEF Issued, IssuesGrow
<1> QED
  BY <1>1 DEF DomainsInv, RowsRight

\* A clash is remembered.
LEMMA ClashesGrow == \A c, d : clash \subseteq Clashes(c, d)
  BY DEF Clashes

\* A call writes a certificate that is new, and then its key.
LEMMA WriteCertKeeps ==
    ASSUME DomainsInv, NEW c \in Call, WriteCert(c)
    PROVE  DomainsInv'
<1>0. PICK n, d : n = Len(issues) + 1 /\ d = call[c].of
  OBVIOUS
<1>1. /\ call[c].at = "cert" /\ call[c] \in Record /\ d \in Domain /\ call[c].domain \in Domain /\ n \in Nat
      /\ (call[c].op = "upload" => d = call[c].domain)
  <2>1. call[c].at = "cert" /\ CallOK(c)
    BY DEF WriteCert, DomainsInv, CallsOK
  <2>2. n \in Nat /\ call[c] \in Record
    BY <1>0 DEF DomainsInv, DomainsTypeOK
  <2> QED
    BY <1>0, <2>1, <2>2 DEF CallOK
<1>2. PICK good \in BOOLEAN : issues' = Append(issues, [domain |-> d, good |-> good])
  BY <1>0 DEF WriteCert
<1>3. /\ files' = [files EXCEPT ![d].cert = n] /\ clash' = Clashes(c, d) /\ mixed' = mixed
      /\ call' = [call EXCEPT ![c].at = "key", ![c].cert = n, ![c].key = n]
      /\ domains' = domains /\ orders' = orders
  BY <1>0 DEF WriteCert
<1>4. issues' \in Seq(Issue) /\ IssuesGrow /\ n \in 1 .. Len(issues') /\ issues'[n].domain = d
  <2>1. [domain |-> d, good |-> good] \in Issue
    BY <1>1 DEF Issue
  <2>2. issues \in Seq(Issue)
    BY DEF DomainsInv, DomainsTypeOK
  <2> QED
    BY <1>0, <1>2, <2>1, <2>2 DEF IssuesGrow
<1>5. /\ files' \in [Domain -> [cert : Nat, key : Nat]] /\ files'[d].cert = n /\ files'[d].key = files[d].key
      /\ \A x \in Domain \ {d} : files'[x] = files[x]
  BY <1>1, <1>3 DEF DomainsInv, DomainsTypeOK
<1>6. /\ call'[c] = [call[c] EXCEPT !.at = "key", !.cert = n, !.key = n]
      /\ \A e \in Call \ {c} : call'[e] = call[e]
  BY <1>3 DEF DomainsInv, DomainsTypeOK
<1>7. /\ call'[c] \in Record /\ call'[c].at = "key" /\ call'[c].cert = n /\ call'[c].key = n
      /\ call'[c].domain = call[c].domain /\ call'[c].of = d /\ call'[c].op = call[c].op
  BY <1>0, <1>1, <1>6 DEF Record, Stage
<1>8. call' \in [Call -> Record]
  BY <1>3, <1>6, <1>7 DEF DomainsInv, DomainsTypeOK
<1>9. clash \subseteq clash'
  BY <1>3, ClashesGrow
<1>10. CallOK(c)' /\ Alone(c)'
  BY <1>1, <1>4, <1>5, <1>7 DEF CallOK, Alone, Issued
<1>11. \A e \in Call \ {c} : CallOK(e)' /\ Alone(e)'
  BY <1>3, <1>4, <1>5, <1>6, <1>9, OthersStand
<1>12. CallsOK'
  BY <1>10, <1>11 DEF CallsOK
<1>13. FilesRight'
  <2>1. \A m, x : Issued(m, x) => Issued(m, x)'
    BY <1>4 DEF Issued, IssuesGrow
  <2>2. Issued(n, d)'
    BY <1>4 DEF Issued
  <2> QED
    BY <1>5, <2>1, <2>2 DEF DomainsInv, FilesRight
<1>14. RowsRight'
  BY <1>3, <1>4, <1>9, RowsStay
<1>15. DomainsTypeOK'
  BY <1>3, <1>4, <1>5, <1>8 DEF DomainsInv, DomainsTypeOK
<1> QED
  BY <1>12, <1>13, <1>14, <1>15 DEF DomainsInv

\* The key file is written, as the certificate file was.
LEMMA WriteKeyKeeps ==
    ASSUME DomainsInv, NEW c \in Call, WriteKey(c)
    PROVE  DomainsInv'
<1>0. PICK n, d : n = call[c].key /\ d = call[c].of
  OBVIOUS
<1>1. /\ call[c].at = "key" /\ call[c] \in Record /\ d \in Domain /\ call[c].domain \in Domain /\ n \in Nat
      /\ (call[c].op = "upload" => d = call[c].domain) /\ n = call[c].cert /\ Issued(n, d)
      /\ (d \notin clash => files[d].cert = n)
  <2>1. call[c].at = "key" /\ CallOK(c) /\ Alone(c)
    BY DEF WriteKey, DomainsInv, CallsOK
  <2>2. n \in Nat /\ call[c] \in Record
    BY <1>0 DEF DomainsInv, DomainsTypeOK, Record
  <2> QED
    BY <1>0, <2>1, <2>2 DEF CallOK, Alone
<1>2. /\ files' = [files EXCEPT ![d].key = n] /\ clash' = Clashes(c, d) /\ mixed' = mixed
      /\ domains' = domains /\ orders' = orders /\ issues' = issues
  BY <1>0 DEF WriteKey
<1>3. /\ call' \in [Call -> Record] /\ \A e \in Call \ {c} : call'[e] = call[e]
      /\ call'[c] = [call[c] EXCEPT !.at = "load"]
  BY GotoFacts DEF WriteKey, Stage
<1>4. /\ call'[c].at = "load" /\ call'[c].cert = n /\ call'[c].key = n
      /\ call'[c].domain = call[c].domain /\ call'[c].of = d /\ call'[c].op = call[c].op
  BY <1>0, <1>1, <1>3 DEF Record
<1>5. /\ files' \in [Domain -> [cert : Nat, key : Nat]] /\ files'[d].key = n /\ files'[d].cert = files[d].cert
      /\ \A x \in Domain \ {d} : files'[x] = files[x]
  BY <1>1, <1>2 DEF DomainsInv, DomainsTypeOK
<1>6. clash \subseteq clash' /\ IssuesGrow
  BY <1>2, ClashesGrow DEF IssuesGrow
<1>7. CallOK(c)' /\ Alone(c)'
  BY <1>1, <1>2, <1>4, <1>5, <1>6 DEF CallOK, Alone, Issued
<1>8. \A e \in Call \ {c} : CallOK(e)' /\ Alone(e)'
  BY <1>2, <1>3, <1>5, <1>6, OthersStand
<1>9. CallsOK'
  BY <1>7, <1>8 DEF CallsOK
<1>10. FilesRight'
  BY <1>1, <1>2, <1>5 DEF DomainsInv, FilesRight, Issued
<1>11. RowsRight'
  BY <1>2, <1>6, RowsStay
<1>12. DomainsTypeOK'
  BY <1>2, <1>3, <1>5 DEF DomainsInv, DomainsTypeOK
<1> QED
  BY <1>9, <1>10, <1>11, <1>12 DEF DomainsInv

\* What the files hold by now is loaded; undisturbed, it is what the call wrote.
LEMMA LoadKeeps ==
    ASSUME DomainsInv, NEW c \in Call, Load(c)
    PROVE  DomainsInv'
<1>1. /\ issues' = issues /\ files' = files /\ clash' = clash /\ mixed' = mixed /\ orders' = orders
      /\ domains' = domains /\ call[c].at = "load"
  BY DEF Load, shared, history
<1>2. CallOK(c) /\ Alone(c) /\ call[c] \in Record
  BY DEF DomainsInv, CallsOK, DomainsTypeOK
<1>3. CASE Done(c)
  BY <1>1, <1>3, DoneIsOK, QuietKeeps DEF DomainsInv, DomainsTypeOK
<1>4. CASE ~Done(c)
  <2>1. PICK l \in {"insert", "readcert"} : Goto(c, l) /\ (l = "insert" => call[c].op = "upload")
    BY <1>4 DEF Load
  <2>2. Loads(files[call[c].of].cert, files[call[c].of].key)
    BY <1>4 DEF Load
  <2>3. /\ call' \in [Call -> Record] /\ \A e \in Call \ {c} : call'[e] = call[e]
        /\ call'[c] = [call[c] EXCEPT !.at = l]
    <3>1. l \in Stage
      BY DEF Stage
    <3> QED
      BY <2>1, <3>1, GotoFacts
  <2>4. /\ call'[c].at = l /\ call'[c].cert = call[c].cert /\ call'[c].key = call[c].key
        /\ call'[c].domain = call[c].domain /\ call'[c].of = call[c].of /\ call'[c].op = call[c].op
    BY <1>2, <2>3 DEF Record
  <2>5. call[c].of \notin clash => /\ files[call[c].of].cert = call[c].cert /\ files[call[c].of].key = call[c].cert
                                   /\ issues[call[c].cert].good
    BY <1>1, <1>2, <2>2 DEF Alone, Loads
  <2>6. CallOK(c)'
    BY <1>1, <1>2, <2>1, <2>4 DEF CallOK, Issued
  <2>7. Alone(c)'
    BY <1>1, <2>1, <2>4, <2>5 DEF Alone
  <2> QED
    BY <1>1, <2>3, <2>6, <2>7, QuietKeeps DEF DomainsInv, DomainsTypeOK
<1> QED
  BY <1>3, <1>4

\* The files that are read are those of the domain the caller named.
LEMMA ReadCertKeeps ==
    ASSUME DomainsInv, NEW c \in Call, ReadCert(c)
    PROVE  DomainsInv'
<1>0. PICK d, n : d = call[c].domain /\ n = files[d].cert
  OBVIOUS
<1>1. /\ issues' = issues /\ files' = files /\ orders' = orders /\ domains' = domains /\ call[c].at = "readcert"
      /\ clash' = Clashes(c, d) /\ mixed' = IF d # call[c].of THEN mixed \cup {d} ELSE mixed
  BY <1>0 DEF ReadCert, shared
<1>2. CallOK(c) /\ Alone(c) /\ call[c] \in Record
  BY DEF DomainsInv, CallsOK, DomainsTypeOK
<1>3. clash \subseteq clash' /\ mixed \subseteq mixed' /\ IssuesGrow
  BY <1>1, ClashesGrow DEF IssuesGrow
<1>4. d \in Domain /\ n \in Nat
  BY <1>0, <1>1, <1>2 DEF CallOK, DomainsInv, DomainsTypeOK
<1>5. /\ call' \in [Call -> Record] /\ \A e \in Call \ {c} : call'[e] = call[e]
      /\ CallOK(c)' /\ Alone(c)'
  <2>1. CASE Done(c)
    BY <2>1, DoneIsOK
  <2>2. CASE ~Done(c)
    <3>1. n # 0 /\ call' = [call EXCEPT ![c].at = "readkey", ![c].cert = n]
      BY <1>0, <2>2 DEF ReadCert
    <3>2. /\ call'[c] = [call[c] EXCEPT !.at = "readkey", !.cert = n]
          /\ \A e \in Call \ {c} : call'[e] = call[e]
      BY <3>1 DEF DomainsInv, DomainsTypeOK
    <3>3. /\ call'[c] \in Record /\ call'[c].at = "readkey" /\ call'[c].cert = n
          /\ call'[c].domain = d /\ call'[c].of = call[c].of /\ call'[c].op = call[c].op
      BY <1>0, <1>2, <1>4, <3>2 DEF Record, Stage
    <3>4. call' \in [Call -> Record]
      BY <3>1, <3>2, <3>3 DEF DomainsInv, DomainsTypeOK
    <3>5. Issued(n, d)
      BY <1>0, <1>4, <3>1 DEF DomainsInv, FilesRight
    <3>6. CallOK(c)'
      BY <1>0, <1>1, <1>2, <3>3, <3>5 DEF CallOK, Issued
    <3>7. d \notin clash' \cup mixed' => /\ call[c].of = d /\ n = call[c].cert
                                         /\ files[d].key = n /\ issues[n].good
      BY <1>0, <1>1, <1>2, <1>3 DEF Alone
    <3>8. Alone(c)'
      BY <1>1, <3>3, <3>7 DEF Alone
    <3> QED
      BY <3>2, <3>4, <3>6, <3>8
  <2> QED
    BY <2>1, <2>2
<1>6. \A e \in Call \ {c} : CallOK(e)' /\ Alone(e)'
  BY <1>1, <1>3, <1>5, OthersStand
<1>7. CallsOK'
  BY <1>5, <1>6 DEF CallsOK
<1>8. FilesRight'
  BY <1>1 DEF DomainsInv, FilesRight, Issued
<1>9. RowsRight'
  BY <1>1, <1>3, RowsStay
<1>10. DomainsTypeOK'
  BY <1>1, <1>5 DEF DomainsInv, DomainsTypeOK
<1> QED
  BY <1>7, <1>8, <1>9, <1>10 DEF DomainsInv

\* The key that is read is that of the certificate, if the call is alone.
LEMMA ReadKeyKeeps ==
    ASSUME DomainsInv, NEW c \in Call, ReadKey(c)
    PROVE  DomainsInv'
<1>0. PICK d, n : d = call[c].domain /\ n = files[d].key
  OBVIOUS
<1>1. /\ issues' = issues /\ files' = files /\ clash' = clash /\ mixed' = mixed /\ orders' = orders
      /\ domains' = domains /\ call[c].at = "readkey"
  BY DEF ReadKey, shared, history
<1>2. CallOK(c) /\ Alone(c) /\ call[c] \in Record
  BY DEF DomainsInv, CallsOK, DomainsTypeOK
<1>3. d \in Domain /\ n \in Nat
  BY <1>0, <1>1, <1>2 DEF CallOK, DomainsInv, DomainsTypeOK
<1>4. CASE Done(c)
  BY <1>1, <1>4, DoneIsOK, QuietKeeps DEF DomainsInv, DomainsTypeOK
<1>5. CASE ~Done(c)
  <2>1. n # 0 /\ call' = [call EXCEPT ![c].at = "save", ![c].key = n]
    BY <1>0, <1>5 DEF ReadKey
  <2>2. /\ call'[c] = [call[c] EXCEPT !.at = "save", !.key = n]
        /\ \A e \in Call \ {c} : call'[e] = call[e]
    BY <2>1 DEF DomainsInv, DomainsTypeOK
  <2>3. /\ call'[c] \in Record /\ call'[c].at = "save" /\ call'[c].cert = call[c].cert /\ call'[c].key = n
        /\ call'[c].domain = d /\ call'[c].of = call[c].of /\ call'[c].op = call[c].op
    BY <1>0, <1>2, <1>3, <2>2 DEF Record, Stage
  <2>4. call' \in [Call -> Record]
    BY <2>1, <2>2, <2>3 DEF DomainsInv, DomainsTypeOK
  <2>5. Issued(n, d)
    BY <1>0, <1>3, <2>1 DEF DomainsInv, FilesRight
  <2>6. CallOK(c)'
    BY <1>0, <1>1, <1>2, <2>3, <2>5 DEF CallOK, Issued
  <2>7. Alone(c)'
    BY <1>0, <1>1, <1>2, <2>3 DEF Alone
  <2> QED
    BY <1>1, <2>2, <2>4, <2>6, <2>7, QuietKeeps DEF DomainsInv, DomainsTypeOK
<1> QED
  BY <1>4, <1>5

\* A row that is written: from a completion or from an upload, or deleted.
LEMMA RowKeeps ==
    ASSUME DomainsInv, NEW c \in Call, SaveRow(c) \/ InsertRow(c) \/ DropRow(c)
    PROVE  DomainsInv'
<1>0. PICK d : d = call[c].domain
  OBVIOUS
<1>1. /\ issues' = issues /\ files' = files /\ clash' = clash /\ mixed' = mixed /\ orders' = orders
      /\ call[c].at \in {"save", "insert", "drop"}
  BY DEF SaveRow, InsertRow, DropRow, history
<1>2. CallOK(c) /\ Alone(c) /\ call[c] \in Record /\ d \in Domain
  BY <1>0, <1>1 DEF DomainsInv, CallsOK, DomainsTypeOK, CallOK
<1>3. Done(c) \/ Goto(c, "mark")
  BY DEF SaveRow, InsertRow, DropRow
<1>4. /\ call' \in [Call -> Record] /\ \A e \in Call \ {c} : call'[e] = call[e]
      /\ CallOK(c)' /\ Alone(c)'
  BY <1>1, <1>3, DoneIsOK, GotoPlain DEF Plain
<1>5. CallsOK'
  <2>1. IssuesGrow
    BY <1>1 DEF IssuesGrow
  <2>2. \A e \in Call \ {c} : CallOK(e)' /\ Alone(e)'
    BY <1>1, <1>4, <2>1, OthersStand
  <2> QED
    BY <1>4, <2>2 DEF CallsOK
<1>6. \/ domains' = domains
      \/ call[c].at \in {"save", "insert"} /\ domains' = [domains EXCEPT ![d] = Row(c)]
      \/ domains' = [domains EXCEPT ![d] = NoRow]
  BY <1>0 DEF SaveRow, InsertRow, DropRow
<1>7. /\ NoRow \in DomainRow /\ NoRow.cert = 0 /\ NoRow.status = "none"
      /\ Row(c) \in DomainRow /\ Row(c).cert = call[c].cert /\ Row(c).key = call[c].key
  BY <1>2 DEF NoRow, Row, DomainRow, Record
<1>8. call[c].at \in {"save", "insert"} =>
        /\ Issued(call[c].cert, d) /\ Issued(call[c].key, d) /\ call[c].cert # 0
        /\ d \notin clash \cup mixed => call[c].key = call[c].cert /\ issues[call[c].cert].good
  BY <1>0, <1>2 DEF CallOK, Alone, Issued
<1>9. domains' \in [Domain -> DomainRow]
  BY <1>2, <1>6, <1>7 DEF DomainsInv, DomainsTypeOK
<1>10. RowsRight'
  <2>1. CASE domains' = domains
    BY <1>1, <2>1 DEF DomainsInv, RowsRight, Issued
  <2>2. CASE domains' # domains
    <3>1. \A x \in Domain \ {d} : domains'[x] = domains[x]
      BY <1>6 DEF DomainsInv, DomainsTypeOK
    <3>2. domains'[d] = NoRow \/ (call[c].at \in {"save", "insert"} /\ domains'[d] = Row(c))
      BY <1>2, <1>6, <2>2 DEF DomainsInv, DomainsTypeOK
    <3>3. /\ domains'[d].cert # 0 => Issued(domains'[d].cert, d) /\ Issued(domains'[d].key, d)
          /\ domains'[d].cert # 0 /\ d \notin clash \cup mixed =>
               domains'[d].key = domains'[d].cert /\ issues[domains'[d].cert].good
          /\ domains'[d].status = "active" => domains'[d].cert # 0
      BY <1>7, <1>8, <3>2
    <3> QED
      BY <1>1, <3>1, <3>3 DEF DomainsInv, RowsRight, Issued
  <2> QED
    BY <2>1, <2>2
<1>11. FilesRight'
  BY <1>1 DEF DomainsInv, FilesRight, Issued
<1>12. DomainsTypeOK'
  BY <1>1, <1>4, <1>9 DEF DomainsInv, DomainsTypeOK
<1> QED
  BY <1>5, <1>10, <1>11, <1>12 DEF DomainsInv

\* The files of a domain are removed, one after the other.
LEMMA RemoveKeeps ==
    ASSUME DomainsInv, NEW c \in Call, RemoveFile(c)
    PROVE  DomainsInv'
<1>0. PICK d : d = call[c].domain
  OBVIOUS
<1>1. /\ issues' = issues /\ mixed' = mixed /\ orders' = orders /\ domains' = domains
      /\ clash' = Clashes(c, d) /\ call[c].at \in {"rmcert", "rmkey"}
      /\ \E l \in {"rmkey", "drop"} : Goto(c, l)
      /\ files' = [files EXCEPT ![d].cert = 0] \/ files' = [files EXCEPT ![d].key = 0]
  BY <1>0 DEF RemoveFile
<1>2. d \in Domain
  BY <1>0, <1>1 DEF DomainsInv, CallsOK, CallOK
<1>3. /\ call' \in [Call -> Record] /\ \A e \in Call \ {c} : call'[e] = call[e]
      /\ CallOK(c)' /\ Alone(c)'
  BY <1>1, GotoPlain DEF Plain
<1>4. /\ files' \in [Domain -> [cert : Nat, key : Nat]]
      /\ \A x \in Domain \ {d} : files'[x] = files[x]
      /\ files'[d].cert \in {0, files[d].cert} /\ files'[d].key \in {0, files[d].key}
  <2>1. files \in [Domain -> [cert : Nat, key : Nat]]
    BY DEF DomainsInv, DomainsTypeOK
  <2>2. CASE files' = [files EXCEPT ![d].cert = 0]
    <3>1. /\ files' = [files EXCEPT ![d] = [files[d] EXCEPT !.cert = 0]]
          /\ files'[d] = [files[d] EXCEPT !.cert = 0]
      BY <1>2, <2>1, <2>2
    <3>2. files'[d] \in [cert : Nat, key : Nat] /\ files'[d].cert = 0 /\ files'[d].key = files[d].key
      BY <1>2, <2>1, <3>1
    <3> QED
      BY <1>2, <2>1, <3>1, <3>2
  <2>3. CASE files' = [files EXCEPT ![d].key = 0]
    <3>1. /\ files' = [files EXCEPT ![d] = [files[d] EXCEPT !.key = 0]]
          /\ files'[d] = [files[d] EXCEPT !.key = 0]
      BY <1>2, <2>1, <2>3
    <3>2. files'[d] \in [cert : Nat, key : Nat] /\ files'[d].key = 0 /\ files'[d].cert = files[d].cert
      BY <1>2, <2>1, <3>1
    <3> QED
      BY <1>2, <2>1, <3>1, <3>2
  <2> QED
    BY <1>1, <2>2, <2>3
<1>5. clash \subseteq clash' /\ IssuesGrow
  BY <1>1, ClashesGrow DEF IssuesGrow
<1>6. \A e \in Call \ {c} : CallOK(e)' /\ Alone(e)'
  BY <1>1, <1>3, <1>4, <1>5, OthersStand
<1>7. CallsOK'
  BY <1>3, <1>6 DEF CallsOK
<1>8. FilesRight'
  BY <1>1, <1>2, <1>4 DEF DomainsInv, FilesRight, Issued
<1>9. RowsRight'
  BY <1>1, <1>5, RowsStay
<1>10. DomainsTypeOK'
  BY <1>1, <1>3, <1>4 DEF DomainsInv, DomainsTypeOK
<1> QED
  BY <1>7, <1>8, <1>9, <1>10 DEF DomainsInv

\* A restart ends the calls where they are.
LEMMA RestartKeeps ==
    ASSUME DomainsInv, RelayRestarts
    PROVE  DomainsInv'
<1>1. /\ issues' = issues /\ files' = files /\ clash' = clash /\ mixed' = mixed /\ orders' = orders
      /\ domains' = domains
  BY DEF RelayRestarts
<1>2. Idle \in Record /\ Idle.at = "idle" /\ Idle.op = "none"
  BY DEF Idle, Record, Stage
<1>3. [Idle EXCEPT !.at = "done"] \in Record /\ [Idle EXCEPT !.at = "done"].at = "done"
      /\ [Idle EXCEPT !.at = "done"].op = "none"
  BY DEF Idle, Record, Stage
<1>4. call' = [c \in Call |-> IF call[c].at = "idle" THEN Idle ELSE [Idle EXCEPT !.at = "done"]]
  BY DEF RelayRestarts
<1>5. call' \in [Call -> Record] /\ \A c \in Call : call'[c].at \in {"idle", "done"} /\ call'[c].op = "none"
  BY <1>2, <1>3, <1>4
<1>6. CallsOK'
  BY <1>5 DEF CallsOK, CallOK, Alone
<1>7. FilesRight' /\ RowsRight'
  BY <1>1 DEF DomainsInv, FilesRight, RowsRight, Issued
<1>8. DomainsTypeOK'
  BY <1>1, <1>5 DEF DomainsInv, DomainsTypeOK
<1> QED
  BY <1>6, <1>7, <1>8 DEF DomainsInv

\* Every step keeps the inductive invariant.
LEMMA DomainsInductive == DomainsSpec => []DomainsInv
<1>1. DomainsInit => DomainsInv
  <2> SUFFICES ASSUME DomainsInit PROVE DomainsInv
    OBVIOUS
  <2>1. Idle \in Record /\ Idle.at = "idle" /\ Idle.op = "none" /\ NoRow \in DomainRow /\ NoRow.cert = 0
        /\ NoRow.status = "none"
    BY DEF Idle, Record, Stage, NoRow, DomainRow
  <2>2. DomainsTypeOK
    BY <2>1 DEF DomainsInit, DomainsTypeOK
  <2>3. CallsOK
    BY <2>1 DEF DomainsInit, CallsOK, CallOK, Alone
  <2>4. FilesRight /\ RowsRight
    BY <2>1 DEF DomainsInit, FilesRight, RowsRight
  <2> QED
    BY <2>2, <2>3, <2>4 DEF DomainsInv
<1>2. DomainsInv /\ [DomainsNext]_domainVars => DomainsInv'
  <2> SUFFICES ASSUME DomainsInv, [DomainsNext]_domainVars PROVE DomainsInv'
    OBVIOUS
  <2>1. ASSUME NEW c \in Call, CallStep(c) PROVE DomainsInv'
    BY <2>1, BeginKeeps, OrderKeeps, PlainKeeps, ListKeeps, TakeKeeps, WriteCertKeeps, WriteKeyKeeps, LoadKeeps,
       ReadCertKeeps, ReadKeyKeeps, RowKeeps, RemoveKeeps DEF CallStep
  <2>2. CASE UNCHANGED domainVars
    BY <2>2 DEF domainVars, DomainsInv, DomainsTypeOK, CallsOK, CallOK, Alone, FilesRight, RowsRight, Issued
  <2> QED
    BY <2>1, <2>2, RestartKeeps DEF DomainsNext
<1> QED
  BY <1>1, <1>2, PTL DEF DomainsSpec

\* A certificate is stored, shown and presented for its own domain only.
THEOREM CertificatesRight == DomainsSpec => []CertOfDomain
<1> QED
  BY InvImplies, DomainsInductive, PTL

(***************************************************************************)
(* Challenges: an order that is waited for is in the client's hands, and   *)
(* its token is served until the challenge goes.                           *)
(***************************************************************************)
\* The call has an order of its own for which no challenge is saved yet.
Waiting(c) == call[c].at \in {"token", "pending", "challenge"}

\* Order n is one that this call is about to save a challenge for.
WaitingOK(c) ==
    Waiting(c) =>
      /\ call[c].order \in DOMAIN orders /\ challenges[call[c].order] = "none"
      /\ call[c].at # "token" /\ call[c].order \notin tried /\ orders[call[c].order].type = "http01"
           => call[c].order \in tokens

\* What a cancelling call has found: challenges of its domain, that are saved.
FoundOK(c) ==
    call[c].at \in {"forget", "clear"} =>
      \A n \in call[c].found : n \in DOMAIN orders /\ orders[n].domain = call[c].domain

\* The orders of calls are their own: no other call waits for them or has found them.
Apart(c, e) ==
    Waiting(c) =>
      /\ Waiting(e) => call[c].order # call[e].order
      /\ call[e].at \in {"forget", "clear"} => call[c].order \notin call[e].found

\* A saved challenge is that of an order, whose token is there unless a call is
\* just cancelling it, or has failed to.
ChallengeServed(n) ==
    /\ challenges[n] # "none" => n \in DOMAIN orders
    /\ challenges[n] = "pending" /\ n \notin tried /\ orders[n].type = "http01" =>
         n \in tokens \cup stranded \/ \E c \in Call : call[c].at = "clear" /\ n \in call[c].found

ChallengesInv ==
    /\ Len(orders) <= MaxOrders /\ challenges \in [1..MaxOrders -> {"none", "pending", "completed"}]
    /\ \A n \in DOMAIN orders : n \in held \/ n \in tried
    /\ \A c \in Call : WaitingOK(c) /\ FoundOK(c)
    /\ \A c \in Call : \A e \in Call \ {c} : Apart(c, e)
    /\ \A n \in 1..MaxOrders : ChallengeServed(n)

\* The statuses of challenges go one way: from pending to completed or none.
ChallengesSettle ==
    /\ challenges' \in [1..MaxOrders -> {"none", "pending", "completed"}]
    /\ \A n \in 1..MaxOrders : /\ challenges[n] = "none" => challenges'[n] = "none"
                               /\ challenges'[n] = "pending" => challenges[n] = "pending"

\* Where a call goes: to a stage of which nothing is claimed, or it goes on with
\* its order, or it has found challenges that nobody waits for.
GoesOn(c) ==
    \/ call'[c].at \notin {"token", "pending", "challenge", "forget", "clear"}
    \/ Waiting(c) /\ Waiting(c)' /\ call'[c].order = call[c].order /\ WaitingOK(c)'
    \/ /\ call'[c].at \in {"forget", "clear"} /\ FoundOK(c)'
       /\ \A e \in Call \ {c} : Waiting(e) => call[e].order \notin call'[c].found

\* There is room in the table for the challenge of every order.
LEMMA OrdersBound == DomainsInv /\ ChallengesInv => DOMAIN orders \subseteq 1..MaxOrders
<1> SUFFICES ASSUME DomainsInv, ChallengesInv PROVE DOMAIN orders \subseteq 1..MaxOrders
  OBVIOUS
<1>1. DOMAIN orders = 1..Len(orders) /\ Len(orders) \in Nat /\ Len(orders) <= MaxOrders
  BY DEF DomainsInv, DomainsTypeOK, ChallengesInv
<1> QED
  BY <1>1, DomainAssumption

\* A step of one call that makes no order and saves no challenge.
LEMMA CallMoves ==
    ASSUME DomainsInv, ChallengesInv, NEW c \in Call, \A e \in Call \ {c} : call'[e] = call[e], orders' = orders,
           ChallengesSettle, tried \subseteq tried', \A n \in DOMAIN orders : n \in held' \/ n \in tried',
           \A n \in tokens \ tokens' : call'[c].at = "clear" /\ n \in call'[c].found,
           stranded \subseteq stranded',
           call[c].at = "clear" =>
             \A n \in call[c].found : n \in 1..MaxOrders => challenges'[n] # "pending" \/ n \in stranded',
           GoesOn(c)
    PROVE  ChallengesInv'
<1>1. \A e \in Call \ {c} : Waiting(e)' <=> Waiting(e)
  BY DEF Waiting
<1>2. \A e \in Call \ {c} : Waiting(e) => call[e].order \notin tokens \ tokens'
  <2> SUFFICES ASSUME NEW e \in Call \ {c}, Waiting(e), call[e].order \in tokens \ tokens' PROVE FALSE
    OBVIOUS
  <2>1. call'[c].at = "clear" /\ call[e].order \in call'[c].found
    OBVIOUS
  <2> QED
    BY <2>1 DEF GoesOn, Waiting
<1>3. DOMAIN orders \subseteq 1..MaxOrders
  BY OrdersBound
<1>4. \A e \in Call \ {c} : WaitingOK(e)' /\ FoundOK(e)'
  BY <1>1, <1>2, <1>3 DEF ChallengesInv, WaitingOK, FoundOK, ChallengesSettle
<1>5. WaitingOK(c)' /\ FoundOK(c)'
  BY DEF GoesOn, WaitingOK, FoundOK, Waiting
<1>6. \A e \in Call : \A f \in Call \ {e} : Apart(e, f)'
  <2>1. \A e \in Call \ {c} : Apart(c, e) /\ Apart(e, c)
    BY DEF ChallengesInv
  <2>2. \A e \in Call \ {c} : Apart(c, e)' /\ Apart(e, c)'
    BY <1>1, <2>1 DEF Apart, GoesOn, Waiting
  <2>3. \A e \in Call \ {c} : \A f \in Call \ {c, e} : Apart(e, f)'
    BY <1>1 DEF ChallengesInv, Apart
  <2> QED
    BY <2>2, <2>3
<1>7. \A n \in 1..MaxOrders : ChallengeServed(n)'
  <2> SUFFICES ASSUME NEW n \in 1..MaxOrders, challenges'[n] = "pending" PROVE ChallengeServed(n)'
    BY DEF ChallengeServed, ChallengesInv, ChallengesSettle
  <2>1. challenges[n] = "pending" /\ ChallengeServed(n)
    BY DEF ChallengesSettle, ChallengesInv
  <2>2. ASSUME n \in tokens PROVE n \in tokens' \/ (call'[c].at = "clear" /\ n \in call'[c].found)
    BY <2>2
  <2>3. ASSUME NEW e \in Call, call[e].at = "clear", n \in call[e].found
        PROVE  n \in stranded' \/ (call'[e].at = "clear" /\ n \in call'[e].found)
    BY <2>3
  <2> QED
    BY <2>1, <2>2, <2>3 DEF ChallengeServed
<1> QED
  BY <1>4, <1>5, <1>6, <1>7 DEF ChallengesInv, ChallengesSettle

\* A call that ends, or goes to a stage of which nothing is claimed, and leaves
\* orders, challenges and tokens alone.
LEMMA PlainMoves ==
    ASSUME DomainsInv, ChallengesInv, NEW c \in Call, \A e \in Call \ {c} : call'[e] = call[e],
           orders' = orders, challenges' = challenges, tokens' = tokens, held' = held, tried' = tried,
           stranded' = stranded, call[c].at # "clear", call'[c].at \notin {"token", "pending", "challenge", "forget", "clear"}
    PROVE  ChallengesInv'
<1>1. ChallengesSettle /\ GoesOn(c)
  BY DEF ChallengesInv, ChallengesSettle, GoesOn
<1>2. \A n \in DOMAIN orders : n \in held' \/ n \in tried'
  BY DEF ChallengesInv
<1> QED
  BY <1>1, <1>2, CallMoves

\* Where calls end.
LEMMA DoneMoves ==
    ASSUME DomainsInv, NEW c \in Call, Done(c)
    PROVE  call'[c].at = "done" /\ \A e \in Call \ {c} : call'[e] = call[e]
  BY DEF Done, Idle, DomainsInv, DomainsTypeOK

\* A new order is in the client's hands and in nobody else's.
LEMMA NewOrderServed ==
    ASSUME DomainsInv, ChallengesInv, NEW c \in Call, NewOrder(c)
    PROVE  ChallengesInv'
<1>1. CASE Done(c) /\ UNCHANGED <<orders, held>>
  BY <1>1, DoneMoves, PlainMoves DEF NewOrder, history
<1>2. CASE ~(Done(c) /\ UNCHANGED <<orders, held>>)
  <2>0. PICK n : n = Len(orders) + 1
    OBVIOUS
  <2>1. PICK type \in {"http01", "dns01"} :
          orders' = Append(orders, [domain |-> call[c].domain, type |-> type])
    BY <1>2 DEF NewOrder
  <2>2. /\ Len(orders) < MaxOrders /\ held' = held \cup {n} /\ challenges' = challenges /\ tokens' = tokens
        /\ tried' = tried /\ stranded' = stranded /\ call' = [call EXCEPT ![c].at = "token", ![c].order = n]
    BY <1>2, <2>0 DEF NewOrder, history
  <2>3. call'[c] = [call[c] EXCEPT !.at = "token", !.order = n] /\ \A e \in Call \ {c} : call'[e] = call[e]
    BY <2>2 DEF DomainsInv, DomainsTypeOK
  <2>4. call'[c].at = "token" /\ call'[c].order = n
    BY <2>3 DEF DomainsInv, DomainsTypeOK, Record
  <2>5. Len(orders) \in Nat /\ DOMAIN orders = 1..Len(orders) /\ n \in 1..MaxOrders
    BY <2>0, <2>2, DomainAssumption DEF DomainsInv, DomainsTypeOK
  <2>6. /\ Len(orders') = n /\ DOMAIN orders' = DOMAIN orders \cup {n} /\ n \notin DOMAIN orders
        /\ \A m \in DOMAIN orders : orders'[m] = orders[m]
    BY <2>0, <2>1, <2>5 DEF DomainsInv, DomainsTypeOK
  <2>7. challenges[n] = "none"
    BY <2>5, <2>6 DEF ChallengesInv, ChallengeServed
  <2>8. \A e \in Call \ {c} : /\ WaitingOK(e)' /\ FoundOK(e)'
                              /\ Waiting(e) => call[e].order # n
                              /\ call[e].at \in {"forget", "clear"} => n \notin call[e].found
    <3> SUFFICES ASSUME NEW e \in Call \ {c}
                 PROVE  /\ WaitingOK(e)' /\ FoundOK(e)'
                        /\ Waiting(e) => call[e].order # n
                        /\ call[e].at \in {"forget", "clear"} => n \notin call[e].found
      OBVIOUS
    <3>1. WaitingOK(e) /\ FoundOK(e) /\ call'[e] = call[e]
      BY <2>3 DEF ChallengesInv
    <3>2. WaitingOK(e)' /\ (Waiting(e) => call[e].order # n)
      BY <2>2, <2>6, <3>1 DEF WaitingOK, Waiting
    <3>3. FoundOK(e)' /\ (call[e].at \in {"forget", "clear"} => n \notin call[e].found)
      BY <2>6, <3>1 DEF FoundOK
    <3> QED
      BY <3>2, <3>3
  <2>9. WaitingOK(c)' /\ FoundOK(c)'
    BY <2>2, <2>4, <2>6, <2>7 DEF WaitingOK, FoundOK
  <2>10. \A e \in Call : \A f \in Call \ {e} : Apart(e, f)'
    <3>1. \A e \in Call \ {c} : Apart(c, e)' /\ Apart(e, c)'
      BY <2>3, <2>4, <2>8 DEF Apart, Waiting
    <3>2. \A e \in Call \ {c} : \A f \in Call \ {c, e} : Apart(e, f)'
      BY <2>3 DEF ChallengesInv, Apart, Waiting
    <3> QED
      BY <3>1, <3>2
  <2>11. \A m \in 1..MaxOrders : ChallengeServed(m)'
    <3> SUFFICES ASSUME NEW m \in 1..MaxOrders, challenges[m] = "pending" PROVE ChallengeServed(m)'
      BY <2>2, <2>6 DEF ChallengeServed, ChallengesInv
    <3>1. ChallengeServed(m) /\ m # n
      BY <2>7 DEF ChallengesInv
    <3>2. ASSUME NEW e \in Call, call[e].at = "clear"
          PROVE  e # c /\ call'[e] = call[e]
      BY <2>3, <3>2 DEF NewOrder
    <3> QED
      BY <2>2, <2>6, <3>1, <3>2 DEF ChallengeServed
  <2> QED
    BY <2>2, <2>5, <2>6, <2>8, <2>9, <2>10, <2>11 DEF ChallengesInv
<1> QED
  BY <1>1, <1>2

\* A challenge is saved after its token is stored.
LEMMA SaveServed ==
    ASSUME DomainsInv, ChallengesInv, NEW c \in Call, SaveChallenge(c)
    PROVE  ChallengesInv'
<1>0. PICK n : n = call[c].order
  OBVIOUS
<1>1. /\ orders' = orders /\ held' = held /\ tokens' = tokens /\ tried' = tried /\ call[c].at = "challenge"
      /\ stranded' = stranded
      /\ Done(c) /\ (challenges' = challenges \/ challenges' = [challenges EXCEPT ![n] = "pending"])
  BY <1>0 DEF SaveChallenge, history
<1>2. call'[c].at = "done" /\ \A e \in Call \ {c} : call'[e] = call[e]
  BY <1>1, DoneMoves
<1>3. CASE challenges' = challenges
  BY <1>1, <1>2, <1>3, PlainMoves
<1>4. CASE challenges' = [challenges EXCEPT ![n] = "pending"]
  <2>1. DOMAIN orders \subseteq 1..MaxOrders
    BY OrdersBound
  <2>2. /\ n \in DOMAIN orders
        /\ n \notin tried /\ orders[n].type = "http01" => n \in tokens
    BY <1>0, <1>1 DEF ChallengesInv, WaitingOK, Waiting
  <2>3. /\ challenges' \in [1..MaxOrders -> {"none", "pending", "completed"}] /\ challenges'[n] = "pending"
        /\ \A m \in 1..MaxOrders : m # n => challenges'[m] = challenges[m]
    BY <1>4, <2>1, <2>2 DEF ChallengesInv
  <2>4. \A e \in Call \ {c} : (Waiting(e)' <=> Waiting(e)) /\ (Waiting(e) => call[e].order # n)
    BY <1>0, <1>1, <1>2 DEF ChallengesInv, Apart, Waiting
  <2>5. \A e \in Call \ {c} : WaitingOK(e)' /\ FoundOK(e)'
    BY <1>1, <1>2, <2>1, <2>3, <2>4 DEF ChallengesInv, WaitingOK, FoundOK
  <2>6. WaitingOK(c)' /\ FoundOK(c)'
    BY <1>2 DEF WaitingOK, FoundOK, Waiting
  <2>7. \A e \in Call : \A f \in Call \ {e} : Apart(e, f)'
    BY <1>2 DEF ChallengesInv, Apart, Waiting
  <2>8. \A m \in 1..MaxOrders : ChallengeServed(m)'
    <3> SUFFICES ASSUME NEW m \in 1..MaxOrders, m # n, challenges[m] = "pending" PROVE ChallengeServed(m)'
      BY <1>1, <2>2, <2>3 DEF ChallengeServed, ChallengesInv
    <3>1. ChallengeServed(m)
      BY DEF ChallengesInv
    <3>2. \A e \in Call : call[e].at = "clear" => e # c /\ call'[e] = call[e]
      BY <1>1, <1>2
    <3> QED
      BY <1>1, <3>1, <3>2 DEF ChallengeServed
  <2> QED
    BY <1>1, <2>3, <2>5, <2>6, <2>7, <2>8 DEF ChallengesInv
<1> QED
  BY <1>1, <1>3, <1>4

\* The steps that touch neither orders, challenges nor tokens.
LEMMA FileStepsServed ==
    ASSUME DomainsInv, ChallengesInv, NEW c \in Call,
           \/ WriteCert(c) \/ WriteKey(c) \/ Load(c) \/ ReadCert(c) \/ ReadKey(c) \/ SaveRow(c) \/ InsertRow(c)
           \/ FindDomain(c) \/ RemoveFile(c) \/ DropRow(c) \/ MarkFailed(c)
    PROVE  ChallengesInv'
<1>1. /\ orders' = orders /\ challenges' = challenges /\ tokens' = tokens /\ held' = held /\ tried' = tried
      /\ stranded' = stranded
  BY DEF WriteCert, WriteKey, Load, ReadCert, ReadKey, SaveRow, InsertRow, FindDomain, RemoveFile, DropRow,
         MarkFailed, shared, history
<1>2. /\ call[c].at \in {"cert", "key", "load", "readcert", "readkey", "save", "insert", "find", "rmcert", "rmkey",
                         "drop", "fail"}
      /\ \/ Done(c)
         \/ \E l \in {"load", "insert", "readcert", "mark", "rmcert", "rmkey", "drop"} : Goto(c, l)
         \/ \E n : call' = [call EXCEPT ![c].at = "key", ![c].cert = n, ![c].key = n]
         \/ \E n : call' = [call EXCEPT ![c].at = "readkey", ![c].cert = n]
         \/ \E n : call' = [call EXCEPT ![c].at = "save", ![c].key = n]
  BY DEF WriteCert, WriteKey, Load, ReadCert, ReadKey, SaveRow, InsertRow, FindDomain, RemoveFile, DropRow, MarkFailed
<1>3. /\ \A e \in Call \ {c} : call'[e] = call[e]
      /\ call'[c].at \notin {"token", "pending", "challenge", "forget", "clear"}
  <2>0. call \in [Call -> Record]
    BY DEF DomainsInv, DomainsTypeOK
  <2>1. CASE Done(c)
    BY <2>1, DoneMoves
  <2>2. ASSUME NEW l \in {"load", "insert", "readcert", "mark", "rmcert", "rmkey", "drop"}, Goto(c, l)
        PROVE  call'[c].at = l /\ \A e \in Call \ {c} : call'[e] = call[e]
    BY <2>0, <2>2 DEF Goto, Record
  <2>3. ASSUME NEW n, \/ call' = [call EXCEPT ![c].at = "key", ![c].cert = n, ![c].key = n]
                      \/ call' = [call EXCEPT ![c].at = "readkey", ![c].cert = n]
                      \/ call' = [call EXCEPT ![c].at = "save", ![c].key = n]
        PROVE  call'[c].at \in {"key", "readkey", "save"} /\ \A e \in Call \ {c} : call'[e] = call[e]
    <3>1. /\ \A e \in Call \ {c} : call'[e] = call[e]
          /\ \/ call'[c] = [call[c] EXCEPT !.at = "key", !.cert = n, !.key = n]
             \/ call'[c] = [call[c] EXCEPT !.at = "readkey", !.cert = n]
             \/ call'[c] = [call[c] EXCEPT !.at = "save", !.key = n]
      BY <2>0, <2>3
    <3>2. call[c] \in Record
      BY <2>0
    <3> QED
      BY <3>1, <3>2 DEF Record
  <2> QED
    BY <1>2, <2>1, <2>2, <2>3
<1> QED
  BY <1>1, <1>2, <1>3, PlainMoves

\* A call begins.
LEMMA BeginServed ==
    ASSUME DomainsInv, ChallengesInv, NEW c \in Call, Begin(c)
    PROVE  ChallengesInv'
<1>1. PICK op \in Ops[c], d \in Domain : \E n :
        call' = [call EXCEPT ![c] = [Idle EXCEPT !.op = op, !.at = First(op), !.domain = d, !.of = d, !.order = n]]
  BY DEF Begin
<1>2. First(op) \in {"cert", "find", "take", "order", "list"}
  BY DomainAssumption, FirstFacts
<1>3. call'[c].at = First(op) /\ \A e \in Call \ {c} : call'[e] = call[e]
  BY <1>1 DEF Idle, DomainsInv, DomainsTypeOK
<1>4. orders' = orders /\ challenges' = challenges /\ tokens' = tokens /\ held' = held /\ tried' = tried
      /\ stranded' = stranded /\ call[c].at = "idle"
  BY DEF Begin, shared, history
<1> QED
  BY <1>2, <1>3, <1>4, PlainMoves

\* The token of an order is stored, and then its domain saved: the order stays the call's.
LEMMA TokenServed ==
    ASSUME DomainsInv, ChallengesInv, NEW c \in Call, StoreToken(c) \/ SaveDomain(c)
    PROVE  ChallengesInv'
<1>1. /\ orders' = orders /\ challenges' = challenges /\ held' = held /\ tried' = tried /\ stranded' = stranded
      /\ tokens \subseteq tokens' /\ call[c].at \in {"token", "pending"}
      /\ Done(c) \/ \E l \in {"pending", "challenge"} : Goto(c, l)
      /\ call[c].at = "token" /\ orders[call[c].order].type = "http01" => call[c].order \in tokens'
  BY DEF StoreToken, SaveDomain, history
<1>2. ChallengesSettle /\ \A n \in DOMAIN orders : n \in held' \/ n \in tried'
  BY <1>1 DEF ChallengesInv, ChallengesSettle
<1>3. CASE Done(c)
  <2>1. call'[c].at = "done" /\ \A e \in Call \ {c} : call'[e] = call[e]
    BY <1>3, DoneMoves
  <2>2. GoesOn(c)
    BY <2>1 DEF GoesOn
  <2> QED
    BY <1>1, <1>2, <2>1, <2>2, CallMoves
<1>4. ASSUME NEW l \in {"pending", "challenge"}, Goto(c, l)
      PROVE  ChallengesInv'
  <2>1. /\ call'[c].at = l /\ call'[c].order = call[c].order /\ \A e \in Call \ {c} : call'[e] = call[e]
    BY <1>4 DEF Goto, DomainsInv, DomainsTypeOK, Record
  <2>2. WaitingOK(c) /\ Waiting(c) /\ Waiting(c)'
    BY <1>1, <2>1 DEF ChallengesInv, Waiting
  <2>3. WaitingOK(c)'
    BY <1>1, <2>1, <2>2 DEF WaitingOK
  <2>4. GoesOn(c)
    BY <2>1, <2>2, <2>3 DEF GoesOn
  <2> QED
    BY <1>1, <1>2, <2>1, <2>4, CallMoves
<1> QED
  BY <1>1, <1>3, <1>4

\* An order that is taken counts as tried.
LEMMA TakeServed ==
    ASSUME DomainsInv, ChallengesInv, NEW c \in Call, TakeOrder(c)
    PROVE  ChallengesInv'
<1>0. PICK n : n = call[c].order
  OBVIOUS
<1>1. /\ orders' = orders /\ challenges' = challenges /\ tokens' = tokens /\ held' = held \ {n}
      /\ tried' = tried \cup {n} /\ call[c].at = "take" /\ stranded' = stranded
      /\ Done(c) \/ call' = [call EXCEPT ![c].at = "cert", ![c].of = orders[n].domain]
  BY <1>0 DEF TakeOrder
<1>2. call'[c].at \in {"done", "cert"} /\ \A e \in Call \ {c} : call'[e] = call[e]
  <2>1. CASE Done(c)
    BY <2>1, DoneMoves
  <2>2. CASE call' = [call EXCEPT ![c].at = "cert", ![c].of = orders[n].domain]
    <3>1. /\ call'[c] = [call[c] EXCEPT !.at = "cert", !.of = orders[n].domain]
          /\ \A e \in Call \ {c} : call'[e] = call[e] /\ call[c] \in Record
      BY <2>2 DEF DomainsInv, DomainsTypeOK
    <3>2. call[c] \in Record
      BY DEF DomainsInv, DomainsTypeOK
    <3> QED
      BY <3>1, <3>2 DEF Record
  <2> QED
    BY <1>1, <2>1, <2>2
<1>3. ChallengesSettle /\ GoesOn(c) /\ \A m \in DOMAIN orders : m \in held' \/ m \in tried'
  BY <1>1, <1>2 DEF ChallengesInv, ChallengesSettle, GoesOn
<1> QED
  BY <1>1, <1>2, <1>3, CallMoves

\* A challenge that is completed is not pending any more; one that was never saved stays unsaved.
LEMMA CompletedServed ==
    ASSUME DomainsInv, ChallengesInv, NEW c \in Call, MarkCompleted(c)
    PROVE  ChallengesInv'
<1>0. PICK n : n = call[c].order
  OBVIOUS
<1>1. /\ orders' = orders /\ tokens' = tokens /\ held' = held /\ tried' = tried /\ call[c].at = "mark" /\ Done(c)
      /\ stranded' = stranded
      /\ \/ challenges' = challenges
         \/ challenges' = [challenges EXCEPT ![n] = IF challenges[n] = "none" THEN challenges[n] ELSE "completed"]
  BY <1>0 DEF MarkCompleted, history
<1>2. call'[c].at = "done" /\ \A e \in Call \ {c} : call'[e] = call[e]
  BY <1>1, DoneMoves
<1>3. ChallengesSettle
  <2>1. challenges \in [1..MaxOrders -> {"none", "pending", "completed"}]
    BY DEF ChallengesInv
  <2>2. \A m \in 1..MaxOrders : challenges'[m] = challenges[m] \/ challenges'[m] = "completed"
    BY <1>1, <2>1
  <2>3. \A m \in 1..MaxOrders : challenges[m] = "none" => challenges'[m] = "none"
    BY <1>1, <2>1
  <2>4. challenges' \in [1..MaxOrders -> {"none", "pending", "completed"}]
    BY <1>1, <2>1, <2>2
  <2> QED
    BY <2>2, <2>3, <2>4 DEF ChallengesSettle
<1>4. GoesOn(c) /\ \A m \in DOMAIN orders : m \in held' \/ m \in tried'
  BY <1>1, <1>2 DEF ChallengesInv, GoesOn
<1> QED
  BY <1>1, <1>2, <1>3, <1>4, CallMoves

\* Cancelling: what is listed is pending, so nobody is about to save it; the tokens go
\* first and the challenges after them.
LEMMA CancelServed ==
    ASSUME DomainsInv, ChallengesInv, NEW c \in Call, ListPending(c) \/ ForgetTokens(c) \/ ClearChallenges(c)
    PROVE  ChallengesInv'
<1>0. call \in [Call -> Record] /\ call[c] \in Record
  BY DEF DomainsInv, DomainsTypeOK
<1>1. CASE ListPending(c)
  <2>1. /\ orders' = orders /\ challenges' = challenges /\ tokens' = tokens /\ held' = held /\ tried' = tried
        /\ call[c].at = "list" /\ stranded' = stranded
    BY <1>1 DEF ListPending, shared, history
  <2>2. CASE Done(c)
    BY <2>1, <2>2, DoneMoves, PlainMoves
  <2>3. ASSUME NEW found \in {PendingOf(call[c].domain), {}},
               call' = [call EXCEPT ![c].at = "forget", ![c].found = found]
        PROVE  ChallengesInv'
    <3>0. found \subseteq PendingOf(call[c].domain)
      OBVIOUS
    <3>1. call'[c] = [call[c] EXCEPT !.at = "forget", !.found = found] /\ \A e \in Call \ {c} : call'[e] = call[e]
      BY <1>0, <2>3
    <3>2. call'[c].at = "forget" /\ call'[c].found = found /\ call'[c].domain = call[c].domain
      BY <1>0, <3>1 DEF Record
    <3>3. FoundOK(c)'
      BY <2>1, <3>0, <3>2 DEF FoundOK, PendingOf
    <3>4. \A e \in Call \ {c} : Waiting(e) => call[e].order \notin found
      BY <3>0 DEF ChallengesInv, WaitingOK, PendingOf
    <3>5. GoesOn(c)
      BY <3>2, <3>3, <3>4 DEF GoesOn
    <3>6. ChallengesSettle /\ \A m \in DOMAIN orders : m \in held' \/ m \in tried'
      BY <2>1 DEF ChallengesInv, ChallengesSettle
    <3> QED
      BY <2>1, <3>1, <3>5, <3>6, CallMoves
  <2> QED
    BY <1>1, <2>2, <2>3 DEF ListPending
<1>2. CASE ForgetTokens(c)
  <2>1. /\ orders' = orders /\ challenges' = challenges /\ held' = held /\ tried' = tried
        /\ tokens' = tokens \ call[c].found /\ call[c].at = "forget" /\ Goto(c, "clear") /\ stranded' = stranded
    BY <1>2 DEF ForgetTokens, history
  <2>2. call'[c] = [call[c] EXCEPT !.at = "clear"] /\ \A e \in Call \ {c} : call'[e] = call[e]
    BY <1>0, <2>1 DEF Goto
  <2>3. call'[c].at = "clear" /\ call'[c].found = call[c].found /\ call'[c].domain = call[c].domain
    BY <1>0, <2>2 DEF Record
  <2>4. FoundOK(c)'
    BY <2>1, <2>3 DEF ChallengesInv, FoundOK
  <2>5. \A e \in Call \ {c} : Waiting(e) => call[e].order \notin call[c].found
    BY <2>1 DEF ChallengesInv, Apart
  <2>6. GoesOn(c)
    BY <2>3, <2>4, <2>5 DEF GoesOn
  <2>7. ChallengesSettle /\ \A m \in DOMAIN orders : m \in held' \/ m \in tried'
    BY <2>1 DEF ChallengesInv, ChallengesSettle
  <2>8. \A n \in tokens \ tokens' : call'[c].at = "clear" /\ n \in call'[c].found
    BY <2>1, <2>3
  <2> QED
    BY <2>1, <2>2, <2>6, <2>7, <2>8, CallMoves
<1>3. CASE ClearChallenges(c)
  <2>1. orders' = orders /\ tokens' = tokens /\ held' = held /\ tried' = tried /\ call[c].at = "clear"
    BY <1>3 DEF ClearChallenges
  <2>2. call'[c].at \in {"fail", "order", "done"} /\ \A e \in Call \ {c} : call'[e] = call[e]
    <3>1. CASE Done(c)
      BY <3>1, DoneMoves
    <3>2. CASE ~Done(c)
      <4>1. \E l \in {"fail", "order"} : Goto(c, l)
        BY <1>3, <3>2 DEF ClearChallenges
      <4> QED
        BY <1>0, <4>1 DEF Goto, Record
    <3> QED
      BY <3>1, <3>2
  <2>3. challenges \in [1..MaxOrders -> {"none", "pending", "completed"}]
    BY DEF ChallengesInv
  <2>4. GoesOn(c) /\ \A m \in DOMAIN orders : m \in held' \/ m \in tried'
    BY <2>1, <2>2 DEF ChallengesInv, GoesOn
  <2>5. CASE challenges' = challenges /\ stranded' = stranded \cup call[c].found
    <3>1. ChallengesSettle
      BY <2>3, <2>5 DEF ChallengesSettle
    <3>2. \A n \in call[c].found : n \in stranded'
      BY <2>5
    <3> QED
      BY <2>1, <2>2, <2>4, <2>5, <3>1, <3>2, CallMoves
  <2>6. CASE /\ stranded' = stranded
             /\ challenges' = [n \in DOMAIN challenges |->
                                 IF n \in PendingOf(call[c].domain) THEN "none" ELSE challenges[n]]
    <3>1. \A n \in 1..MaxOrders : challenges'[n] = IF n \in PendingOf(call[c].domain) THEN "none" ELSE challenges[n]
      BY <2>3, <2>6
    <3>2. challenges' \in [1..MaxOrders -> {"none", "pending", "completed"}]
      BY <2>3, <2>6
    <3>3. ChallengesSettle
      BY <3>1, <3>2 DEF ChallengesSettle
    <3>4. \A n \in call[c].found : n \in 1..MaxOrders => challenges'[n] # "pending"
      <4>1. \A n \in call[c].found : n \in DOMAIN orders /\ orders[n].domain = call[c].domain
        BY <2>1 DEF ChallengesInv, FoundOK
      <4> QED
        BY <3>1, <4>1 DEF PendingOf
    <3> QED
      BY <2>1, <2>2, <2>4, <2>6, <3>3, <3>4, CallMoves
  <2> QED
    BY <1>3, <2>5, <2>6 DEF ClearChallenges
<1> QED
  BY <1>1, <1>2, <1>3

\* After a restart nobody waits, and every order counts as tried.
LEMMA RestartServed ==
    ASSUME DomainsInv, ChallengesInv, RelayRestarts
    PROVE  ChallengesInv'
<1>1. orders' = orders /\ challenges' = challenges /\ tried' = DOMAIN orders /\ stranded' = stranded
  BY DEF RelayRestarts
<1>2. \A c \in Call : call'[c].at \in {"idle", "done"}
  BY DEF RelayRestarts, Idle
<1>3. \A c \in Call : WaitingOK(c)' /\ FoundOK(c)'
  BY <1>2 DEF WaitingOK, FoundOK, Waiting
<1>4. \A c \in Call : \A e \in Call \ {c} : Apart(c, e)'
  BY <1>2 DEF Apart, Waiting
<1>5. \A n \in 1..MaxOrders : ChallengeServed(n)'
  BY <1>1 DEF ChallengesInv, ChallengeServed
<1> QED
  BY <1>1, <1>3, <1>4, <1>5 DEF ChallengesInv

\* Every step keeps both invariants.
LEMMA ChallengesInductive == DomainsSpec => []ChallengesInv
<1>1. DomainsInit => ChallengesInv
  <2> SUFFICES ASSUME DomainsInit PROVE ChallengesInv
    OBVIOUS
  <2>1. \A c \in Call : call[c].at = "idle"
    BY DEF DomainsInit, Idle
  <2>2. \A c \in Call : /\ WaitingOK(c) /\ FoundOK(c)
                        /\ \A e \in Call \ {c} : Apart(c, e)
    BY <2>1 DEF WaitingOK, FoundOK, Apart, Waiting
  <2>3. \A n \in 1..MaxOrders : ChallengeServed(n)
    BY DEF DomainsInit, ChallengeServed
  <2>4. Len(orders) = 0 /\ DOMAIN orders = {} /\ challenges \in [1..MaxOrders -> {"none", "pending", "completed"}]
    BY DEF DomainsInit
  <2> QED
    BY <2>2, <2>3, <2>4, DomainAssumption DEF ChallengesInv
<1>2. DomainsInv /\ ChallengesInv /\ [DomainsNext]_domainVars => ChallengesInv'
  <2> SUFFICES ASSUME DomainsInv, ChallengesInv, [DomainsNext]_domainVars PROVE ChallengesInv'
    OBVIOUS
  <2>1. CASE UNCHANGED domainVars
    BY <2>1 DEF domainVars, ChallengesInv, WaitingOK, FoundOK, Apart, Waiting, ChallengeServed
  <2>2. CASE RelayRestarts
    BY <2>2, RestartServed
  <2>3. ASSUME NEW c \in Call, CallStep(c) PROVE ChallengesInv'
    BY <2>3, FileStepsServed, BeginServed, TokenServed, TakeServed, CompletedServed, CancelServed,
       NewOrderServed, SaveServed DEF CallStep
  <2> QED
    BY <2>1, <2>2, <2>3 DEF DomainsNext
<1> QED
  BY <1>1, <1>2, DomainsInductive, PTL DEF DomainsSpec

\* A domain that is registered in the database has a certificate that loads, which the
\* program that reads it there presents; and a pending challenge can be completed and is
\* served, until it was tried, the relay restarted or the database failed its cancelling.
THEOREM Covered == DomainsSpec => []DomainsCovered
<1>1. DomainsInv /\ ChallengesInv => DomainsCovered
  <2> SUFFICES ASSUME DomainsInv, ChallengesInv PROVE DomainsCovered
    OBVIOUS
  <2>1. PendingCanComplete
    <3> SUFFICES ASSUME NEW n \in DOMAIN orders, challenges[n] = "pending", n \notin tried
                 PROVE  /\ n \in held
                        /\ lookup_acme_challenge(n) =>
                             \/ serve_acme_challenge(n)
                             \/ \E c \in Call : call[c].at = "clear" /\ n \in call[c].found
                             \/ n \in stranded
      BY DEF PendingCanComplete
    <3>1. n \in 1..MaxOrders
      BY OrdersBound
    <3> QED
      BY <3>1 DEF ChallengesInv, ChallengeServed, lookup_acme_challenge, serve_acme_challenge
  <2> QED
    BY <2>1, InvImplies DEF DomainsCovered
<1> QED
  BY <1>1, DomainsInductive, ChallengesInductive, PTL

(***************************************************************************)
(* Tunnels and traffic.                                                    *)
(***************************************************************************)
ListingRow == [op : {"none", "active", "all", "one"}, at : {"idle", "each", "tcp", "http", "done", "failed"},
               asked : SUBSET Id, todo : SUBSET Id, but : SUBSET Id, up : SUBSET Id, down : SUBSET Id]

TrafficTypes ==
    /\ connected \subseteq Id /\ tcp \subseteq Id /\ http \subseteq Id
    /\ listing \in ListingRow

\* What was seen of the connections during the call.
Seen ==
    /\ listing.up \subseteq was /\ stayed \cap listing.asked \subseteq listing.up \cup listing.todo
    /\ listing.op \in {"active", "all"} =>
         stayed \cup listing.up \cup listing.todo \subseteq listing.but /\ listing.but \subseteq was
    /\ listing.op = "one" => /\ listing.but = {} /\ \E i : listing.asked = {i}
                             /\ listing.todo \cup listing.up \subseteq listing.asked
    /\ listing.op # "none"

\* What was seen of the tables: a recorded tunnel that was away is found in one of them.
Looked ==
    /\ listing.at # "each" => listing.todo = {}
    /\ listing.at \in {"each", "tcp"} => listing.down = {}
    /\ listing.at \in {"tcp", "http"} => listing.op = "all" \/ (listing.op = "one" /\ listing.up = {})
    /\ listing.op = "one" => listing.up = {} \/ listing.down = {}
    /\ had \subseteq tcp \cup http
    /\ listing.down \subseteq (tcp \cup http) \cap (listing.asked \ listing.but)
    /\ listing.at = "http" => (had \cap listing.asked) \ (was \cup listing.down) \subseteq http
    /\ listing.at = "done" /\ listing.op # "active" => (had \cap listing.asked) \ was \subseteq listing.down

ListingInv ==
    /\ TrafficTypes /\ stayed \subseteq connected /\ connected \subseteq was
    /\ listing.at \notin {"idle", "failed"} => Seen /\ Looked

\* The invariant is enough for the property.
LEMMA ListingImplied == ListingInv => ListingTrue
<1> SUFFICES ASSUME ListingInv, listing.at = "done" PROVE ListingTrue
  BY DEF ListingTrue
<1>1. Seen /\ Looked /\ listing.todo = {}
  BY DEF ListingInv, Looked
<1>2. CASE listing.op = "one"
  BY <1>1, <1>2 DEF Seen, Looked, ListingTrue, ListingInv
<1>3. CASE listing.op \in {"active", "all"}
  BY <1>1, <1>3 DEF Seen, Looked, ListingTrue, ListingInv
<1>4. listing.op \in {"none", "active", "all", "one"} /\ listing.op # "none"
  BY <1>1 DEF ListingInv, TrafficTypes, ListingRow, Seen
<1> QED
  BY <1>2, <1>3, <1>4

\* Tunnels come, go and are recorded while the call is put together.
LEMMA TunnelsKeep ==
    ASSUME ListingInv, NEW i \in Id, Connects(i) \/ Leaves(i) \/ Recorded(i)
    PROVE  ListingInv'
<1>1. TrafficTypes' /\ stayed' \subseteq connected' /\ connected' \subseteq was'
  BY DEF ListingInv, TrafficTypes, Connects, Leaves, Recorded
<1>2. /\ listing' = listing /\ had' = had /\ was \subseteq was' /\ stayed' \subseteq stayed
      /\ tcp \subseteq tcp' /\ http \subseteq http'
  BY DEF Connects, Leaves, Recorded
<1>3. ASSUME listing.at \notin {"idle", "failed"} PROVE Seen'
  BY <1>2, <1>3 DEF ListingInv, Seen
<1>4. ASSUME listing.at \notin {"idle", "failed"} PROVE Looked'
  BY <1>2, <1>4 DEF ListingInv, Looked
<1> QED
  BY <1>1, <1>2, <1>3, <1>4 DEF ListingInv

\* A call begins.
LEMMA BeginListingKeeps ==
    ASSUME ListingInv, list_tunnels \/ \E i \in Id : get_tunnel(i)
    PROVE  ListingInv'
<1>1. CASE list_tunnels
  <2>1. PICK op \in {"active", "all"} :
          BeginListing([BeforeListing EXCEPT !.op = op, !.at = "each", !.asked = Id, !.todo = connected,
                                             !.but = connected])
    BY <1>1 DEF list_tunnels
  <2>2. listing' = [op |-> op, at |-> "each", asked |-> Id, todo |-> connected, but |-> connected,
                    up |-> {}, down |-> {}]
    BY <2>1 DEF BeginListing, BeforeListing
  <2>3. /\ was' = connected /\ stayed' = connected /\ had' = tcp \cup http
        /\ connected' = connected /\ tcp' = tcp /\ http' = http
    BY <2>1 DEF BeginListing
  <2>4. listing' \in ListingRow
    BY <2>2 DEF ListingInv, TrafficTypes, ListingRow
  <2> QED
    BY <2>2, <2>3, <2>4 DEF ListingInv, TrafficTypes, Seen, Looked
<1>2. ASSUME NEW i \in Id, get_tunnel(i) PROVE ListingInv'
  <2>2. listing' = [op |-> "one", at |-> "each", asked |-> {i}, todo |-> {i}, but |-> {}, up |-> {}, down |-> {}]
    BY <1>2 DEF get_tunnel, BeginListing, BeforeListing
  <2>3. /\ was' = connected /\ stayed' = connected /\ had' = tcp \cup http
        /\ connected' = connected /\ tcp' = tcp /\ http' = http
    BY <1>2 DEF get_tunnel, BeginListing
  <2>4. listing' \in ListingRow
    BY <2>2 DEF ListingInv, TrafficTypes, ListingRow
  <2>5. Seen'
    BY <2>2, <2>3 DEF Seen
  <2>6. Looked'
    BY <2>2, <2>3 DEF Looked
  <2> QED
    BY <2>2, <2>3, <2>4, <2>5, <2>6 DEF ListingInv, TrafficTypes
<1> QED
  BY <1>1, <1>2

\* The steps of the call.
LEMMA ReadingKeeps ==
    ASSUME ListingInv, ReadEndpoints \/ ReadTcp \/ ReadHttp
    PROVE  ListingInv'
<1>0. /\ connected' = connected /\ tcp' = tcp /\ http' = http /\ was' = was /\ stayed' = stayed /\ had' = had
      /\ listing \in ListingRow /\ Seen /\ Looked
  BY DEF ReadEndpoints, ReadTcp, ReadHttp, ListingInv, TrafficTypes
<1>1. ASSUME NEW i \in listing.todo, listing.at = "each",
             listing' = [listing EXCEPT !.todo = @ \ {i}, !.up = IF i \in connected THEN @ \cup {i} ELSE @]
      PROVE  ListingInv'
  <2>1. /\ listing'.op = listing.op /\ listing'.at = "each" /\ listing'.asked = listing.asked
        /\ listing'.but = listing.but /\ listing'.down = listing.down /\ listing'.todo = listing.todo \ {i}
        /\ listing'.up = IF i \in connected THEN listing.up \cup {i} ELSE listing.up
    BY <1>0, <1>1 DEF ListingRow
  <2>2. listing' \in ListingRow
    BY <1>0, <1>1 DEF ListingRow
  <2>3. Seen'
    BY <1>0, <2>1 DEF Seen, ListingInv
  <2>4. Looked'
    BY <1>0, <1>1, <2>1 DEF Looked
  <2> QED
    BY <1>0, <2>1, <2>2, <2>3, <2>4 DEF ListingInv, TrafficTypes
<1>2. ASSUME NEW l \in {"tcp", "http", "done", "failed"}, NEW D, listing.todo = {},
             listing' = [listing EXCEPT !.at = l, !.down = D],
             D \subseteq (tcp \cup http) \cap (listing.asked \ listing.but),
             l = "tcp" => D = {},
             l \in {"tcp", "http"} => listing.op = "all" \/ (listing.op = "one" /\ listing.up = {}),
             listing.op = "one" => listing.up = {} \/ D = {},
             l = "http" => (had \cap listing.asked) \ (was \cup D) \subseteq http,
             l = "done" /\ listing.op # "active" => (had \cap listing.asked) \ was \subseteq D
      PROVE  ListingInv'
  <2>1. /\ listing'.op = listing.op /\ listing'.at = l /\ listing'.asked = listing.asked
        /\ listing'.but = listing.but /\ listing'.down = D /\ listing'.todo = listing.todo
        /\ listing'.up = listing.up
    BY <1>0, <1>2 DEF ListingRow
  <2>2. listing' \in ListingRow
    <3>1. D \in SUBSET Id
      BY <1>0, <1>2 DEF ListingRow
    <3> QED
      BY <1>0, <1>2, <3>1 DEF ListingRow
  <2>3. Seen'
    BY <1>0, <2>1 DEF Seen, ListingInv
  <2>4. l # "failed" => Looked'
    BY <1>0, <1>2, <2>1 DEF Looked
  <2> QED
    BY <1>0, <2>1, <2>2, <2>3, <2>4 DEF ListingInv, TrafficTypes
<1>3. CASE ReadEndpoints
  <2>1. CASE listing.todo = {} /\ listing' = [listing EXCEPT !.at = IF listing.op = "all" \/ (listing.op = "one" /\ listing.up = {})
                                               THEN "tcp" ELSE "done"]
    <3> DEFINE l == IF listing.op = "all" \/ (listing.op = "one" /\ listing.up = {}) THEN "tcp" ELSE "done"
    <3>1. listing.down = {} /\ listing.at = "each"
      BY <1>0, <1>3 DEF Looked, ReadEndpoints
    <3>2. listing' = [listing EXCEPT !.at = l, !.down = {}]
      BY <1>0, <2>1, <3>1 DEF ListingRow
    <3>3. l = "done" /\ listing.op # "active" => (had \cap listing.asked) \ was = {}
      BY <1>0, <2>1 DEF Seen, ListingRow
    <3>4. l \in {"tcp", "done"} /\ (l = "tcp" => listing.op = "all" \/ (listing.op = "one" /\ listing.up = {}))
      OBVIOUS
    <3> HIDE DEF l
    <3> QED
      BY <1>2, <2>1, <3>2, <3>3, <3>4
  <2> QED
    BY <1>1, <1>3, <2>1 DEF ReadEndpoints
<1>4. CASE listing' = [listing EXCEPT !.at = "failed"]
  BY <1>0, <1>4 DEF ListingInv, TrafficTypes, ListingRow
<1>5. CASE ReadTcp /\ listing' = [listing EXCEPT !.at = "http", !.down = ReadTable(tcp)]
  <2>0. listing.at = "tcp"
    BY <1>5 DEF ReadTcp
  <2>1. /\ listing.todo = {} /\ (listing.op = "all" \/ (listing.op = "one" /\ listing.up = {}))
        /\ had \subseteq tcp \cup http
    BY <1>0, <2>0 DEF Looked
  <2>2. listing.but \subseteq was
    BY <1>0, <2>1 DEF Seen
  <2>3. (had \cap listing.asked) \ (was \cup ReadTable(tcp)) \subseteq http
    BY <2>1, <2>2 DEF ReadTable
  <2>4. ReadTable(tcp) \subseteq (tcp \cup http) \cap (listing.asked \ listing.but)
    BY DEF ReadTable
  <2>5. PICK D : D = ReadTable(tcp)
    OBVIOUS
  <2> QED
    BY <1>2, <1>5, <2>1, <2>3, <2>4, <2>5
<1>6. CASE ReadHttp /\ listing' = [listing EXCEPT !.at = "done", !.down = @ \cup ReadTable(http)]
  <2>0. listing.at = "http"
    BY <1>6 DEF ReadHttp
  <2>1. /\ listing.todo = {} /\ (listing.op = "all" \/ (listing.op = "one" /\ listing.up = {}))
        /\ (had \cap listing.asked) \ (was \cup listing.down) \subseteq http
        /\ listing.down \subseteq (tcp \cup http) \cap (listing.asked \ listing.but)
    BY <1>0, <2>0 DEF Looked
  <2>2. listing.but \subseteq was
    BY <1>0, <2>1 DEF Seen
  <2>3. PICK D : D = listing.down \cup ReadTable(http)
    OBVIOUS
  <2>4. (had \cap listing.asked) \ was \subseteq D
    BY <2>1, <2>2, <2>3 DEF ReadTable
  <2>5. D \subseteq (tcp \cup http) \cap (listing.asked \ listing.but)
    BY <2>1, <2>3 DEF ReadTable
  <2>6. listing' = [listing EXCEPT !.at = "done", !.down = D]
    BY <1>6, <2>3
  <2> QED
    BY <1>2, <2>1, <2>4, <2>5, <2>6
<1> QED
  BY <1>3, <1>4, <1>5, <1>6 DEF ReadTcp, ReadHttp

\* The invariant is inductive.
LEMMA ListingInductive == TrafficSpec => []ListingInv
<1>1. TrafficInit => ListingInv
  BY DEF TrafficInit, ListingInv, TrafficTypes, ListingRow, BeforeListing
<1>2. ListingInv /\ [TrafficNext]_trafficVars => ListingInv'
  <2> SUFFICES ASSUME ListingInv, [TrafficNext]_trafficVars PROVE ListingInv'
    OBVIOUS
  <2>1. CASE UNCHANGED trafficVars
    BY <2>1 DEF trafficVars, ListingInv, TrafficTypes, Seen, Looked
  <2>2. CASE TrafficNext
    BY <2>2, TunnelsKeep, BeginListingKeeps, ReadingKeeps DEF TrafficNext
  <2> QED
    BY <2>1, <2>2
<1> QED
  BY <1>1, <1>2, PTL DEF TrafficSpec

-----------------------------------------------------------------------------
CapturedRow == [id : Id, status : Status, created : Int]

View == [at : {"idle", "bad", "total", "pending", "latest", "done", "page", "read"}, tunnel : SUBSET Id,
         cutoff : Int, bad : Nat, total : Nat, verdict : {"none", "unknown", "down", "up"},
         limit : Nat \ {0}, offset : Nat, seen : SUBSET Nat,
         from : Nat, overtaken : BOOLEAN, failed : BOOLEAN]

CapturedTypes ==
    /\ captured \in Seq(CapturedRow) /\ clock \in Nat
    /\ view \in View /\ view.from <= Len(captured)

Counted == {"total", "pending", "latest", "done"}
Totalled == {"pending", "latest", "done"}

\* The failures that were counted are there, and so are the requests; what a quiet call
\* has counted is all there is.
CountsRight ==
    /\ view.at \in Counted /\ view.bad > 0 => With(502) # {}
    /\ view.at = "total" => view.bad <= Cardinality(With(502))
    /\ view.at \in Counted /\ ~view.failed /\ ~view.overtaken => view.bad = Cardinality(With(502))
    /\ view.at \in Totalled /\ view.total > 0 => view.bad <= view.total
    /\ view.at \in Totalled /\ ~view.failed /\ ~view.overtaken => view.total = Cardinality(Recent)
    /\ view.at \in Totalled /\ ~view.failed /\ view.total = 0 => \A k \in Recent : k > view.from

VerdictRight ==
    view.at = "done" =>
      /\ view.verdict = "down" => With(502) \cup With(NoAnswer) # {}
      /\ view.verdict = "up" => Answered # {} \/ view.overtaken \/ view.failed
      /\ view.verdict = "unknown" => (\A k \in Recent : k > view.from) \/ view.failed

\* The rows that a reader has yet to see are on pages it has yet to ask for.
PagesRight ==
    /\ view.at = "page" => \A k \in 1..view.from : k \in view.seen \/ Newer(k) >= PageStart(view.offset, view.limit)
    /\ view.at = "read" => 1..view.from \subseteq view.seen

CapturedInv == CapturedTypes /\ CountsRight /\ VerdictRight /\ PagesRight

\* The invariant is enough for both properties.
LEMMA CapturedImplied == CapturedInv => StatusTrue /\ PagesCover
<1> SUFFICES ASSUME CapturedInv PROVE StatusTrue /\ PagesCover
  OBVIOUS
<1>1. PagesCover
  BY DEF CapturedInv, PagesRight, PagesCover
<1>2. With(502) \cup With(NoAnswer) # {} => Answered # Recent
  BY DEF With, Answered, NoAnswer
<1>3. StatusTrue
  BY <1>2 DEF CapturedInv, VerdictRight, CountsRight, StatusTrue, Totalled
<1> QED
  BY <1>1, <1>3

\* Sets of rows are finite, and a larger one counts at least as much.
LEMMA RowsFinite ==
    ASSUME NEW n \in Nat
    PROVE  /\ \A S : S \subseteq 1..n => Cardinality(S) \in Nat /\ (Cardinality(S) = 0 <=> S = {})
           /\ \A S, T : S \subseteq T /\ T \subseteq 1..n => Cardinality(S) <= Cardinality(T)
<1>1. IsFiniteSet(1..n)
  BY FS_Interval
<1>2. \A S : S \subseteq 1..n => IsFiniteSet(S)
  BY <1>1, FS_Subset
<1> QED
  BY <1>2, FS_Subset, FS_CardinalityType, FS_EmptySet

\* Of the rows of a table fewer than all are newer than one of them.
LEMMA NewerBound ==
    ASSUME CapturedTypes, NEW k \in DOMAIN captured
    PROVE  Newer(k) \in Nat /\ Newer(k) < Len(captured)
<1> DEFINE S == {j \in DOMAIN captured : captured[j].created > captured[k].created}
<1>1. DOMAIN captured = 1..Len(captured) /\ Len(captured) \in Nat
  BY DEF CapturedTypes
<1>2. IsFiniteSet(DOMAIN captured) /\ Cardinality(DOMAIN captured) = Len(captured)
  <2>1. PICK n \in Nat : n = Len(captured)
    BY <1>1
  <2>2. IsFiniteSet(1..n) /\ Cardinality(1..n) = IF 1 > n THEN 0 ELSE n - 1 + 1
    BY FS_Interval
  <2>3. (IF 1 > n THEN 0 ELSE n - 1 + 1) = n
    OBVIOUS
  <2> QED
    BY <1>1, <2>1, <2>2, <2>3
<1>3. S \subseteq DOMAIN captured \ {k}
  <2>1. captured[k] \in CapturedRow
    BY <1>1 DEF CapturedTypes
  <2> QED
    BY <2>1 DEF CapturedRow
<1>4. IsFiniteSet(DOMAIN captured \ {k}) /\ Cardinality(DOMAIN captured \ {k}) = Len(captured) - 1
  BY <1>2, FS_RemoveElement
<1>5. IsFiniteSet(S) /\ Cardinality(S) \in Nat /\ Cardinality(S) <= Len(captured) - 1
  BY <1>3, <1>4, FS_Subset, FS_CardinalityType
<1> QED
  BY <1>1, <1>5 DEF Newer

\* The page an offset is in, and the next one.
LEMMA PageFacts ==
    ASSUME NEW o \in Nat, NEW l \in Nat \ {0}
    PROVE  /\ PageStart(o, l) \in Nat
           /\ PageStart(o + l, l) = PageStart(o, l) + l
<1>1. o \div l \in Nat /\ (o + l) \div l = (o \div l) + 1
  OBVIOUS
<1>2. PICK q \in Nat : q = o \div l
  BY <1>1
<1>3. PageStart(o, l) = q * l /\ PageStart(o + l, l) = (q + 1) * l
  BY <1>1, <1>2 DEF PageStart
<1>4. q * l \in Nat /\ (q + 1) * l = q * l + l
  OBVIOUS
<1> QED
  BY <1>3, <1>4

\* A row is stored: what was counted before is there, and rows move back, if at all.
LEMMA StoreKeeps ==
    ASSUME CapturedInv, NEW i \in Id, Store(i)
    PROVE  CapturedInv'
<1>1. PICK s \in Status, t \in 1..clock : captured' = Append(captured, [id |-> i, status |-> s, created |-> t])
  BY DEF Store
<1>2. PICK row \in CapturedRow : captured' = Append(captured, row)
  <2>1. [id |-> i, status |-> s, created |-> t] \in CapturedRow
    BY DEF CapturedInv, CapturedTypes, CapturedRow
  <2> QED
    BY <1>1, <2>1
<1>3. PICK n \in Nat : n = Len(captured)
  BY DEF CapturedInv, CapturedTypes
<1>4. /\ captured' \in Seq(CapturedRow) /\ Len(captured') = n + 1 /\ DOMAIN captured = 1..n
      /\ DOMAIN captured' = 1..n+1 /\ \A k \in 1..n : captured'[k] = captured[k]
  BY <1>2, <1>3 DEF CapturedInv, CapturedTypes
<1>5. /\ view' = [view EXCEPT !.overtaken = TRUE] /\ clock' = clock /\ view \in View
  BY DEF Store, CapturedInv, CapturedTypes
<1>6. /\ view' \in View /\ view'.overtaken = TRUE /\ view'.at = view.at /\ view'.tunnel = view.tunnel
      /\ view'.cutoff = view.cutoff /\ view'.bad = view.bad /\ view'.total = view.total /\ view'.from = view.from
      /\ view'.verdict = view.verdict /\ view'.failed = view.failed /\ view'.seen = view.seen
      /\ view'.limit = view.limit /\ view'.offset = view.offset
  BY <1>5 DEF View
<1>7. CapturedTypes'
  <2>1. PICK m \in Nat : m = view.from /\ m <= n
    BY <1>3, <1>5 DEF CapturedInv, CapturedTypes, View
  <2>2. view'.from <= Len(captured')
    BY <1>4, <1>6, <2>1
  <2> QED
    BY <1>4, <1>5, <1>6, <2>2 DEF CapturedInv, CapturedTypes
<1>8. /\ Recent \subseteq Recent' /\ \A k \in Recent' : k \in Recent \/ k = n + 1
      /\ \A x : With(x) \subseteq With(x)'
  <2>1. Recent \subseteq Recent' /\ \A k \in Recent' : k \in Recent \/ k = n + 1
    BY <1>4, <1>6 DEF Recent
  <2> QED
    BY <1>4, <2>1 DEF With, Recent
<1>9. view.from <= n /\ view.from \in Nat
  BY <1>3 DEF CapturedInv, CapturedTypes, View
<1>10. With(502) \subseteq With(502)' /\ With(502)' \subseteq 1..n+1
  BY <1>4, <1>8 DEF With, Recent
<1>11. CountsRight'
  <2>1. n + 1 \in Nat
    OBVIOUS
  <2>2. Cardinality(With(502)) <= Cardinality(With(502)') /\ Cardinality(With(502)') \in Nat /\ Cardinality(With(502)) \in Nat
    BY <1>10, <2>1, RowsFinite
  <2>3. view.at = "total" => view.bad <= Cardinality(With(502)')
    BY <2>2 DEF CapturedInv, CountsRight, CapturedTypes, View
  <2>4. (\A k \in Recent : k > view.from) => \A k \in Recent' : k > view.from
    BY <1>8, <1>9
  <2> QED
    BY <1>6, <1>10, <2>3, <2>4 DEF CapturedInv, CountsRight
<1>12. VerdictRight'
  <2>1. (\A k \in Recent : k > view.from) => \A k \in Recent' : k > view.from
    BY <1>8, <1>9
  <2>2. With(502) \cup With(NoAnswer) # {} => (With(502) \cup With(NoAnswer))' # {}
    BY <1>8
  <2> QED
    BY <1>6, <2>1, <2>2 DEF CapturedInv, VerdictRight
<1>13. \A k \in 1..n : Newer(k)' >= Newer(k) /\ Newer(k) \in Nat /\ Newer(k)' \in Nat
  <2> SUFFICES ASSUME NEW k \in 1..n PROVE Newer(k)' >= Newer(k) /\ Newer(k) \in Nat /\ Newer(k)' \in Nat
    OBVIOUS
  <2> DEFINE S == {j \in 1..n : captured[j].created > captured[k].created}
             T == {j \in 1..n+1 : captured'[j].created > captured'[k].created}
  <2>1. S \subseteq T /\ T \subseteq 1..n+1 /\ S \subseteq 1..n+1
    BY <1>4
  <2>2. Newer(k) = Cardinality(S) /\ Newer(k)' = Cardinality(T)
    BY <1>4 DEF Newer
  <2>3. PICK m \in Nat : m = n + 1
    OBVIOUS
  <2> HIDE DEF S, T
  <2>4. S \subseteq T /\ T \subseteq 1..m /\ S \subseteq 1..m
    BY <2>1, <2>3
  <2>5. Cardinality(S) \in Nat /\ Cardinality(T) \in Nat /\ Cardinality(S) <= Cardinality(T)
    BY <2>4, RowsFinite
  <2> QED
    BY <2>2, <2>5
<1>14. PagesRight'
  <2>1. PageStart(view.offset, view.limit) \in Nat
    BY <1>5, PageFacts DEF View
  <2>2. PageStart(view.offset, view.limit)' = PageStart(view.offset, view.limit)
    BY <1>6 DEF PageStart
  <2>3. \A k \in 1..view.from : k \in 1..n
    BY <1>9
  <2>4. view.at = "page" => \A k \in 1..view.from : k \in view.seen \/ Newer(k)' >= PageStart(view.offset, view.limit)
    BY <1>13, <2>1, <2>3 DEF CapturedInv, PagesRight
  <2> QED
    BY <1>6, <2>2, <2>4 DEF CapturedInv, PagesRight
<1> QED
  BY <1>7, <1>11, <1>12, <1>14 DEF CapturedInv

\* A call begins with nothing counted, or with nothing seen.
LEMMA BeginViewKeeps ==
    ASSUME CapturedInv, (\E i \in Id : BeginStatus(i)) \/ \E l \in PageLimit : BeginPages(l)
    PROVE  CapturedInv'
<1>0. captured' = captured /\ clock' = clock
  BY DEF BeginStatus, BeginPages
<1>1. ASSUME NEW i \in Id, BeginStatus(i) PROVE CapturedInv'
  <2>1. /\ view' = [at |-> "bad", tunnel |-> {i}, cutoff |-> clock - Minute, bad |-> 0, total |-> 0,
                    verdict |-> "none", limit |-> 1, offset |-> 0, seen |-> {},
                    from |-> Len(captured), overtaken |-> FALSE, failed |-> FALSE]
    BY <1>1 DEF BeginStatus, NoView
  <2>2. view' \in View /\ view'.at = "bad" /\ view'.from = Len(captured)
    BY <2>1, CapturedAssumption DEF CapturedInv, CapturedTypes, View
  <2> QED
    BY <1>0, <2>2 DEF CapturedInv, CapturedTypes, CountsRight, VerdictRight, PagesRight, Counted, Totalled
<1>2. ASSUME NEW l \in PageLimit, BeginPages(l) PROVE CapturedInv'
  <2>1. /\ view' = [at |-> "page", tunnel |-> {}, cutoff |-> 0, bad |-> 0, total |-> 0,
                    verdict |-> "none", limit |-> l, offset |-> 0, seen |-> {},
                    from |-> Len(captured), overtaken |-> FALSE, failed |-> FALSE]
    BY <1>2 DEF BeginPages, NoView
  <2>2. view' \in View /\ view'.at = "page" /\ view'.from = Len(captured) /\ view'.offset = 0 /\ view'.limit = l
    BY <2>1, CapturedAssumption DEF CapturedInv, CapturedTypes, View
  <2>3. l \in Nat \ {0} /\ PageStart(0, l) = 0
    BY CapturedAssumption DEF PageStart
  <2>4. \A k \in DOMAIN captured : Newer(k)' = Newer(k) /\ Newer(k) \in Nat
    BY <1>0, NewerBound DEF Newer, CapturedInv
  <2>5. PagesRight'
    BY <1>0, <2>2, <2>3, <2>4 DEF PagesRight, CapturedInv, CapturedTypes
  <2> QED
    BY <1>0, <2>2, <2>5 DEF CapturedInv, CapturedTypes, CountsRight, VerdictRight, Counted, Totalled
<1> QED
  BY <1>1, <1>2

\* The next page: a row that is not on it comes on a later one, and there is none after
\* a page that is not full.
LEMMA ReadPageKeeps ==
    ASSUME CapturedInv, ReadPage
    PROVE  CapturedInv'
<1>1. PICK p \in Nat : p = PageStart(view.offset, view.limit)
  BY PageFacts DEF CapturedInv, CapturedTypes, View
<1>2. PICK l \in Nat \ {0} : l = view.limit
  BY DEF CapturedInv, CapturedTypes, View
<1>3. PICK new : new = {k \in DOMAIN captured : Newer(k) \in p .. p + l - 1}
  OBVIOUS
<1>4. PICK a \in {"page", "read"} : a = IF Len(captured) >= p + l THEN "page" ELSE "read"
  OBVIOUS
<1>5. /\ view' = [view EXCEPT !.seen = view.seen \cup new, !.offset = view.offset + l, !.at = a]
      /\ captured' = captured /\ clock' = clock /\ view.at = "page" /\ view \in View
  BY <1>1, <1>2, <1>3, <1>4 DEF ReadPage, OnPage, CapturedInv, CapturedTypes
<1>6. new \subseteq Nat
  BY <1>3 DEF CapturedInv, CapturedTypes
<1>7. /\ view' \in View /\ view'.at = a /\ view'.seen = view.seen \cup new /\ view'.offset = view.offset + l
      /\ view'.limit = l /\ view'.from = view.from
  <2>1. PICK seen \in SUBSET Nat, offset \in Nat : seen = view.seen \cup new /\ offset = view.offset + l
    <3>1. view.seen \subseteq Nat /\ view.offset \in Nat
      BY <1>5 DEF View
    <3>2. view.seen \cup new \in SUBSET Nat
      BY <1>6, <3>1
    <3>3. view.offset + l \in Nat
      BY <3>1
    <3> QED
      BY <3>2, <3>3
  <2>2. view' = [view EXCEPT !.seen = seen, !.offset = offset, !.at = a]
    BY <1>5, <2>1
  <2> QED
    BY <1>2, <1>5, <2>1, <2>2 DEF View
<1>8. PageStart(view'.offset, view'.limit) = p + l
  BY <1>1, <1>2, <1>5, <1>7, PageFacts DEF View
<1>9. \A k \in 1..view.from : k \in DOMAIN captured /\ Newer(k) \in Nat /\ Newer(k) < Len(captured) /\ Newer(k)' = Newer(k)
  BY <1>5, NewerBound DEF CapturedInv, CapturedTypes, View, Newer
<1>10. \A k \in 1..view.from : k \in view.seen \cup new \/ Newer(k) >= p + l
  BY <1>1, <1>3, <1>5, <1>9 DEF CapturedInv, PagesRight
<1>11. a = "read" => \A k \in 1..view.from : Newer(k) < p + l
  BY <1>4, <1>5, <1>9 DEF CapturedInv, CapturedTypes
<1>12. PagesRight'
  <2>1. a = "page" => \A k \in 1..view.from : k \in view.seen \cup new \/ Newer(k)' >= p + l
    BY <1>9, <1>10
  <2>2. a = "read" => 1..view.from \subseteq view.seen \cup new
    BY <1>9, <1>10, <1>11
  <2> QED
    BY <1>7, <1>8, <2>1, <2>2 DEF PagesRight
<1> QED
  BY <1>4, <1>5, <1>7, <1>12 DEF CapturedInv, CapturedTypes, CountsRight, VerdictRight, Counted, Totalled

\* Rows with one of the three statuses.
LEMMA StatusOfRows ==
    ASSUME CapturedTypes
    PROVE  /\ Recent \subseteq DOMAIN captured /\ Len(captured) \in Nat /\ DOMAIN captured = 1..Len(captured)
           /\ \A x : With(x) \subseteq Recent
           /\ Recent = With(502) \cup With(NoAnswer) \cup Answered
<1>1. \A k \in DOMAIN captured : captured[k].status \in {0, 200, 502}
  <2>1. \A k \in DOMAIN captured : captured[k] \in CapturedRow
    BY DEF CapturedTypes
  <2> QED
    BY <2>1 DEF CapturedRow, Status, NoAnswer
<1> QED
  BY <1>1 DEF CapturedTypes, Recent, With, Answered, NoAnswer

\* The counts of a call, all of rows that are there by then.
LEMMA CountsOfRows ==
    ASSUME CapturedTypes
    PROVE  /\ Cardinality(Recent) \in Nat /\ Cardinality(With(502)) \in Nat /\ Cardinality(With(NoAnswer)) \in Nat
           /\ Cardinality(With(502)) <= Cardinality(Recent)
           /\ Cardinality(Recent) = 0 => Recent = {}
           /\ Cardinality(With(502)) = 0 <=> With(502) = {}
           /\ Cardinality(With(NoAnswer)) = 0 <=> With(NoAnswer) = {}
<1>1. /\ Len(captured) \in Nat /\ Recent \subseteq 1..Len(captured)
      /\ With(502) \subseteq Recent /\ With(NoAnswer) \subseteq Recent
  BY StatusOfRows
<1>2. PICK n \in Nat : n = Len(captured)
  BY <1>1
<1>3. With(502) \subseteq 1..n /\ With(NoAnswer) \subseteq 1..n /\ Recent \subseteq 1..n
  BY <1>1, <1>2
<1>4. PICK W, N, R : W = With(502) /\ N = With(NoAnswer) /\ R = Recent
  OBVIOUS
<1>5. W \subseteq 1..n /\ N \subseteq 1..n /\ R \subseteq 1..n /\ W \subseteq R
  BY <1>1, <1>3, <1>4
<1>6. /\ Cardinality(R) \in Nat /\ Cardinality(W) \in Nat /\ Cardinality(N) \in Nat
      /\ Cardinality(R) = 0 <=> R = {}
      /\ Cardinality(W) = 0 <=> W = {}
      /\ Cardinality(N) = 0 <=> N = {}
      /\ Cardinality(W) <= Cardinality(R)
  BY <1>5, RowsFinite
<1> QED
  BY <1>4, <1>6

\* The first two counts.
LEMMA CountKeeps ==
    ASSUME CapturedInv, CountBad \/ CountTotal
    PROVE  CapturedInv'
<1>0. captured' = captured /\ clock' = clock /\ CapturedTypes /\ view \in View
  BY DEF CountBad, CountTotal, CapturedInv, CapturedTypes
<1>1. CASE CountBad
  <2>1. PICK n \in Count(With(502)) :
          view' = [view EXCEPT !.at = "total", !.bad = n, !.failed = Fails(n, With(502))]
    BY <1>1 DEF CountBad
  <2>2. PICK f \in BOOLEAN : f = Fails(n, With(502))
    BY <1>0 DEF Fails, View
  <2>3. n \in Nat /\ n <= Cardinality(With(502)) /\ (~f => n = Cardinality(With(502)))
    <3>1. PICK c \in Nat : c = Cardinality(With(502))
      BY <1>0, CountsOfRows
    <3>2. n \in {0, c} /\ (~f => n = c)
      BY <2>1, <2>2, <3>1 DEF Count, Fails
    <3> QED
      BY <3>1, <3>2
  <2>4. view' = [view EXCEPT !.at = "total", !.bad = n, !.failed = f]
    BY <2>1, <2>2
  <2>5. /\ view' \in View /\ view'.at = "total" /\ view'.bad = n /\ view'.failed = f /\ view'.from = view.from
        /\ view'.tunnel = view.tunnel /\ view'.cutoff = view.cutoff
    BY <1>0, <2>3, <2>4 DEF View
  <2>6. With(502)' = With(502)
    BY <1>0, <2>5 DEF With, Recent
  <2>7. n > 0 => With(502) # {}
    BY <1>0, <2>3, CountsOfRows
  <2> QED
    BY <1>0, <2>3, <2>5, <2>6, <2>7 DEF CapturedInv, CapturedTypes, CountsRight, VerdictRight, PagesRight, Counted, Totalled
<1>2. CASE CountTotal
  <2>1. PICK n \in Count(Recent) :
          view' = [view EXCEPT !.at = "pending", !.total = n, !.failed = Fails(n, Recent)]
    BY <1>2 DEF CountTotal
  <2>2. PICK f \in BOOLEAN : f = Fails(n, Recent)
    BY <1>0 DEF Fails, View
  <2>3. n \in Nat /\ (n > 0 => n = Cardinality(Recent)) /\ (~f => n = Cardinality(Recent) /\ ~view.failed)
    <3>1. PICK c \in Nat : c = Cardinality(Recent)
      BY <1>0, CountsOfRows
    <3>2. n \in {0, c} /\ (~f => n = c /\ ~view.failed)
      BY <2>1, <2>2, <3>1 DEF Count, Fails
    <3> QED
      BY <3>1, <3>2
  <2>4. view' = [view EXCEPT !.at = "pending", !.total = n, !.failed = f]
    BY <2>1, <2>2
  <2>5. /\ view' \in View /\ view'.at = "pending" /\ view'.bad = view.bad /\ view'.total = n /\ view'.failed = f
        /\ view'.from = view.from /\ view'.tunnel = view.tunnel /\ view'.cutoff = view.cutoff
        /\ view'.overtaken = view.overtaken
    BY <1>0, <2>3, <2>4 DEF View
  <2>6. With(502)' = With(502) /\ Recent' = Recent
    BY <1>0, <2>5 DEF With, Recent
  <2>7. view.at = "total"
    BY <1>2 DEF CountTotal
  <2>8. n > 0 => view.bad <= n
    BY <1>0, <2>3, <2>7, CountsOfRows DEF CapturedInv, CountsRight, View
  <2>9. ~f /\ n = 0 => Recent = {}
    BY <1>0, <2>3, CountsOfRows
  <2>10. CountsRight'
    BY <2>3, <2>5, <2>6, <2>7, <2>8, <2>9 DEF CapturedInv, CountsRight, Counted, Totalled
  <2> QED
    BY <1>0, <2>5, <2>10 DEF CapturedInv, CapturedTypes, VerdictRight, PagesRight
<1> QED
  BY <1>1, <1>2

\* The third count, which decides where no request has failed.
LEMMA PendingKeeps ==
    ASSUME CapturedInv, CountPending
    PROVE  CapturedInv'
<1>0. captured' = captured /\ clock' = clock /\ CapturedTypes /\ view \in View /\ view.at = "pending"
  BY DEF CountPending, CapturedInv, CapturedTypes
<1>1. PICK n \in Count(With(NoAnswer)) :
        view' = [view EXCEPT !.at = IF view.total > 0 /\ view.bad > 0 THEN "latest" ELSE "done",
                             !.verdict = IF view.total = 0 THEN "unknown"
                                         ELSE IF view.bad > 0 THEN "none"
                                         ELSE IF n > 0 /\ n = view.total THEN "down" ELSE "up",
                             !.failed = Fails(n, With(NoAnswer))]
  BY DEF CountPending
<1>2. PICK f \in BOOLEAN : f = Fails(n, With(NoAnswer))
  BY <1>0 DEF Fails, View
<1>3. PICK a \in {"latest", "done"} : a = IF view.total > 0 /\ view.bad > 0 THEN "latest" ELSE "done"
  OBVIOUS
<1>4. PICK v \in {"none", "unknown", "down", "up"} :
         v = IF view.total = 0 THEN "unknown" ELSE IF view.bad > 0 THEN "none"
             ELSE IF n > 0 /\ n = view.total THEN "down" ELSE "up"
  OBVIOUS
<1>5. /\ n \in Nat /\ (n > 0 => With(NoAnswer) # {})
      /\ ~f => n = Cardinality(With(NoAnswer)) /\ ~view.failed
  <2>1. PICK c \in Nat : c = Cardinality(With(NoAnswer)) /\ (c > 0 => With(NoAnswer) # {})
    <3>1. Cardinality(With(NoAnswer)) \in Nat /\ (With(NoAnswer) = {} => Cardinality(With(NoAnswer)) = 0)
      BY <1>0, CountsOfRows
    <3> QED
      BY <3>1
  <2>2. n \in {0, c} /\ (~f => n = c /\ ~view.failed)
    BY <1>1, <1>2, <2>1 DEF Count, Fails
  <2> QED
    BY <2>1, <2>2
<1>6. view' = [view EXCEPT !.at = a, !.verdict = v, !.failed = f]
  BY <1>1, <1>2, <1>3, <1>4
<1>7. /\ view' \in View /\ view'.at = a /\ view'.bad = view.bad /\ view'.total = view.total /\ view'.failed = f
      /\ view'.from = view.from /\ view'.tunnel = view.tunnel /\ view'.cutoff = view.cutoff
      /\ view'.overtaken = view.overtaken /\ view'.verdict = v
  BY <1>0, <1>3, <1>4, <1>6 DEF View
<1>8. Recent' = Recent /\ With(502)' = With(502) /\ With(NoAnswer)' = With(NoAnswer) /\ Answered' = Answered
  BY <1>0, <1>7 DEF With, Recent, Answered
<1>9. CountsRight'
  BY <1>0, <1>3, <1>5, <1>7, <1>8 DEF CapturedInv, CountsRight, Counted, Totalled
<1>10. ASSUME v = "up", ~f, ~view.overtaken PROVE Answered # {}
  <2>1. view.total > 0 /\ view.bad = 0 /\ ~(n > 0 /\ n = view.total)
    BY <1>0, <1>4, <1>10 DEF View
  <2>2. view.total = Cardinality(Recent) /\ Cardinality(With(502)) = 0 /\ n = Cardinality(With(NoAnswer))
    BY <1>0, <1>5, <1>10, <2>1 DEF CapturedInv, CountsRight, Counted, Totalled
  <2>3. With(502) = {} /\ Recent = With(502) \cup With(NoAnswer) \cup Answered
    BY <1>0, <2>2, CountsOfRows, StatusOfRows
  <2>4. Answered = {} => Recent = With(NoAnswer)
    BY <2>3
  <2>5. Answered = {} => n = view.total
    BY <2>2, <2>4
  <2> QED
    BY <1>0, <2>1, <2>5 DEF View
<1>11. VerdictRight'
  <2>1. v = "down" => With(NoAnswer) # {}
    BY <1>4, <1>5
  <2>2. v = "unknown" => (\A k \in Recent : k > view.from) \/ f
    BY <1>0, <1>4, <1>5 DEF CapturedInv, CountsRight, Totalled
  <2> QED
    BY <1>7, <1>8, <1>10, <2>1, <2>2 DEF VerdictRight
<1> QED
  BY <1>0, <1>3, <1>7, <1>9, <1>11 DEF CapturedInv, CapturedTypes, PagesRight

\* The last query decides where some have.
LEMMA LatestKeeps ==
    ASSUME CapturedInv, ReadLatest
    PROVE  CapturedInv'
<1>0. captured' = captured /\ clock' = clock /\ CapturedTypes /\ view \in View /\ view.at = "latest"
  BY DEF ReadLatest, CapturedInv, CapturedTypes
<1> DEFINE Decided(v, f) ==
             /\ view' = [view EXCEPT !.at = "done", !.verdict = v, !.failed = f]
             /\ view.failed => f
             /\ v = "unknown" => f
             /\ v = "up" => Answered # {}
             /\ v = "down" => With(502) \cup With(NoAnswer) # {}
<1>1. PICK v \in {"unknown", "down", "up"}, f \in BOOLEAN : Decided(v, f)
  <2>2. ASSUME NEW k \in DOMAIN captured, IsLatest(k),
               view' = [view EXCEPT !.at = "done",
                                    !.verdict = IF captured[k].status # 200 \/ view.bad * 2 > view.total
                                                THEN "down" ELSE "up"]
        PROVE  \E v \in {"unknown", "down", "up"}, f \in BOOLEAN : Decided(v, f)
    <3>1. PICK v \in {"down", "up"} :
             v = IF captured[k].status # 200 \/ view.bad * 2 > view.total THEN "down" ELSE "up"
      OBVIOUS
    <3>2. view' = [view EXCEPT !.at = "done", !.verdict = v, !.failed = view.failed] /\ view.failed \in BOOLEAN
      BY <1>0, <2>2, <3>1 DEF View
    <3>3. k \in Recent
      BY <2>2 DEF IsLatest
    <3>4. v = "up" => k \in Answered
      BY <3>1, <3>3 DEF Answered, With
    <3>5. v = "down" => With(502) \cup With(NoAnswer) # {}
      <4>1. CASE captured[k].status # 200
        BY <1>0, <3>3, <4>1, StatusOfRows DEF Answered, With
      <4>2. CASE view.bad * 2 > view.total
        <5>1. view.bad > 0
          BY <1>0, <4>2 DEF View
        <5> QED
          BY <1>0, <5>1 DEF CapturedInv, CountsRight, Counted
      <4> QED
        BY <3>1, <4>1, <4>2
    <3>6. Decided(v, view.failed)
      BY <1>0, <3>1, <3>2, <3>4, <3>5
    <3> QED
      BY <3>2, <3>6
  <2>3. Decided("unknown", TRUE) \/ \E k \in DOMAIN captured :
          /\ IsLatest(k)
          /\ view' = [view EXCEPT !.at = "done",
                                  !.verdict = IF captured[k].status # 200 \/ view.bad * 2 > view.total
                                              THEN "down" ELSE "up"]
    BY DEF ReadLatest
  <2> HIDE DEF Decided
  <2> QED
    BY <2>2, <2>3
<1>2. /\ view' \in View /\ view'.at = "done" /\ view'.bad = view.bad /\ view'.total = view.total /\ view'.failed = f
      /\ view'.from = view.from /\ view'.tunnel = view.tunnel /\ view'.cutoff = view.cutoff
      /\ view'.overtaken = view.overtaken /\ view'.verdict = v
  BY <1>0, <1>1 DEF View
<1>3. Recent' = Recent /\ With(502)' = With(502) /\ With(NoAnswer)' = With(NoAnswer) /\ Answered' = Answered
  BY <1>0, <1>2 DEF With, Recent, Answered
<1>4. CountsRight'
  BY <1>0, <1>1, <1>2, <1>3 DEF CapturedInv, CountsRight, Counted, Totalled
<1>5. VerdictRight'
  BY <1>1, <1>2, <1>3 DEF VerdictRight
<1> QED
  BY <1>0, <1>2, <1>4, <1>5 DEF CapturedInv, CapturedTypes, PagesRight

\* The invariant is inductive.
LEMMA CapturedInductive == CapturedSpec => []CapturedInv
<1>1. CapturedInit => CapturedInv
  <2> SUFFICES ASSUME CapturedInit PROVE CapturedInv
    OBVIOUS
  <2>1. NoView \in View /\ NoView.at = "idle" /\ NoView.from = 0
    BY DEF NoView, View
  <2> QED
    BY <2>1 DEF CapturedInit, CapturedInv, CapturedTypes, CountsRight, VerdictRight, PagesRight, Counted, Totalled
<1>2. CapturedInv /\ [CapturedNext]_capturedVars => CapturedInv'
  <2> SUFFICES ASSUME CapturedInv, [CapturedNext]_capturedVars PROVE CapturedInv'
    OBVIOUS
  <2>1. CASE captured' = captured /\ view' = view /\ clock' \in Nat
    BY <2>1 DEF CapturedInv, CapturedTypes, CountsRight, VerdictRight, PagesRight, Recent, With, Answered, Newer
  <2>2. ClockTicks \/ UNCHANGED capturedVars => captured' = captured /\ view' = view /\ clock' \in Nat
    BY DEF ClockTicks, capturedVars, CapturedInv, CapturedTypes
  <2> QED
    BY <2>1, <2>2, StoreKeeps, BeginViewKeeps, ReadPageKeeps, CountKeeps, PendingKeeps, LatestKeeps DEF CapturedNext
<1> QED
  BY <1>1, <1>2, PTL DEF CapturedSpec

\* Whatever comes, goes and is stored while it answers, what the API tells of tunnels, of
\* their services and of recorded requests was so during the call: for any number of
\* tunnels and requests, and any size of pages.
THEOREM TrafficRight == TrafficSpec /\ CapturedSpec => []ViewsTrue
<1>1. ListingInv /\ CapturedInv => ViewsTrue
  BY ListingImplied, CapturedImplied DEF ViewsTrue
<1> QED
  BY <1>1, ListingInductive, CapturedInductive, PTL

(***************************************************************************)
(* The start of a relay.                                                   *)
(***************************************************************************)
\* The number of steps of a program.
LastStep(p) == IF p = "cli" THEN 12 ELSE IF p = "exit_node" THEN 9 ELSE 7

\* The rows of the admin account, and what a server may be.
AdminRows == {"user", "team", "member"}
Serves == {"off", "spawned", "listening", "failed"}

\* The state of a start has its types.
StartTypes ==
    /\ program \in Programs /\ step \in 0 .. LastStep(program)
    /\ place \in [Servers -> Nat] /\ serving \in [Servers -> Serves]
    /\ told \subseteq Servers
    /\ withAdmin \in BOOLEAN /\ cutOff \in BOOLEAN /\ signedUp \in BOOLEAN
    /\ inserting \in AdminRows \cup {"none"} /\ adminRows \subseteq AdminRows

\* The rows of the administrator: those that are there go with the one that is inserted
\* next, and a user without the others is one whose start was cut off or who signed up.
RowsInv ==
    /\ "member" \in adminRows => "team" \in adminRows
    /\ "team" \in adminRows => "user" \in adminRows
    /\ inserting = "team" => "user" \in adminRows
    /\ inserting = "member" => "team" \in adminRows
    /\ "user" \in adminRows /\ inserting \notin {"team", "member"} => cutOff \/ signedUp \/ adminRows = AdminRows
    /\ inserting # "none" => step = 2
    /\ withAdmin \/ inserting # "none" => program = "cli"
    /\ withAdmin /\ step > 2 => "user" \in adminRows

\* The servers: the command has one transport, it listens from the step after "control"
\* on, and what the API tells is where it is.
ServersInv ==
    /\ step = 0 => advertised = {} /\ \A s \in Servers : serving[s] = "off"
    /\ program = "library" => serving["api"] = "off"
    /\ program # "library" => \A t, u \in Controls : place[t] # 0 /\ place[u] # 0 => t = u
    /\ program = "exit_node" =>
          (\A e \in advertised : e = <<"quic", DefaultPort>>) /\ (step > 8 => serving["quic"] = "listening")
    /\ program = "cli" =>
          /\ \A e \in advertised : e[1] \in Controls /\ place[e[1]] = e[2] /\ e[2] # 0
          /\ advertised # {} => step > 10
          /\ step > 10 => \A t \in Controls : place[t] # 0 => serving[t] = "listening"
          /\ \A s \in {"http", "https", "tls"} : place[s] # 0 => serving[s] # "off"
    /\ \A s \in told : serving[s] # "off"

\* The inductive invariant.
StartInv == StartTypes /\ RowsInv /\ ServersInv

\* What belongs to the administrator, and what to the servers.
rowVars == <<withAdmin, inserting, adminRows, cutOff, signedUp>>
serverVars == <<place, serving, told, advertised>>

\* Where a program is in its steps.
LEMMA WhereItIs ==
    ASSUME StartTypes
    PROVE  /\ \A x, y : At(x) /\ At(y) => x = y
           /\ \A x : At(x) => step # 0
           /\ program = "cli" => (At("admin") <=> step = 2) /\ (At("control") <=> step = 10)
           /\ program = "cli" => (At("handler") => step = 9) /\ (At("api") => step = 11)
           /\ program = "exit_node" => (At("control") <=> step = 8)
           /\ At("wait") <=> step = LastStep(program)
           /\ At("admin") => program = "cli"
           /\ At("build") => program = "library"
<1>1. /\ Order("cli") = <<"database", "admin", "ports", "http", "https", "tls", "redirect", "passthrough",
                         "handler", "control", "api", "wait">>
      /\ Order("exit_node") = <<"database", "ports", "http", "https", "tls", "handler", "api", "control", "wait">>
      /\ Order("library") = <<"build", "https", "tls", "quic", "websocket", "h2", "wait">>
  BY DEF Order
<1>2. CASE program = "cli"
  <2>1. step \in {0, 1, 2, 3, 4, 5, 6, 7, 8, 9, 10, 11, 12}
    BY <1>2 DEF StartTypes, LastStep
  <2> QED
    BY <1>1, <1>2, <2>1 DEF At, LastStep
<1>3. CASE program = "exit_node"
  <2>1. step \in {0, 1, 2, 3, 4, 5, 6, 7, 8, 9}
    BY <1>3 DEF StartTypes, LastStep
  <2> QED
    BY <1>1, <1>3, <2>1 DEF At, LastStep
<1>4. CASE program = "library"
  <2>1. step \in {0, 1, 2, 3, 4, 5, 6, 7}
    BY <1>4 DEF StartTypes, LastStep
  <2> QED
    BY <1>1, <1>4, <2>1 DEF At, LastStep
<1> QED
  BY <1>2, <1>3, <1>4 DEF StartTypes, Programs

\* A step but the last is followed by one of the program.
LEMMA StartGoesOn ==
    ASSUME StartTypes, NEW x, At(x), x # "wait", GoOn
    PROVE  /\ step + 1 \in 0 .. LastStep(program) /\ step \in Nat \ {0} /\ step' = step + 1
           /\ x # "admin" /\ program = "cli" => step # 2
           /\ x # "control" /\ program = "cli" => step # 10
           /\ x # "control" /\ program = "exit_node" => step # 8
<1>1. step # LastStep(program) /\ step # 0
  BY WhereItIs
<1>2. LastStep(program) \in Nat
  BY DEF LastStep
<1> QED
  BY <1>1, <1>2, WhereItIs DEF StartTypes, GoOn

\* What a step that does not touch the administrator's rows leaves of them.
LEMMA RowsGoOn ==
    ASSUME StartTypes, RowsInv, NEW x, At(x), x \notin {"admin", "wait"}, GoOn,
           program' = program, UNCHANGED rowVars
    PROVE  RowsInv'
<1>1. step' = step + 1 /\ step \in Nat /\ (program = "cli" => step # 2)
  BY StartGoesOn
<1>2. UNCHANGED <<withAdmin, inserting, adminRows, cutOff, signedUp>>
  BY DEF rowVars
<1>3. inserting = "none"
  BY <1>1 DEF RowsInv
<1> QED
  BY <1>1, <1>2, <1>3 DEF RowsInv

\* What a step that does not touch the servers leaves of them.
LEMMA ServersGoOn ==
    ASSUME StartTypes, ServersInv, NEW x, At(x), x \notin {"control", "wait"},
           step' \in {step, step + 1}, program' = program, UNCHANGED serverVars
    PROVE  ServersInv'
<1>1. step \in Nat \ {0} /\ (program = "cli" => step # 10) /\ (program = "exit_node" => step # 8)
  BY WhereItIs DEF StartTypes
<1>2. UNCHANGED <<place, serving, told, advertised>>
  BY DEF serverVars
<1> QED
  BY <1>1, <1>2 DEF ServersInv

\* A step in which only the program's place changes.
LEMMA QuietStep ==
    ASSUME StartInv, NEW x, At(x), x \notin {"admin", "control", "wait"}, GoOn,
           program' = program, UNCHANGED <<rowVars, serverVars>>
    PROVE  StartInv'
<1>1. StartTypes'
  <2>1. step' \in 0 .. LastStep(program')
    BY StartGoesOn DEF StartInv
  <2> QED
    BY <2>1 DEF StartInv, StartTypes, rowVars, serverVars
<1>2. RowsInv'
  BY RowsGoOn DEF StartInv
<1>3. ServersInv'
  BY ServersGoOn, StartGoesOn DEF StartInv, GoOn
<1> QED
  BY <1>1, <1>2, <1>3 DEF StartInv

\* However a process ends, it leaves the rows it has inserted, and the mark of a break.
LEMMA EndsStep ==
    ASSUME StartInv, ProcessEnds
    PROVE  StartInv'
<1>1. /\ step' = 0 /\ program' = program /\ adminRows' = adminRows
      /\ inserting' = "none" /\ withAdmin' = FALSE /\ told' = {} /\ advertised' = {}
      /\ cutOff' = (cutOff \/ inserting \in {"team", "member"}) /\ signedUp' = signedUp
      /\ place' = [s \in Servers |-> 0] /\ serving' = [s \in Servers |-> "off"]
  BY DEF ProcessEnds
<1>2. StartTypes'
  <2>1. step' \in 0 .. LastStep(program')
    BY <1>1 DEF LastStep
  <2> QED
    BY <1>1, <2>1 DEF StartInv, StartTypes, Serves
<1>3. RowsInv'
  BY <1>1 DEF StartInv, StartTypes, RowsInv
<1>4. ServersInv'
  BY <1>1 DEF ServersInv, Servers, Controls
<1> QED
  BY <1>2, <1>3, <1>4 DEF StartInv

\* A server that is spawned on the way.
LEMMA SpawnStep ==
    ASSUME StartInv, NEW s \in Servers \ Controls, At(s), program # "library",
           NEW port \in Addresses, Spawn(s, port),
           s \in {"http", "https", "tls", "redirect", "passthrough", "api"},
           GoOn, program' = program, told' = told, UNCHANGED rowVars,
           \/ advertised' = advertised
           \/ s = "api" /\ program = "cli" /\ advertised' = DiscoveryResponse(place)
           \/ s = "api" /\ program = "exit_node" /\ advertised' = {<<"quic", DefaultPort>>}
    PROVE  StartInv'
<1>1. /\ At(s) /\ s \notin {"admin", "control", "wait"}
      /\ port \in Nat \ {0}
  BY DEF Addresses
<1>2. /\ step + 1 \in 0 .. LastStep(program) /\ step \in Nat \ {0} /\ step' = step + 1
      /\ program = "cli" => step # 10
      /\ program = "exit_node" => step # 8
      /\ s = "api" /\ program = "cli" => step = 11
  BY <1>1, StartGoesOn, WhereItIs DEF StartInv
<1>3. /\ place' = [place EXCEPT ![s] = port]
      /\ serving' = [serving EXCEPT ![s] = "spawned"]
  BY DEF Spawn
<1>4. StartTypes'
  BY <1>1, <1>2, <1>3 DEF StartInv, StartTypes, Serves, rowVars
<1>5. RowsInv'
  BY <1>1, RowsGoOn DEF StartInv
<1>6. \A u \in Controls : place'[u] = place[u] /\ serving'[u] = serving[u]
  BY <1>3 DEF StartInv, StartTypes, Servers
<1>7. \A u \in Servers : serving'[u] \in {serving[u], "spawned"} /\ (place'[u] = place[u] \/ serving'[u] = "spawned")
  BY <1>3 DEF StartInv, StartTypes
<1>8. CASE advertised' = advertised \/ (program = "exit_node" /\ advertised' = {<<"quic", DefaultPort>>})
  <2>1. program = "cli" =>
           /\ \A e \in advertised' : e[1] \in Controls /\ place'[e[1]] = e[2] /\ e[2] # 0
           /\ advertised' # {} => step' > 10
           /\ step' > 10 => \A t \in Controls : place'[t] # 0 => serving'[t] = "listening"
    BY <1>2, <1>6, <1>8 DEF StartInv, ServersInv
  <2>2. \A u \in {"http", "https", "tls"} : u \in Servers
    BY DEF Servers
  <2>3. program = "cli" => \A u \in {"http", "https", "tls"} : place'[u] # 0 => serving'[u] # "off"
    BY <1>7, <2>2 DEF StartInv, ServersInv
  <2>4. \A u \in told' : serving'[u] # "off"
    BY <1>7 DEF StartInv, ServersInv, StartTypes
  <2>5. \A t, u \in Controls : place'[t] # 0 /\ place'[u] # 0 => t = u
    BY <1>6 DEF StartInv, ServersInv
  <2>6. program = "exit_node" =>
           (\A e \in advertised' : e = <<"quic", DefaultPort>>) /\ (step' > 8 => serving'["quic"] = "listening")
    BY <1>2, <1>6, <1>8 DEF StartInv, ServersInv, Controls
  <2> QED
    BY <1>2, <1>4, <1>5, <2>1, <2>3, <2>4, <2>5, <2>6 DEF StartInv, ServersInv
<1>9. CASE s = "api" /\ program = "cli" /\ advertised' = DiscoveryResponse(place)
  <2>1. \A e \in advertised' : e[1] \in Controls /\ place'[e[1]] = e[2] /\ e[2] # 0
    BY <1>6, <1>9 DEF DiscoveryResponse
  <2>2. step = 11 /\ step' = 12
    BY <1>2, <1>9
  <2>3. \A t \in Controls : place'[t] # 0 => serving'[t] = "listening"
    BY <1>6, <1>9, <2>2 DEF StartInv, ServersInv
  <2>4. \A u \in {"http", "https", "tls"} : u \in Servers
    BY DEF Servers
  <2>5. \A u \in {"http", "https", "tls"} : place'[u] # 0 => serving'[u] # "off"
    BY <1>7, <1>9, <2>4 DEF StartInv, ServersInv
  <2>6. \A u \in told' : serving'[u] # "off"
    BY <1>7 DEF StartInv, ServersInv, StartTypes
  <2>7. \A t, u \in Controls : place'[t] # 0 /\ place'[u] # 0 => t = u
    BY <1>6 DEF StartInv, ServersInv
  <2> QED
    BY <1>2, <1>4, <1>5, <1>9, <2>1, <2>2, <2>3, <2>5, <2>6, <2>7 DEF StartInv, ServersInv
<1> QED
  BY <1>8, <1>9

\* A listener of the control plane is bound on the way.
LEMMA BindStep ==
    ASSUME StartInv, At("control"), program # "library", NEW t \in Controls, place[t] # 0 \/ program = "exit_node",
           program = "exit_node" => t = "quic", serving' = [serving EXCEPT ![t] = "listening"], GoOn,
           UNCHANGED <<program, place, told, advertised, rowVars>>
    PROVE  StartInv'
<1>1. /\ step + 1 \in 0 .. LastStep(program) /\ step \in Nat \ {0} /\ step' = step + 1
      /\ program = "cli" => step = 10
      /\ program = "exit_node" => step = 8
  BY StartGoesOn, WhereItIs DEF StartInv
<1>2. t \in Servers
  BY DEF Servers
<1>3. StartTypes'
  BY <1>1, <1>2 DEF StartInv, StartTypes, Serves, rowVars
<1>4. RowsInv'
  BY RowsGoOn DEF StartInv
<1>5. \A u \in Servers : serving'[u] = IF u = t THEN "listening" ELSE serving[u]
  BY DEF StartInv, StartTypes
<1>6. ServersInv'
  <2>1. \A u \in Controls : u \in Servers
    BY DEF Servers
  <2>2. program = "cli" => \A u \in Controls : place'[u] # 0 => serving'[u] = "listening"
    BY <1>5, <2>1 DEF StartInv, ServersInv
  <2>3. \A u \in told' : serving'[u] # "off"
    BY <1>5 DEF StartInv, ServersInv, StartTypes
  <2>4. program = "cli" => \A u \in {"http", "https", "tls"} : place'[u] # 0 => serving'[u] # "off"
    BY <1>5 DEF StartInv, ServersInv, Servers
  <2>5. program = "exit_node" => serving'["quic"] = "listening"
    BY <1>5, <2>1
  <2> QED
    BY <1>1, <2>2, <2>3, <2>4, <2>5 DEF StartInv, ServersInv
<1> QED
  BY <1>3, <1>4, <1>6 DEF StartInv

\* Every step of a start, an end or a crash keeps the invariant.
LEMMA StartStep ==
    ASSUME StartInv, [StartNext]_startVars
    PROVE  StartInv'
<1> USE DEF rowVars, serverVars
<1>1. CASE UNCHANGED startVars
  BY <1>1 DEF startVars, StartInv, StartTypes, RowsInv, ServersInv
<1>2. ASSUME NEW p \in Programs, NEW control \in Controls, NEW port \in Addresses, StartRelay(p, control, port)
      PROVE  StartInv'
  <2>1. /\ step = 0 /\ program' = p /\ step' = 1
        /\ place' = [s \in Servers |-> IF p # "library" /\ s = control THEN port ELSE 0]
        /\ withAdmin' \in BOOLEAN /\ (p # "cli" => withAdmin' = FALSE)
        /\ UNCHANGED <<serving, told, advertised, inserting, adminRows, cutOff, signedUp>>
    BY <1>2 DEF StartRelay
  <2>2. 1 \in 0 .. LastStep(p) /\ port \in Nat
    BY DEF LastStep, Addresses
  <2>3. StartTypes'
    BY <2>1, <2>2 DEF StartInv, StartTypes
  <2>4. inserting = "none"
    BY <2>1 DEF StartInv, RowsInv
  <2>5. RowsInv'
    BY <2>1, <2>4 DEF StartInv, RowsInv
  <2>6. /\ \A t \in Controls : t \in Servers /\ (place'[t] # 0 => t = control)
        /\ \A s \in {"http", "https", "tls"} : place'[s] = 0
    BY <2>1 DEF Servers, Controls
  <2>7. "api" \in Servers
    BY DEF Servers
  <2>8. ServersInv'
    BY <2>1, <2>6, <2>7 DEF StartInv, ServersInv
  <2> QED
    BY <2>3, <2>5, <2>8 DEF StartInv
<1>3. CASE OpenDatabase
  BY <1>3, EndsStep, QuietStep DEF OpenDatabase
<1>4. CASE LookUpAdmin
  <2>1. /\ At("admin") /\ inserting = "none" /\ UNCHANGED <<program, place, serving, told, advertised, withAdmin, adminRows, cutOff, signedUp>>
        /\ \/ withAdmin /\ "user" \notin adminRows /\ inserting' = "user" /\ step' = step
           \/ ~(withAdmin /\ "user" \notin adminRows) /\ step' = step + 1 /\ inserting' = inserting
    BY <1>4 DEF LookUpAdmin, GoOn
  <2>2. program = "cli" /\ step = 2
    BY <2>1, WhereItIs DEF StartInv
  <2>3. step' \in 0 .. LastStep(program)
    BY <2>1, <2>2 DEF LastStep
  <2>4. StartTypes'
    BY <2>1, <2>3 DEF StartInv, StartTypes, AdminRows
  <2>5. RowsInv'
    BY <2>1, <2>2 DEF StartInv, RowsInv
  <2>6. ServersInv'
    BY <2>1, ServersGoOn DEF StartInv
  <2> QED
    BY <2>4, <2>5, <2>6 DEF StartInv
<1>5. CASE InsertAdminRow
  <2>1. /\ At("admin") /\ inserting # "none" /\ adminRows' = adminRows \cup {inserting}
        /\ UNCHANGED <<program, place, serving, told, advertised, withAdmin, cutOff, signedUp>>
    BY <1>5 DEF InsertAdminRow
  <2>2. \/ inserting = "user" /\ inserting' = "team" /\ step' = step
        \/ inserting = "team" /\ inserting' = "member" /\ step' = step
        \/ inserting = "member" /\ inserting' = "none" /\ step' = step + 1
    BY <1>5, <2>1 DEF InsertAdminRow, StartInv, StartTypes, AdminRows, GoOn
  <2>3. program = "cli" /\ step = 2
    BY <2>1, WhereItIs DEF StartInv
  <2>4. step' \in 0 .. LastStep(program)
    BY <2>2, <2>3 DEF LastStep
  <2>5. StartTypes'
    BY <2>1, <2>2, <2>4 DEF StartInv, StartTypes, AdminRows
  <2>6. adminRows \subseteq {"user", "team", "member"}
    BY DEF StartInv, StartTypes, AdminRows
  <2>7. RowsInv'
    <3>1. CASE inserting = "user"
      BY <2>1, <2>2, <2>3, <3>1 DEF StartInv, RowsInv
    <3>2. CASE inserting = "team"
      BY <2>1, <2>2, <2>3, <3>2 DEF StartInv, RowsInv
    <3>3. CASE inserting = "member"
      <4>1. "user" \in adminRows /\ "team" \in adminRows
        BY <3>3 DEF StartInv, RowsInv
      <4>2. adminRows' = AdminRows
        BY <2>1, <2>6, <3>3, <4>1 DEF AdminRows
      <4>3. inserting' = "none" /\ step' = 3
        BY <2>2, <2>3, <3>3
      <4> QED
        BY <2>1, <2>3, <4>2, <4>3 DEF StartInv, RowsInv, AdminRows
    <3> QED
      BY <2>2, <3>1, <3>2, <3>3
  <2>8. ServersInv'
    BY <2>1, <2>2, ServersGoOn DEF StartInv
  <2> QED
    BY <2>5, <2>7, <2>8 DEF StartInv
<1>6. ASSUME InsertionFails \/ StopRelay \/ Crash
      PROVE  StartInv'
  BY <1>6, EndsStep DEF InsertionFails, StopRelay, Crash
<1>7. CASE MakeAllocator
  BY <1>7, EndsStep, QuietStep DEF MakeAllocator
<1>8. CASE BuildRelay
  <2>1. CASE ProcessEnds
    BY <2>1, EndsStep
  <2>2. CASE ~ProcessEnds
    <3>1. PICK server \in {"https", "tls", "none"}, ports \in [Controls -> Addresses \cup {0}], port \in Addresses :
             place' = [s \in Servers |-> IF s = server THEN port ELSE IF s \in Controls THEN ports[s] ELSE 0]
      BY <1>8, <2>2 DEF BuildRelay
    <3>2. /\ At("build") /\ GoOn
          /\ UNCHANGED <<program, serving, told, withAdmin, inserting, adminRows, cutOff, signedUp>>
      BY <1>8, <2>2 DEF BuildRelay
    <3>3. program = "library"
      BY <3>2, WhereItIs DEF StartInv
    <3>4. step + 1 \in 0 .. LastStep(program) /\ step' = step + 1 /\ step \in Nat \ {0}
      BY <3>2, StartGoesOn DEF StartInv
    <3>5. place' \in [Servers -> Nat]
      BY <3>1 DEF Addresses
    <3>6. StartTypes'
      BY <3>2, <3>4, <3>5 DEF StartInv, StartTypes
    <3>7. RowsInv'
      BY <3>2, RowsGoOn DEF StartInv
    <3>8. ServersInv'
      BY <3>2, <3>3, <3>4 DEF StartInv, ServersInv
    <3> QED
      BY <3>6, <3>7, <3>8 DEF StartInv
  <2> QED
    BY <2>1, <2>2
<1>9. ASSUME NEW s \in {"http", "https", "tls", "redirect", "passthrough"}, StartServer(s)
      PROVE  StartInv'
  <2>1. s \in Servers \ Controls /\ s \notin {"admin", "control", "wait"}
    BY DEF Servers, Controls
  <2>2. CASE ProcessEnds
    BY <2>2, EndsStep
  <2>3. CASE GoOn /\ UNCHANGED <<program, place, serving, told, advertised, withAdmin, inserting, adminRows, cutOff, signedUp>>
    BY <1>9, <2>1, <2>3, QuietStep DEF StartServer
  <2>4. ASSUME NEW port \in Addresses, Spawn(s, port), GoOn,
               UNCHANGED <<program, told, advertised, withAdmin, inserting, adminRows, cutOff, signedUp>>
        PROVE  StartInv'
    <3>1. At(s) /\ program # "library"
      BY <1>9 DEF StartServer
    <3> QED
      BY <2>1, <2>4, <3>1, SpawnStep
  <2> QED
    BY <1>9, <2>2, <2>3, <2>4 DEF StartServer
<1>10. ASSUME NEW s \in {"https", "tls", "quic", "websocket", "h2"}, SpawnConfigured(s)
       PROVE  StartInv'
  <2>1. /\ At(s) /\ program = "library" /\ GoOn
        /\ serving' = [serving EXCEPT ![s] = IF place[s] # 0 THEN "spawned" ELSE @]
        /\ UNCHANGED <<program, place, told, advertised, withAdmin, inserting, adminRows, cutOff, signedUp>>
    BY <1>10 DEF SpawnConfigured
  <2>2. s \in Servers /\ s # "api" /\ s \notin {"admin", "wait"} /\ "api" \in Servers
    BY DEF Servers, Controls
  <2>3. step + 1 \in 0 .. LastStep(program) /\ step' = step + 1 /\ step \in Nat \ {0}
    BY <2>1, <2>2, StartGoesOn DEF StartInv
  <2>4. /\ serving' \in [Servers -> Serves]
        /\ \A u \in Servers : serving'[u] \in {serving[u], "spawned"}
        /\ serving'["api"] = serving["api"]
    BY <2>1, <2>2 DEF StartInv, StartTypes, Serves
  <2>5. StartTypes'
    BY <2>1, <2>3, <2>4 DEF StartInv, StartTypes
  <2>6. RowsInv'
    BY <2>1, <2>2, RowsGoOn DEF StartInv
  <2>7. ServersInv'
    BY <2>1, <2>3, <2>4 DEF StartInv, StartTypes, ServersInv
  <2> QED
    BY <2>5, <2>6, <2>7 DEF StartInv
<1>11. CASE MakeHandler
  <2>1. /\ At("handler") /\ program = "cli" /\ GoOn
        /\ told' = {s \in {"http", "https", "tls"} : place[s] # 0}
        /\ UNCHANGED <<program, place, serving, advertised, withAdmin, inserting, adminRows, cutOff, signedUp>>
    BY <1>11 DEF MakeHandler
  <2>2. step + 1 \in 0 .. LastStep(program) /\ step' = step + 1 /\ step \in Nat \ {0} /\ step # 10
    BY <2>1, StartGoesOn DEF StartInv
  <2>3. told' \subseteq Servers
    BY <2>1 DEF Servers
  <2>4. StartTypes'
    BY <2>1, <2>2, <2>3 DEF StartInv, StartTypes
  <2>5. RowsInv'
    BY <2>1, RowsGoOn DEF StartInv
  <2>6. ServersInv'
    BY <2>1, <2>2 DEF StartInv, ServersInv
  <2> QED
    BY <2>4, <2>5, <2>6 DEF StartInv
<1>12. CASE MakeExitHandler
  BY <1>12, QuietStep DEF MakeExitHandler
<1>13. CASE BindControl
  <2>1. CASE ProcessEnds
    BY <2>1, EndsStep
  <2>2. CASE ~ProcessEnds
    BY <1>13, <2>2, BindStep DEF BindControl
  <2> QED
    BY <2>1, <2>2
<1>14. CASE BindQuic
  <2>1. "quic" \in Controls
    BY DEF Controls
  <2>2. CASE ProcessEnds
    BY <2>2, EndsStep
  <2>3. CASE ~ProcessEnds
    BY <1>14, <2>1, <2>3, BindStep DEF BindQuic
  <2> QED
    BY <2>2, <2>3
<1>15. CASE StartApi
  <2>1. At("api") /\ program = "cli" /\ "api" \in Servers \ Controls
    BY <1>15 DEF StartApi, Servers, Controls
  <2>2. CASE ProcessEnds
    BY <2>2, EndsStep
  <2>3. CASE GoOn /\ UNCHANGED <<program, place, serving, told, advertised, withAdmin, inserting, adminRows, cutOff, signedUp>>
    BY <2>1, <2>3, QuietStep
  <2>4. ASSUME NEW port \in Addresses, Spawn("api", port), GoOn, advertised' = DiscoveryResponse(place),
               UNCHANGED <<program, told, withAdmin, inserting, adminRows, cutOff, signedUp>>
        PROVE  StartInv'
    BY <2>1, <2>4, SpawnStep
  <2> QED
    BY <1>15, <2>2, <2>3, <2>4 DEF StartApi
<1>16. CASE StartExitApi
  <2>1. At("api") /\ program = "exit_node" /\ "api" \in Servers \ Controls
    BY <1>16 DEF StartExitApi, Servers, Controls
  <2>2. CASE ProcessEnds
    BY <2>2, EndsStep
  <2>3. CASE GoOn /\ UNCHANGED <<program, place, serving, told, advertised, withAdmin, inserting, adminRows, cutOff, signedUp>>
    BY <2>1, <2>3, QuietStep
  <2>4. ASSUME NEW port \in Addresses, Spawn("api", port), GoOn,
               advertised' = {<<"quic", DefaultPort>>},
               UNCHANGED <<program, told, withAdmin, inserting, adminRows, cutOff, signedUp>>
        PROVE  StartInv'
    BY <2>1, <2>4, SpawnStep
  <2> QED
    BY <1>16, <2>2, <2>3, <2>4 DEF StartExitApi
<1>17. ASSUME NEW s \in Servers, ServerBinds(s)
       PROVE  StartInv'
  <2>1. /\ serving[s] = "spawned"
        /\ serving' = [serving EXCEPT ![s] = "listening"] \/ serving' = [serving EXCEPT ![s] = "failed"]
        /\ UNCHANGED <<program, step, place, told, advertised, withAdmin, inserting, adminRows, cutOff, signedUp>>
    BY <1>17 DEF ServerBinds
  <2>2. /\ serving' \in [Servers -> Serves]
        /\ \A u \in Servers : serving[u] # "spawned" => serving'[u] = serving[u]
        /\ \A u \in Servers : serving[u] # "off" => serving'[u] # "off"
    BY <2>1 DEF StartInv, StartTypes, Serves
  <2>3. StartTypes'
    BY <2>1, <2>2 DEF StartInv, StartTypes
  <2>4. RowsInv'
    BY <2>1 DEF StartInv, RowsInv
  <2>5. \A u \in Controls \cup {"http", "https", "tls", "api"} : u \in Servers
    BY DEF Servers
  <2>6. ServersInv'
    <3>1. step' # 0
      BY <2>1 DEF StartInv, ServersInv
    <3>2. program = "library" => serving'["api"] = "off"
      BY <2>2, <2>5 DEF StartInv, ServersInv
    <3>3. program = "cli" /\ step > 10 => \A t \in Controls : place[t] # 0 => serving'[t] = "listening"
      BY <2>2, <2>5 DEF StartInv, ServersInv
    <3>4. program = "cli" => \A u \in {"http", "https", "tls"} : place[u] # 0 => serving'[u] # "off"
      BY <2>2, <2>5 DEF StartInv, ServersInv
    <3>5. \A u \in told : serving'[u] # "off"
      BY <2>2 DEF StartInv, StartTypes, ServersInv
    <3>6. program = "exit_node" /\ step > 8 => serving'["quic"] = "listening"
      BY <2>2, <2>5 DEF StartInv, ServersInv, Controls
    <3> QED
      BY <2>1, <3>1, <3>2, <3>3, <3>4, <3>5, <3>6 DEF StartInv, ServersInv
  <2> QED
    BY <2>3, <2>4, <2>6 DEF StartInv
<1>18. StartHttp \/ StartHttps \/ StartTls \/ StartRedirect \/ StartPassthrough => StartInv'
  BY <1>9 DEF StartHttp, StartHttps, StartTls, StartRedirect, StartPassthrough
<1>19. SpawnServers \/ SpawnQuic \/ SpawnWebSocket \/ SpawnH2 => StartInv'
  BY <1>10 DEF SpawnServers, SpawnQuic, SpawnWebSocket, SpawnH2
<1>20. ApiBinds => StartInv'
  BY <1>17 DEF ApiBinds, Servers
<1>21. CASE RegisterEmail
  <2>1. /\ adminRows' = adminRows \cup {"user"} /\ signedUp' = TRUE
        /\ UNCHANGED <<program, step, place, serving, told, advertised, withAdmin, inserting, cutOff>>
    BY <1>21 DEF RegisterEmail
  <2>2. StartTypes'
    BY <2>1 DEF StartInv, StartTypes, AdminRows
  <2>3. RowsInv'
    BY <2>1 DEF StartInv, RowsInv
  <2>4. ServersInv'
    BY <2>1 DEF StartInv, ServersInv
  <2> QED
    BY <2>2, <2>3, <2>4 DEF StartInv
<1> QED
  BY <1>1, <1>2, <1>3, <1>4, <1>5, <1>6, <1>7, <1>8, <1>11, <1>12, <1>13, <1>14, <1>15, <1>16, <1>17,
     <1>18, <1>19, <1>20, <1>21 DEF StartNext

\* Whatever fails or breaks off, in each of the three programs, and in whichever order the
\* spawned servers bind: the API of the command names a control plane that listens where it
\* says, and that of the exit node does so once it is up, if it has the default port; no
\* tunnel is told the port of a server that was never started; and the administrator has a
\* team unless an earlier start was cut off between the insertions or the e-mail had been
\* registered before.
THEOREM StartRight == StartSpec => []StartedWhole
<1>1. StartInit => StartInv
  <2>1. ASSUME StartInit
        PROVE  StartInv
    <3>1. step \in 0 .. LastStep(program)
      BY <2>1 DEF StartInit, LastStep
    <3>2. StartTypes
      BY <2>1, <3>1 DEF StartInit, StartTypes, Serves
    <3>3. RowsInv
      BY <2>1 DEF StartInit, RowsInv
    <3>4. ServersInv
      BY <2>1 DEF StartInit, ServersInv, Servers, Controls
    <3> QED
      BY <3>2, <3>3, <3>4 DEF StartInv
  <2> QED
    BY <2>1
<1>2. StartInv => StartedWhole
  <2>1. SUFFICES ASSUME StartInv
                 PROVE  AdvertisedIsServed /\ AdminComplete
    BY DEF StartedWhole
  <2>2. AdvertisedIsServed
    <3>1. CASE program = "exit_node"
      <4>1. At("wait") => step > 8
        BY <2>1, <3>1, WhereItIs DEF StartInv, LastStep
      <4>2. \A e \in advertised : e[1] = "quic" /\ e[2] = DefaultPort
        BY <2>1, <3>1 DEF StartInv, ServersInv
      <4> QED
        BY <2>1, <3>1, <4>1, <4>2 DEF StartInv, ServersInv, AdvertisedIsServed
    <3>2. CASE program # "exit_node"
      BY <2>1, <3>2 DEF StartInv, StartTypes, Programs, ServersInv, AdvertisedIsServed
    <3> QED
      BY <3>1, <3>2
  <2>3. ASSUME At("wait"), withAdmin
        PROVE  "user" \in adminRows /\ (cutOff \/ signedUp \/ adminRows = {"user", "team", "member"})
    <3>1. program = "cli" /\ step = 12
      BY <2>1, <2>3, WhereItIs DEF StartInv, RowsInv, LastStep
    <3> QED
      BY <2>1, <2>3, <3>1 DEF StartInv, RowsInv, AdminRows
  <2>4. AdminComplete
    BY <2>1, <2>3 DEF StartInv, RowsInv, AdminComplete
  <2> QED
    BY <2>2, <2>4
<1> QED
  BY <1>1, <1>2, StartStep, PTL DEF StartSpec
=============================================================================
