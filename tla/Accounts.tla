------------------------------ MODULE Accounts ------------------------------
(***************************************************************************)
(* Accounts and sessions (handlers/auth.go, middleware/auth.go,             *)
(* pkg/mongo/auth.go).  A login comes back from Google with a person and an *)
(* address.  It looks for the account by the Google id, then by the         *)
(* address, then makes one; it opens a session and redirects with a code,   *)
(* which the browser exchanges for the token of the session.  Every step is *)
(* one call of the store, which may fail, and logins run beside each other.  *)
(***************************************************************************)
EXTENDS Integers, FiniteSets

CONSTANTS
  Persons,      (* the people at Google                                          *)
  EmailOf,      (* per person, the address, in lower case                        *)
  Invited,      (* EmailAllowlist; the empty set invites everybody               *)
  Older,        (* addresses of accounts made before Google ids were kept        *)
  Logins,       (* the logins, which are also the sessions they open             *)
  CodeLife,     (* how long a code may be exchanged: 120 seconds                 *)
  CodeGrace,    (* and after its first exchange: 60 seconds                      *)
  SessionLife,  (* how long a session is valid: 30 days                          *)
  MaxNow,       (* bound on the clock                                            *)
  MaxStoreFaults (* bound on the store calls that fail                           *)

ASSUME AccountsAssumption == CodeLife \in Nat /\ CodeGrace \in Nat /\ SessionLife \in Nat
ASSUME AccountsBounds == MaxNow \in Nat /\ MaxStoreFaults \in Nat
(* An account without a Google id is told from the others (auth.go:30-36). *)
ASSUME PersonsAssumption == "none" \notin Persons

VARIABLES
  users,     (* the collection users: address and Google id                      *)
  login,     (* per login, where it is                                           *)
  session,   (* per login, its row in user_sessions, or NoSession                *)
  code,      (* per login, its row in auth_exchange_codes, or NoCode             *)
  exchange,  (* the exchange of a code between its calls, or NoExchange          *)
  token,     (* per login, what the browser has: "none", "held", "left" after a   *)
             (* logout, or "dropped" after an answer 401                        *)
  now,
  storeFaults

accVars == <<users, login, session, code, exchange, token, now, storeFaults>>

NoGoogle == "none"
NoSession == [user |-> "none", until |-> 0]
NoCode == [until |-> 0, used |-> -1]
NoExchange == [at |-> "none"]
Away == [at |-> "away"]

AccFails == storeFaults < MaxStoreFaults /\ storeFaults' = storeFaults + 1
AccSucceeds == UNCHANGED storeFaults

AccInit ==
  /\ users \in SUBSET {[email |-> e, google |-> NoGoogle] : e \in Older}
  /\ login = [l \in Logins |-> Away]
  /\ session = [l \in Logins |-> NoSession]
  /\ code = [l \in Logins |-> NoCode]
  /\ exchange = NoExchange
  /\ token = [l \in Logins |-> "none"]
  /\ now = 0
  /\ storeFaults = 0

-----------------------------------------------------------------------------
(* GoogleCallback.                                                         *)

IsEmailAllowed(e) == Invited = {} \/ e \in Invited

Moves(l, next) == login' = [login EXCEPT ![l] = next]
At(l, where) == login[l].at = where

(* `raced` remembers that another login made an account for the same person or *)
(* address while this one was between its calls.                               *)
GoogleCallback(l, p) ==
  /\ At(l, "away")
  /\ IF IsEmailAllowed(EmailOf[p])
     THEN Moves(l, [at |-> "byGoogle", person |-> p, user |-> "none", raced |-> FALSE])
     ELSE Moves(l, [at |-> "refused", person |-> p, user |-> "none", why |-> "email_not_allowed"])
  /\ UNCHANGED <<users, session, code, exchange, token, now, storeFaults>>

Refuse(l, why) == Moves(l, [at |-> "refused", person |-> login[l].person, user |-> "none", why |-> why])

(* A store call that fails ends the login. *)
LoginFails(l) ==
  /\ login[l].at \in {"byGoogle", "byEmail", "create", "open", "code"}
  /\ AccFails
  /\ Refuse(l, "store")
  /\ UNCHANGED <<users, session, code, exchange, token, now>>

(* findOrCreateGoogleUser.  (CreatesAtOnce: a bug that does not look for the    *)
(* address.)                                                                    *)
CreatesAtOnce == "create"
LooksForEmail == "byEmail"

FindByGoogle(l) ==
  /\ At(l, "byGoogle")
  /\ LET found == {u \in users : u.google = login[l].person} IN
     IF found = {} THEN Moves(l, [login[l] EXCEPT !.at = LooksForEmail])
     ELSE \E u \in found : Moves(l, [login[l] EXCEPT !.at = "open", !.user = u.email])
  /\ UNCHANGED <<users, session, code, exchange, token, now, storeFaults>>

FindByEmail(l) ==
  /\ At(l, "byEmail")
  /\ LET e == EmailOf[login[l].person] IN
     IF \E u \in users : u.email = e
     THEN Moves(l, [login[l] EXCEPT !.at = "open", !.user = e])
     ELSE Moves(l, [login[l] EXCEPT !.at = "create"])
  /\ UNCHANGED <<users, session, code, exchange, token, now, storeFaults>>

(* CreateUser: the unique indexes over the address and the Google id let one in. *)
SameAccount(u, v) == u.email = v.email \/ (u.google = v.google /\ u.google # NoGoogle)

CreateUser(l) ==
  /\ At(l, "create")
  /\ LET p == login[l].person
         u == [email |-> EmailOf[p], google |-> p]
         Races(m) == m # l /\ login[m].at \in {"byGoogle", "byEmail", "create"}
                     /\ EmailOf[login[m].person] = u.email
     IN  IF \E v \in users : SameAccount(u, v)
         THEN Refuse(l, IF login[l].raced THEN "raced" ELSE "db_error") /\ UNCHANGED users
         ELSE /\ users' = users \cup {u}
              /\ login' = [m \in Logins |->
                   IF m = l THEN [login[l] EXCEPT !.at = "open", !.user = u.email]
                   ELSE IF Races(m) THEN [login[m] EXCEPT !.raced = TRUE] ELSE login[m]]
  /\ UNCHANGED <<session, code, exchange, token, now, storeFaults>>

(* The Google tokens and the time of the login are stored, errors ignored; then *)
(* CreateSession and CreateExchangeCode.                                        *)
CreateSession(l) ==
  /\ At(l, "open")
  /\ session' = [session EXCEPT ![l] = [user |-> login[l].user, until |-> now + SessionLife]]
  /\ Moves(l, [login[l] EXCEPT !.at = "code"])
  /\ UNCHANGED <<users, code, exchange, token, now, storeFaults>>

CreateExchangeCode(l) ==
  /\ At(l, "code")
  /\ code' = [code EXCEPT ![l] = [until |-> now + CodeLife, used |-> -1]]
  /\ Moves(l, [login[l] EXCEPT !.at = "done"])
  /\ UNCHANGED <<users, session, exchange, token, now, storeFaults>>

-----------------------------------------------------------------------------
(* ExchangeAuthCode.                                                       *)

(* ConsumeExchangeCode: the row is read, and marked as used unless it was.      *)
Exchangeable(l) ==
  /\ code[l] # NoCode /\ now < code[l].until
  /\ code[l].used = -1 \/ now - code[l].used <= CodeGrace

ReadCode(l) ==
  /\ exchange = NoExchange
  /\ Exchangeable(l)
  /\ exchange' = [at |-> IF code[l].used = -1 THEN "mark" ELSE "session", login |-> l]
  /\ UNCHANGED <<users, login, session, code, token, now, storeFaults>>

MarkUsed ==
  /\ exchange.at = "mark"
  /\ LET l == exchange.login IN
     \/ /\ AccSucceeds
        /\ code' = IF code[l].used = -1 THEN [code EXCEPT ![l].used = now] ELSE code
        /\ exchange' = [exchange EXCEPT !.at = "session"]
     \/ AccFails /\ exchange' = NoExchange /\ UNCHANGED code
  /\ UNCHANGED <<users, login, session, token, now>>

Valid(l) == session[l] # NoSession /\ now < session[l].until

(* ValidateSession; a store that does not answer makes the browser try again.   *)
HandOver ==
  /\ exchange.at = "session"
  /\ LET l == exchange.login IN
     \/ AccSucceeds /\ token' = IF Valid(l) THEN [token EXCEPT ![l] = "held"] ELSE token
     \/ AccFails /\ UNCHANGED token
  /\ exchange' = NoExchange
  /\ UNCHANGED <<users, login, session, code, now>>

-----------------------------------------------------------------------------
(* Logout: DeleteSession, whose error is ignored; the browser drops its token.   *)
Logout(l) ==
  /\ token[l] = "held"
  /\ token' = [token EXCEPT ![l] = "left"]
  /\ \/ AccSucceeds /\ session' = [session EXCEPT ![l] = NoSession]
     \/ AccFails /\ UNCHANGED session
  /\ UNCHANGED <<users, login, code, exchange, now>>

(* ValidateSession of a request.  The handler tells a store that does not answer  *)
(* (503) from a session that is not valid (401), at which the browser drops its   *)
(* token.                                                                         *)
Status(valid, answers) == IF ~answers THEN 503 ELSE IF valid THEN 200 ELSE 401

Refresh(l) ==
  /\ token[l] = "held"
  /\ \E answers \in BOOLEAN :
       /\ IF answers THEN AccSucceeds ELSE AccFails
       /\ token' = IF Status(Valid(l), answers) = 401 THEN [token EXCEPT ![l] = "dropped"] ELSE token
  /\ UNCHANGED <<users, login, session, code, exchange, now>>

AccTick ==
  /\ now < MaxNow /\ now' = now + 1
  /\ UNCHANGED <<users, login, session, code, exchange, token, storeFaults>>

(* A browser asks nothing, or something that changes nothing. *)
AccRests == UNCHANGED accVars

AccNext ==
  \/ \E l \in Logins :
       \/ \E p \in Persons : GoogleCallback(l, p)
       \/ FindByGoogle(l) \/ FindByEmail(l) \/ CreateUser(l) \/ CreateSession(l)
       \/ CreateExchangeCode(l) \/ LoginFails(l)
       \/ ReadCode(l) \/ Logout(l) \/ Refresh(l)
  \/ MarkUsed \/ HandOver \/ AccTick \/ AccRests

AccSpec == AccInit /\ [][AccNext]_accVars

-----------------------------------------------------------------------------
Emails == {EmailOf[p] : p \in Persons} \cup Older

(* Every variable has its type, and no two accounts share an address or a Google *)
(* id.                                                                           *)
AccTypeOK ==
  /\ users \subseteq [email : Emails, google : Persons \cup {NoGoogle}]
  /\ \A u, v \in users : SameAccount(u, v) => u = v
  /\ \A l \in Logins : session[l] = NoSession \/ session[l].user \in Emails
  /\ token \in [Logins -> {"none", "held", "left", "dropped"}]
  /\ now \in 0 .. MaxNow /\ storeFaults \in 0 .. MaxStoreFaults

(* A person has one account: all the logins of a person open sessions of the     *)
(* same user, first logins at the same time and accounts older than Google ids   *)
(* included; and a login is refused for an account that exists already only when *)
(* another login made it meanwhile, so that trying again succeeds.               *)
OneAccount ==
  /\ \A l, m \in Logins :
       /\ session[l] # NoSession /\ session[m] # NoSession
       /\ login[l].person = login[m].person
       => session[l].user = session[m].user
  /\ \A l \in Logins : At(l, "refused") => login[l].why # "db_error"
=============================================================================
