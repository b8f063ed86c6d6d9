------------------------------ MODULE Accounts ------------------------------
(***************************************************************************)
(* Registration, login and the tokens that open a WebSocket: the handlers  *)
(* of server/src/auth.rs, the first lines of ws_handler, and the client's  *)
(* form, which registers and then logs in with two HTTP requests.          *)
(*                                                                         *)
(* A password stands for its Argon2 hash: verification succeeds for the    *)
(* same password only.  A token is a number never given twice, as a random *)
(* UUID is.  The form never submits an empty name or password, so the      *)
(* server's answer to one (400) is left out.  One session per user is the  *)
(* registry's business: module Messaging.                                  *)
(***************************************************************************)
EXTENDS Integers, Sequences, FiniteSets

CONSTANTS
    Clients, Usernames, Passwords,
    None,           \* nothing entered yet
    MaxTokens,      \* bound: successful logins
    MaxLate,        \* bound: abandoned registrations the server still works on
    MaxRestarts     \* bound: times the server stops or crashes

ASSUME AccountsAssumption ==
    /\ None \notin Usernames \cup Passwords
    /\ MaxTokens \in Nat /\ MaxLate \in Nat /\ MaxRestarts \in Nat

VARIABLES
    users,      \* table users: AUTOINCREMENT ids are positions in this list
    tokens,     \* AppState.tokens: a map from tokens to user ids
    issued,     \* how many tokens were ever generated
    late,       \* registrations their client has given up that are not served yet
    form,       \* AuthState of each client
    call,       \* its HTTP request: "none", "register" or "login"
    answer,     \* what the server answered
    identity,   \* AuthenticatedUser, after a successful login
    opened,     \* the user id the client's WebSocket runs under, 0 for none
    restarts,
    rejected    \* history: the last registration that ended with a refused login

client == << form, call, answer, identity, opened, rejected >>
server == << users, tokens, issued, late, restarts >>
vars == << client, server >>

Step == {"ChooseAction", "Username", "Password", "Submitting", "Authenticated"}

NewForm == [step |-> "ChooseAction", action |-> "none", username |-> None, password |-> None]

Nobody == [user_id |-> 0, token |-> 0]

NoAnswer == [status |-> "none", login |-> Nobody]

Status(code) == [status |-> code, login |-> Nobody]

Init ==
    /\ users = << >>
    /\ tokens = << >>
    /\ issued = 0
    /\ late = {}
    /\ form = [c \in Clients |-> NewForm]
    /\ call = [c \in Clients |-> "none"]
    /\ answer = [c \in Clients |-> NoAnswer]
    /\ identity = [c \in Clients |-> Nobody]
    /\ opened = [c \in Clients |-> 0]
    /\ restarts = 0
    /\ rejected = [c \in Clients |-> NewForm]
-----------------------------------------------------------------------------
(* The client's form.                                                      *)

ChooseAction(c, action) ==
    /\ form[c].step = "ChooseAction"
    /\ form' = [form EXCEPT ![c].action = action, ![c].step = "Username"]
    /\ UNCHANGED << call, answer, identity, opened, rejected, server >>

EnterUsername(c, username) ==
    /\ form[c].step = "Username"
    /\ form' = [form EXCEPT ![c].username = username, ![c].step = "Password"]
    /\ UNCHANGED << call, answer, identity, opened, rejected, server >>

Request(c, kind) ==
    /\ call' = [call EXCEPT ![c] = kind]
    /\ answer' = [answer EXCEPT ![c] = NoAnswer]

EnterPassword(c, password) ==
    /\ form[c].step = "Password"
    /\ form' = [form EXCEPT ![c].password = password, ![c].step = "Submitting"]
    /\ Request(c, form[c].action)
    /\ UNCHANGED << identity, opened, rejected, server >>

ResetAfterError(c) ==
    /\ form' = [form EXCEPT ![c] = NewForm]
    /\ Request(c, "none")

\* A name already registered is no obstacle: its owner logs in.
RegisterAnswered(c) ==
    /\ call[c] = "register"
    /\ \/ /\ answer[c].status \in {"ok", "conflict"}
          /\ Request(c, "login")
          /\ UNCHANGED form
       \/ /\ answer[c].status = "internal_error"
          /\ ResetAfterError(c)
    /\ UNCHANGED << identity, opened, rejected, server >>

LoginAnswered(c) ==
    /\ call[c] = "login"
    /\ \/ /\ answer[c].status = "ok"
          /\ identity' = [identity EXCEPT ![c] = answer[c].login]
          /\ form' = [form EXCEPT ![c].step = "Authenticated"]
          /\ Request(c, "none")
          /\ UNCHANGED rejected
       \/ /\ answer[c].status = "unauthorized"
          /\ rejected' = [rejected EXCEPT ![c] = IF form[c].action = "register"
                                                  THEN form[c] ELSE @]
          /\ ResetAfterError(c)
          /\ UNCHANGED identity
       \/ /\ answer[c].status = "internal_error"
          /\ ResetAfterError(c)
          /\ UNCHANGED << identity, rejected >>
    /\ UNCHANGED << opened, server >>

Submitted(c) == [username |-> form[c].username, password |-> form[c].password]

\* The server cannot be reached, its answer is lost, or the connection breaks
\* before the request is served, which the server may do later.  A login that is
\* served late changes nothing anybody sees: its token goes to nobody.
CallFails(c) ==
    /\ call[c] # "none"
    /\ ResetAfterError(c)
    /\ \/ UNCHANGED late
       \/ /\ call[c] = "register"
          /\ answer[c] = NoAnswer
          /\ Cardinality(late) < MaxLate
          /\ late' = late \cup {Submitted(c)}
    /\ UNCHANGED << identity, opened, rejected, users, tokens, issued, restarts >>

\* The client program ends and is started again.
Quit(c) ==
    /\ form[c].step # "Submitting"
    /\ form' = [form EXCEPT ![c] = NewForm]
    /\ identity' = [identity EXCEPT ![c] = Nobody]
    /\ opened' = [opened EXCEPT ![c] = 0]
    /\ UNCHANGED << call, answer, rejected, server >>
-----------------------------------------------------------------------------
(* The server's handlers.                                                  *)

Unanswered(c, kind) == call[c] = kind /\ answer[c] = NoAnswer

Respond(c, response) == answer' = [answer EXCEPT ![c] = response]

IdOf(username) == {id \in 1 .. Len(users) : users[id].username = username}

\* Mutant: a second registration of a name replaces the first.
InsertUserUpserts(name, password) ==
    IF IdOf(name) = {}
      THEN users' = Append(users, [username |-> name, password_hash |-> password])
      ELSE users' = [id \in DOMAIN users |->
                       IF id \in IdOf(name) THEN [users[id] EXCEPT !.password_hash = password]
                                            ELSE users[id]]

InsertUser(name, password) ==
    /\ IdOf(name) = {}
    /\ users' = Append(users, [username |-> name, password_hash |-> password])

\* Mutant: the answer does not wait for the insertion.
RegisterForgets(c) ==
    /\ Unanswered(c, "register")
    /\ \/ /\ IdOf(form[c].username) = {}
          /\ Respond(c, Status("ok"))
          /\ UNCHANGED users \/ InsertUser(form[c].username, form[c].password)
       \/ /\ IdOf(form[c].username) # {}
          /\ Respond(c, Status("conflict"))
          /\ UNCHANGED users
    /\ UNCHANGED << form, call, identity, opened, rejected, tokens, issued, late, restarts >>

\* The UNIQUE constraint decides between two registrations of one name.
Register(c) ==
    /\ Unanswered(c, "register")
    /\ \/ /\ InsertUser(form[c].username, form[c].password)
          /\ Respond(c, Status("ok"))
       \/ /\ IdOf(form[c].username) # {}
          /\ Respond(c, Status("conflict"))
          /\ UNCHANGED users
       \/ /\ Respond(c, Status("internal_error"))
          /\ UNCHANGED users
    /\ UNCHANGED << form, call, identity, opened, rejected, tokens, issued, late, restarts >>

\* Mutant: tokens are numbered from the size of the map.
FreshTokenReused == CHOOSE t \in 1 .. (issued + 1) : t \notin DOMAIN tokens

FreshToken == issued + 1

Verified(id, password) == users[id].password_hash = password

IssueToken(id) ==
    /\ issued < MaxTokens
    /\ tokens' = [t \in DOMAIN tokens \cup {FreshToken} |->
                    IF t = FreshToken THEN id ELSE tokens[t]]
    /\ issued' = issued + 1

\* Mutant: a login puts its user id in the answer and another in the map.
LoginMixed(c) ==
    /\ Unanswered(c, "login")
    /\ \E id \in IdOf(form[c].username) :
           /\ Verified(id, form[c].password)
           /\ issued < MaxTokens
           /\ tokens' = [t \in DOMAIN tokens \cup {FreshToken} |->
                           IF t = FreshToken THEN id + 1 ELSE tokens[t]]
           /\ issued' = issued + 1
           /\ Respond(c, [status |-> "ok",
                          login |-> [user_id |-> id, token |-> FreshToken]])
    /\ UNCHANGED << form, call, identity, opened, rejected, users, late, restarts >>

Login(c) ==
    /\ Unanswered(c, "login")
    /\ \/ \E id \in IdOf(form[c].username) :
             /\ Verified(id, form[c].password)
             /\ IssueToken(id)
             /\ Respond(c, [status |-> "ok",
                            login |-> [user_id |-> id, token |-> FreshToken]])
       \/ /\ \A id \in IdOf(form[c].username) : ~Verified(id, form[c].password)
          /\ Respond(c, Status("unauthorized"))
          /\ UNCHANGED << tokens, issued >>
       \/ /\ Respond(c, Status("internal_error"))
          /\ UNCHANGED << tokens, issued >>
    /\ UNCHANGED << form, call, identity, opened, rejected, users, late, restarts >>

\* A registration is served when its client no longer waits for the answer, and
\* may meanwhile have sent another request: nobody learns of the outcome.
ServeLate ==
    \E request \in late :
        /\ late' = late \ {request}
        /\ InsertUser(request.username, request.password) \/ UNCHANGED users
        /\ UNCHANGED << client, tokens, issued, restarts >>

\* ws_handler: the token alone says whose session this is.  A token that is
\* not in the map is refused, which changes nothing.
OpenWebSocket(c) ==
    /\ form[c].step = "Authenticated"
    /\ opened[c] = 0
    /\ identity[c].token \in DOMAIN tokens
    /\ opened' = [opened EXCEPT ![c] = tokens[identity[c].token]]
    /\ UNCHANGED << form, call, answer, identity, rejected, server >>

CloseWebSocket(c) ==
    /\ opened[c] # 0
    /\ opened' = [opened EXCEPT ![c] = 0]
    /\ UNCHANGED << form, call, answer, identity, rejected, server >>

\* The users remain, the tokens do not; requests not answered yet will fail, and
\* those left behind are not served any more.
Restart ==
    /\ restarts < MaxRestarts
    /\ restarts' = restarts + 1
    /\ tokens' = << >>
    /\ late' = {}
    /\ opened' = [c \in Clients |-> 0]
    /\ answer' = [c \in Clients |->
                    IF call[c] # "none" /\ answer[c] = NoAnswer
                      THEN Status("lost") ELSE answer[c]]
    /\ UNCHANGED << users, issued, form, call, identity, rejected >>

Serve(c) == Register(c) \/ Login(c)

Receive(c) == RegisterAnswered(c) \/ LoginAnswered(c)

Next ==
    \/ \E c \in Clients :
          \/ \E action \in {"register", "login"} : ChooseAction(c, action)
          \/ \E username \in Usernames : EnterUsername(c, username)
          \/ \E password \in Passwords : EnterPassword(c, password)
          \/ Serve(c) \/ Receive(c) \/ CallFails(c) \/ Quit(c)
          \/ OpenWebSocket(c) \/ CloseWebSocket(c)
    \/ ServeLate
    \/ Restart

Spec == Init /\ [][Next]_vars
-----------------------------------------------------------------------------
FormType ==
    [step : Step, action : {"none", "register", "login"},
     username : Usernames \cup {None}, password : Passwords \cup {None}]

RequestType == [username : Usernames, password : Passwords]

(* Every variable keeps its type, and a token is one that was issued.        *)
TypeOK ==
    /\ users \in Seq([username : Usernames, password_hash : Passwords])
    /\ DOMAIN tokens \subseteq 1 .. issued
    /\ \A t \in DOMAIN tokens : tokens[t] \in 1 .. Len(users)
    /\ issued \in 0 .. MaxTokens
    /\ late \subseteq RequestType
    /\ form \in [Clients -> FormType]
    /\ call \in [Clients -> {"none", "register", "login"}]
    /\ \A c \in Clients : form[c].step = "Submitting" <=> call[c] # "none"
    /\ \A c \in Clients : opened[c] \in 0 .. Len(users)
    /\ restarts \in 0 .. MaxRestarts
    /\ rejected \in [Clients -> FormType]

(* Who is authenticated owns the account: the client that registers a taken  *)
(* name goes on to log in, and gets in with the owner's password only.       *)
AuthenticatedOwnsAccount ==
    \A c \in Clients : form[c].step = "Authenticated" =>
        /\ identity[c].user_id \in 1 .. Len(users)
        /\ users[identity[c].user_id] = [username |-> form[c].username,
                                         password_hash |-> form[c].password]

(* A token opens sessions of the user it was given to and of no other, also  *)
(* after the server has forgotten it and given out new ones.                 *)
SessionOfOwner ==
    \A c \in Clients : opened[c] # 0 => opened[c] = identity[c].user_id

(* A registration ends with a refused login only when the name belongs to    *)
(* somebody with another password: a registration that failed, or whose      *)
(* answer was lost, is repeated with success.                                *)
RefusedIsTaken ==
    \A c \in Clients : rejected[c].action = "register" =>
        \E id \in IdOf(rejected[c].username) : ~Verified(id, rejected[c].password)
=============================================================================
