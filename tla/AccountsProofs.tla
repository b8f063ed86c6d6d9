-------------------------- MODULE AccountsProofs ---------------------------
(***************************************************************************)
(* Proofs about Accounts, for every set of clients, names and passwords,   *)
(* any number of logins and of restarts.                                   *)
(***************************************************************************)
EXTENDS Accounts, SequenceTheorems, TLAPS

Account == [username : Usernames, password_hash : Passwords]

LoginType == [user_id : Nat, token : Nat]

AnswerType == [status : {"none", "ok", "conflict", "unauthorized", "internal_error", "lost"},
               login : LoginType]

(* The UNIQUE constraint: a name has one account.                            *)
UniqueNames ==
    \A i, j \in 1 .. Len(users) : users[i].username = users[j].username => i = j

(* What the form holds at each of its steps, and what the client waits for.  *)
FormOK(c) ==
    /\ form[c].step # "ChooseAction" => form[c].action \in {"register", "login"}
    /\ form[c].step \in {"Password", "Submitting", "Authenticated"} => form[c].username \in Usernames
    /\ form[c].step \in {"Submitting", "Authenticated"} => form[c].password \in Passwords
    /\ call[c] = "register" => form[c].action = "register"
    /\ call[c] = "none" => answer[c] = NoAnswer

(* A login was given for the account the form names, and its token, when the *)
(* server still knows it, stands for that account.                           *)
GivenFor(f, login) ==
    /\ login.user_id \in 1 .. Len(users)
    /\ users[login.user_id] = [username |-> f.username, password_hash |-> f.password]
    /\ login.token \in 1 .. issued
    /\ login.token \in DOMAIN tokens => tokens[login.token] = login.user_id

(* A form that comes to log in by way of a registration finds the name taken.*)
AnswerOK(c) ==
    /\ call[c] = "register" /\ answer[c].status \in {"ok", "conflict"} => IdOf(form[c].username) # {}
    /\ call[c] = "login" /\ form[c].action = "register" => IdOf(form[c].username) # {}
    /\ call[c] = "login" /\ answer[c].status = "ok" => GivenFor(form[c], answer[c].login)
    /\ call[c] = "login" /\ form[c].action = "register" /\ answer[c].status = "unauthorized" =>
          \E id \in IdOf(form[c].username) : ~Verified(id, form[c].password)

SessionOK(c) ==
    /\ form[c].step = "Authenticated" => GivenFor(form[c], identity[c])
    /\ opened[c] # 0 => form[c].step = "Authenticated" /\ opened[c] = identity[c].user_id

(* The variables that TypeOK leaves to the other properties.                 *)
AnswersTyped ==
    /\ answer \in [Clients -> AnswerType]
    /\ identity \in [Clients -> LoginType]
    /\ opened \in [Clients -> Nat]

IInv ==
    /\ TypeOK
    /\ AnswersTyped
    /\ UniqueNames
    /\ \A c \in Clients : FormOK(c) /\ AnswerOK(c) /\ SessionOK(c)
    /\ RefusedIsTaken
-----------------------------------------------------------------------------
LEMMA TokensType == ASSUME TypeOK PROVE issued \in Nat /\ Len(users) \in Nat
BY AccountsAssumption, LenProperties DEF TypeOK

LEMMA NewFormType == NewForm \in FormType /\ NewForm.step = "ChooseAction" /\ NewForm.action = "none"
BY DEF NewForm, FormType, Step

LEMMA NobodyType ==
    /\ Nobody \in LoginType
    /\ NoAnswer \in AnswerType /\ NoAnswer.status = "none"
    /\ \A code \in {"ok", "conflict", "unauthorized", "internal_error", "lost"} :
          Status(code) \in AnswerType /\ Status(code).status = code
BY DEF Nobody, LoginType, NoAnswer, AnswerType, Status

(* The server's tables only grow, but for the tokens at a restart.           *)
Grown ==
    /\ Len(users) \in Nat /\ Len(users') \in Nat /\ Len(users) <= Len(users')
    /\ \A id \in 1 .. Len(users) : users'[id] = users[id]
    /\ issued \in Nat /\ issued' \in Nat /\ issued <= issued'
    /\ \A t \in 1 .. issued : t \in DOMAIN tokens' => t \in DOMAIN tokens /\ tokens'[t] = tokens[t]

LEMMA ServerUnchanged ==
    ASSUME TypeOK, users' = users, issued' = issued, tokens' = tokens
    PROVE  Grown
BY TokensType DEF Grown

LEMMA IdOfGrows ==
    ASSUME Grown
    PROVE  \A username : \A id \in IdOf(username) :
               id \in 1 .. Len(users') /\ users'[id] = users[id] /\ users'[id].username = username
BY DEF Grown, IdOf

LEMMA GivenStays ==
    ASSUME Grown
    PROVE  \A f, login : GivenFor(f, login) =>
               /\ login.user_id \in 1 .. Len(users')
               /\ users'[login.user_id] = [username |-> f.username, password_hash |-> f.password]
               /\ login.token \in 1 .. issued'
               /\ login.token \in DOMAIN tokens' => tokens'[login.token] = login.user_id
BY DEF Grown, GivenFor

(* A client that takes no part in a step.                                    *)
Waits(c) ==
    /\ form'[c] = form[c] /\ call'[c] = call[c] /\ answer'[c] = answer[c]
    /\ identity'[c] = identity[c] /\ opened'[c] = opened[c]

LEMMA WaitingStays ==
    ASSUME Grown, NEW c \in Clients, Waits(c), FormOK(c), AnswerOK(c), SessionOK(c)
    PROVE  FormOK(c)' /\ AnswerOK(c)' /\ SessionOK(c)'
<1>1. FormOK(c)'
  BY DEF Waits, FormOK
<1>2. AnswerOK(c)'
  <2>1. /\ form'[c] = form[c] /\ call'[c] = call[c] /\ answer'[c] = answer[c]
    BY DEF Waits
  <2>2. IdOf(form[c].username) # {} => IdOf(form[c].username)' # {}
    BY <2>1, IdOfGrows DEF IdOf
  <2>3. GivenFor(form[c], answer[c].login) => GivenFor(form[c], answer[c].login)'
    BY <2>1, GivenStays DEF GivenFor
  <2>4. (\E id \in IdOf(form[c].username) : ~Verified(id, form[c].password)) =>
            (\E id \in IdOf(form[c].username)' : ~Verified(id, form[c].password)')
    BY <2>1, IdOfGrows DEF IdOf, Verified
  <2>5. QED BY <2>1, <2>2, <2>3, <2>4 DEF AnswerOK, IdOf, Verified, GivenFor
<1>3. SessionOK(c)'
  BY GivenStays DEF Waits, SessionOK, GivenFor
<1>4. QED BY <1>1, <1>2, <1>3

(* A refusal stays justified while nothing else is refused.                  *)
LEMMA RefusedStays ==
    ASSUME Grown, RefusedIsTaken, rejected' = rejected
    PROVE  RefusedIsTaken'
<1>1. ASSUME NEW c \in Clients, rejected[c].action = "register"
      PROVE  \E id \in 1 .. Len(users') :
                users'[id].username = rejected[c].username
                /\ users'[id].password_hash # rejected[c].password
  <2>1. PICK id \in IdOf(rejected[c].username) : ~Verified(id, rejected[c].password)
    BY <1>1 DEF RefusedIsTaken
  <2>2. /\ id \in 1 .. Len(users') /\ users'[id] = users[id]
        /\ users'[id].username = rejected[c].username
    BY <2>1, IdOfGrows
  <2>3. QED BY <2>1, <2>2 DEF Verified
<1>2. QED BY <1>1 DEF RefusedIsTaken, IdOf, Verified

Each(c) == FormOK(c) /\ AnswerOK(c) /\ SessionOK(c)

(* One client acts, and it and the tables are all that changes.              *)
LEMMA OneActs ==
    ASSUME IInv, Grown, NEW c \in Clients, \A d \in Clients \ {c} : Waits(d),
           TypeOK', AnswersTyped', UniqueNames', RefusedIsTaken', Each(c)'
    PROVE  IInv'
<1>1. \A d \in Clients \ {c} : Each(d)'
  BY WaitingStays DEF IInv, Each
<1>2. QED BY <1>1 DEF IInv, Each
-----------------------------------------------------------------------------
(* The steps of the form change none of the server's tables, though a request*)
(* may be left behind.                                                       *)
TablesStay == UNCHANGED << users, tokens, issued, restarts >> /\ late' \subseteq RequestType

LEMMA ServerStays == ASSUME IInv, UNCHANGED server PROVE TablesStay
BY DEF server, IInv, TypeOK, TablesStay

LEMMA FormStep ==
    ASSUME IInv, NEW c \in Clients, NEW f \in FormType, form' = [form EXCEPT ![c] = f],
           f.step # "Authenticated", f.step = "Submitting" <=> call'[c] # "none",
           call' \in [Clients -> {"none", "register", "login"}],
           answer' \in [Clients -> AnswerType], answer'[c] = NoAnswer,
           identity' \in [Clients -> LoginType], opened'[c] = 0,
           opened' \in [Clients -> Nat],
           \A d \in Clients \ {c} : /\ call'[d] = call[d] /\ answer'[d] = answer[d]
                                    /\ identity'[d] = identity[d] /\ opened'[d] = opened[d],
           UNCHANGED rejected, TablesStay,
           FormOK(c)', call'[c] = "login" /\ f.action = "register" => IdOf(f.username) # {}
    PROVE  IInv'
<1>1. UNCHANGED << users, tokens, issued, restarts, rejected >> /\ late' \subseteq RequestType
  BY DEF TablesStay
<1>2. Grown
  BY <1>1, ServerUnchanged DEF IInv
<1>3. form'[c] = f /\ \A d \in Clients \ {c} : Waits(d)
  BY DEF IInv, TypeOK, Waits
<1>4. TypeOK'
  <2>1. form' \in [Clients -> FormType]
    BY DEF IInv, TypeOK
  <2>2. \A d \in Clients : form'[d].step = "Submitting" <=> call'[d] # "none"
    BY <1>3 DEF IInv, TypeOK, Waits
  <2>3. \A d \in Clients : opened'[d] \in 0 .. Len(users')
    <3>1. 0 \in 0 .. Len(users) /\ users' = users
      BY <1>1, TokensType DEF IInv
    <3>2. \A d \in Clients \ {c} : opened'[d] = opened[d] /\ opened[d] \in 0 .. Len(users)
      BY <1>3 DEF IInv, TypeOK, Waits
    <3>3. QED BY <3>1, <3>2
  <2>4. QED BY <1>1, <2>1, <2>2, <2>3 DEF IInv, TypeOK
<1>5. UniqueNames' /\ AnswersTyped'
  BY <1>1 DEF IInv, UniqueNames, AnswersTyped
<1>6. RefusedIsTaken'
  BY <1>1, <1>2, RefusedStays DEF IInv
<1>7. AnswerOK(c)'
  BY <1>1, <1>3, NobodyType DEF AnswerOK, IdOf
<1>8. SessionOK(c)'
  BY <1>3 DEF SessionOK
<1>9. QED BY <1>2, <1>3, <1>4, <1>5, <1>6, <1>7, <1>8, OneActs DEF Each

(* What the invariant says of the client that acts.                          *)
LEMMA ClientFields ==
    ASSUME IInv, NEW c \in Clients
    PROVE  /\ form \in [Clients -> FormType] /\ form[c] \in FormType
           /\ call \in [Clients -> {"none", "register", "login"}]
           /\ answer \in [Clients -> AnswerType] /\ identity \in [Clients -> LoginType]
           /\ opened \in [Clients -> Nat]
           /\ form[c].step = "Submitting" <=> call[c] # "none"
           /\ form[c].step # "Authenticated" => opened[c] = 0
           /\ FormOK(c) /\ AnswerOK(c) /\ SessionOK(c)
<1>1. /\ form \in [Clients -> FormType] /\ call \in [Clients -> {"none", "register", "login"}]
      /\ form[c].step = "Submitting" <=> call[c] # "none"
  BY DEF IInv, TypeOK
<1>2. /\ answer \in [Clients -> AnswerType] /\ identity \in [Clients -> LoginType]
      /\ opened \in [Clients -> Nat]
  BY DEF IInv, AnswersTyped
<1>3. form[c] \in FormType
  BY <1>1
<1>4. FormOK(c) /\ AnswerOK(c) /\ SessionOK(c)
  BY DEF IInv
<1>5. QED BY <1>1, <1>2, <1>3, <1>4 DEF SessionOK

LEMMA ChooseActionStep ==
    ASSUME IInv, NEW c \in Clients, NEW action \in {"register", "login"}, ChooseAction(c, action)
    PROVE  IInv'
<1> DEFINE f == [form[c] EXCEPT !.action = action, !.step = "Username"]
<1>1. /\ f \in FormType /\ f.step = "Username" /\ f.action = action
  <2>1. form[c] \in FormType
    BY ClientFields
  <2>2. QED BY <2>1 DEF FormType, Step
<1>2. form' = [form EXCEPT ![c] = f]
  BY DEF ChooseAction
<1> HIDE DEF f
<1>3. /\ UNCHANGED << call, answer, identity, opened, rejected, server >>
      /\ call[c] = "none" /\ opened[c] = 0 /\ answer[c] = NoAnswer
  BY ClientFields DEF ChooseAction, FormOK
<1>4. FormOK(c)'
  BY <1>1, <1>2, <1>3, ClientFields DEF FormOK
<1>5. QED BY <1>1, <1>2, <1>3, <1>4, ClientFields, ServerStays, FormStep

LEMMA EnterUsernameStep ==
    ASSUME IInv, NEW c \in Clients, NEW username \in Usernames, EnterUsername(c, username)
    PROVE  IInv'
<1> DEFINE f == [form[c] EXCEPT !.username = username, !.step = "Password"]
<1>1. /\ f \in FormType /\ f.step = "Password" /\ f.action = form[c].action /\ f.username = username
  <2>1. form[c] \in FormType
    BY ClientFields
  <2>2. QED BY <2>1 DEF FormType, Step
<1>2. form' = [form EXCEPT ![c] = f]
  BY DEF EnterUsername
<1> HIDE DEF f
<1>3. /\ UNCHANGED << call, answer, identity, opened, rejected, server >>
      /\ call[c] = "none" /\ opened[c] = 0 /\ answer[c] = NoAnswer /\ form[c].step = "Username"
  BY ClientFields DEF EnterUsername, FormOK
<1>4. FormOK(c)'
  BY <1>1, <1>2, <1>3, ClientFields DEF FormOK
<1>5. QED BY <1>1, <1>2, <1>3, <1>4, ClientFields, ServerStays, FormStep

LEMMA EnterPasswordStep ==
    ASSUME IInv, NEW c \in Clients, NEW password \in Passwords, EnterPassword(c, password)
    PROVE  IInv'
<1> DEFINE f == [form[c] EXCEPT !.password = password, !.step = "Submitting"]
<1>1. /\ f \in FormType /\ f.step = "Submitting" /\ f.action = form[c].action
      /\ f.username = form[c].username /\ f.password = password
  <2>1. form[c] \in FormType
    BY ClientFields
  <2>2. QED BY <2>1 DEF FormType, Step
<1>2. form' = [form EXCEPT ![c] = f]
  BY DEF EnterPassword
<1> HIDE DEF f
<1>3. /\ UNCHANGED << identity, opened, rejected, server >>
      /\ call' = [call EXCEPT ![c] = form[c].action]
      /\ answer' = [answer EXCEPT ![c] = NoAnswer]
      /\ opened[c] = 0 /\ form[c].step = "Password" /\ form[c].action \in {"register", "login"}
  BY ClientFields DEF EnterPassword, Request, FormOK
<1>4. call'[c] = form[c].action /\ call' \in [Clients -> {"none", "register", "login"}]
  BY <1>3, ClientFields
<1>5. answer'[c] = NoAnswer /\ answer' \in [Clients -> AnswerType]
  BY <1>3, ClientFields, NobodyType
<1>6. FormOK(c)'
  BY <1>1, <1>2, <1>3, <1>4, <1>5, ClientFields, NobodyType DEF FormOK
<1>7. QED BY <1>1, <1>2, <1>3, <1>4, <1>5, <1>6, ClientFields, ServerStays, FormStep

LEMMA ResetStep ==
    ASSUME IInv, NEW c \in Clients, ResetAfterError(c), form[c].step # "Authenticated",
           UNCHANGED << identity, opened, rejected >>, TablesStay
    PROVE  IInv'
<1>1. /\ form' = [form EXCEPT ![c] = NewForm] /\ call' = [call EXCEPT ![c] = "none"]
      /\ answer' = [answer EXCEPT ![c] = NoAnswer] /\ opened[c] = 0
  BY ClientFields DEF ResetAfterError, Request
<1>2. call'[c] = "none" /\ call' \in [Clients -> {"none", "register", "login"}]
  BY <1>1, ClientFields
<1>3. answer'[c] = NoAnswer /\ answer' \in [Clients -> AnswerType]
  BY <1>1, ClientFields, NobodyType
<1>4. FormOK(c)'
  BY <1>1, <1>2, <1>3, ClientFields, NobodyType, NewFormType DEF FormOK
<1>5. QED BY <1>1, <1>2, <1>3, <1>4, ClientFields, NewFormType, FormStep

LEMMA QuitStep == ASSUME IInv, NEW c \in Clients, Quit(c) PROVE IInv'
<1>1. /\ form' = [form EXCEPT ![c] = NewForm] /\ call' = call /\ answer' = answer
      /\ identity' = [identity EXCEPT ![c] = Nobody] /\ opened' = [opened EXCEPT ![c] = 0]
      /\ UNCHANGED << rejected, server >>
      /\ call[c] = "none" /\ answer[c] = NoAnswer
  BY ClientFields DEF Quit, FormOK
<1>2. /\ identity' \in [Clients -> LoginType] /\ identity'[c] \in LoginType
      /\ opened' \in [Clients -> Nat] /\ opened'[c] = 0
  BY <1>1, ClientFields, NobodyType
<1>3. FormOK(c)'
  BY <1>1, <1>2, ClientFields, NewFormType DEF FormOK
<1>4. QED BY <1>1, <1>2, <1>3, ClientFields, NewFormType, ServerStays, FormStep

LEMMA RegisterAnsweredStep == ASSUME IInv, NEW c \in Clients, RegisterAnswered(c) PROVE IInv'
<1>1. CASE ResetAfterError(c)
  BY <1>1, ClientFields, ServerStays, ResetStep DEF RegisterAnswered
<1>2. CASE answer[c].status \in {"ok", "conflict"} /\ Request(c, "login") /\ UNCHANGED form
  <2>1. /\ form' = [form EXCEPT ![c] = form[c]]
        /\ call' = [call EXCEPT ![c] = "login"] /\ answer' = [answer EXCEPT ![c] = NoAnswer]
        /\ UNCHANGED << identity, opened, rejected, server >>
        /\ call[c] = "register" /\ form[c].step = "Submitting" /\ opened[c] = 0
    BY <1>2, ClientFields DEF RegisterAnswered, Request
  <2>2. call'[c] = "login" /\ call' \in [Clients -> {"none", "register", "login"}]
    BY <2>1, ClientFields
  <2>3. answer'[c] = NoAnswer /\ answer' \in [Clients -> AnswerType]
    BY <2>1, ClientFields, NobodyType
  <2>4. FormOK(c)'
    BY <2>1, <2>2, <2>3, ClientFields, NobodyType DEF FormOK
  <2>5. IdOf(form[c].username) # {}
    BY <1>2, <2>1, ClientFields DEF AnswerOK
  <2>6. QED BY <2>1, <2>2, <2>3, <2>4, <2>5, ClientFields, ServerStays, FormStep
<1>3. QED BY <1>1, <1>2 DEF RegisterAnswered

(* The step of a client that is answered keeps the tables: only what was     *)
(* refused or opened may change with it.                                     *)
LEMMA LoginAnsweredStep == ASSUME IInv, NEW c \in Clients, LoginAnswered(c) PROVE IInv'
<1>0. /\ UNCHANGED << users, tokens, issued, late, restarts, opened >>
      /\ call[c] = "login" /\ form[c].step = "Submitting" /\ opened[c] = 0
      /\ form[c] \in FormType /\ TypeOK
  BY ClientFields DEF LoginAnswered, server, IInv
<1>g. Grown
  BY <1>0, ServerUnchanged
<1>1. CASE ResetAfterError(c) /\ UNCHANGED << identity, rejected >>
  BY <1>1, ClientFields, ServerStays, ResetStep DEF LoginAnswered
<1>2. CASE /\ answer[c].status = "ok" /\ identity' = [identity EXCEPT ![c] = answer[c].login]
           /\ form' = [form EXCEPT ![c].step = "Authenticated"]
           /\ Request(c, "none") /\ UNCHANGED rejected
  <2> DEFINE f == [form[c] EXCEPT !.step = "Authenticated"]
  <2>1. /\ f \in FormType /\ f.step = "Authenticated" /\ f.action = form[c].action
        /\ f.username = form[c].username /\ f.password = form[c].password
    BY <1>0 DEF FormType, Step
  <2>2. form' = [form EXCEPT ![c] = f]
    BY <1>2
  <2> HIDE DEF f
  <2>3. answer[c].login \in LoginType
    BY ClientFields DEF AnswerType
  <2>4. /\ form'[c] = f /\ form' \in [Clients -> FormType]
        /\ call'[c] = "none" /\ call' \in [Clients -> {"none", "register", "login"}]
        /\ answer'[c] = NoAnswer /\ answer' \in [Clients -> AnswerType]
        /\ identity'[c] = answer[c].login /\ identity' \in [Clients -> LoginType]
    <3>1. form'[c] = f /\ form' \in [Clients -> FormType]
      BY <2>1, <2>2, ClientFields
    <3>2. call'[c] = "none" /\ call' \in [Clients -> {"none", "register", "login"}]
      BY <1>2, ClientFields DEF Request
    <3>3. answer'[c] = NoAnswer /\ answer' \in [Clients -> AnswerType]
      BY <1>2, ClientFields, NobodyType DEF Request
    <3>4. identity'[c] = answer[c].login /\ identity' \in [Clients -> LoginType]
      BY <1>2, <2>3, ClientFields
    <3>5. QED BY <3>1, <3>2, <3>3, <3>4
  <2>5. \A d \in Clients \ {c} : Waits(d)
    BY <1>0, <1>2, <2>2, ClientFields DEF Waits, Request
  <2>6. TypeOK'
    <3>1. \A d \in Clients : form'[d].step = "Submitting" <=> call'[d] # "none"
      BY <1>0, <2>1, <2>4, <2>5 DEF TypeOK, Waits
    <3>2. QED BY <1>0, <1>2, <2>4, <3>1 DEF TypeOK
  <2>7. AnswersTyped' /\ UniqueNames'
    BY <1>0, <2>4 DEF IInv, AnswersTyped, UniqueNames
  <2>8. RefusedIsTaken'
    BY <1>2, <1>g, RefusedStays DEF IInv
  <2>9. FormOK(c)'
    BY <1>0, <2>1, <2>4, ClientFields, NobodyType DEF FormOK
  <2>10. AnswerOK(c)'
    BY <2>4 DEF AnswerOK
  <2>11. SessionOK(c)'
    <3>1. GivenFor(form[c], answer[c].login)
      BY <1>0, <1>2, ClientFields DEF AnswerOK
    <3>2. GivenFor(form[c], identity[c])'
      BY <1>0, <2>1, <2>4, <3>1 DEF GivenFor
    <3>3. QED BY <1>0, <3>2 DEF SessionOK
  <2>12. QED BY <1>g, <2>5, <2>6, <2>7, <2>8, <2>9, <2>10, <2>11, OneActs DEF Each
<1>3. CASE /\ answer[c].status = "unauthorized"
           /\ rejected' = [rejected EXCEPT ![c] = IF form[c].action = "register"
                                                    THEN form[c] ELSE @]
           /\ ResetAfterError(c) /\ UNCHANGED identity
  <2>1. /\ form'[c] = NewForm /\ form' \in [Clients -> FormType]
        /\ call'[c] = "none" /\ call' \in [Clients -> {"none", "register", "login"}]
        /\ answer'[c] = NoAnswer /\ answer' \in [Clients -> AnswerType]
    BY <1>3, ClientFields, NewFormType, NobodyType DEF ResetAfterError, Request
  <2>2. \A d \in Clients \ {c} : Waits(d)
    BY <1>0, <1>3, ClientFields DEF Waits, ResetAfterError, Request
  <2>3. rejected \in [Clients -> FormType] /\ rejected' \in [Clients -> FormType]
    BY <1>0, <1>3 DEF TypeOK
  <2>4. TypeOK'
    <3>1. \A d \in Clients : form'[d].step = "Submitting" <=> call'[d] # "none"
      BY <1>0, <2>1, <2>2, NewFormType DEF TypeOK, Waits
    <3>2. QED BY <1>0, <2>1, <2>3, <3>1 DEF TypeOK
  <2>5. AnswersTyped' /\ UniqueNames'
    BY <1>0, <1>3, <2>1 DEF IInv, AnswersTyped, UniqueNames
  <2>6. FormOK(c)' /\ AnswerOK(c)' /\ SessionOK(c)'
    BY <1>0, <2>1, NewFormType DEF FormOK, AnswerOK, SessionOK
  <2>7. RefusedIsTaken'
    <3>1. ASSUME NEW d \in Clients, rejected'[d].action = "register"
          PROVE  \E id \in IdOf(rejected[d].username)' : ~Verified(id, rejected[d].password)'
      <4>1. CASE d = c
        <5>0. CASE form[c].action # "register"
          BY <1>0, <1>3, <2>3, <3>1, <4>1, <5>0 DEF IInv, RefusedIsTaken, IdOf, Verified
        <5> SUFFICES ASSUME form[c].action = "register" 
                     PROVE  \E id \in IdOf(rejected[d].username)' : ~Verified(id, rejected[d].password)'
          BY <5>0
        <5>1. rejected'[d] = form[c]
          BY <1>3, <2>3, <4>1
        <5>2. \E id \in IdOf(form[c].username) : ~Verified(id, form[c].password)
          BY <1>0, <1>3, <3>1, <5>1, ClientFields DEF AnswerOK
        <5>3. QED BY <1>0, <5>1, <5>2 DEF IdOf, Verified
      <4>2. CASE d # c
        <5>1. rejected'[d] = rejected[d]
          BY <1>3, <2>3, <4>2
        <5>2. QED BY <1>0, <3>1, <5>1 DEF IInv, RefusedIsTaken, IdOf, Verified
      <4>3. QED BY <4>1, <4>2
    <3>2. QED BY <3>1 DEF RefusedIsTaken
  <2>8. QED BY <1>g, <2>2, <2>4, <2>5, <2>6, <2>7, OneActs DEF Each
<1>4. QED BY <1>1, <1>2, <1>3 DEF LoginAnswered
-----------------------------------------------------------------------------
(* An insertion keeps the ids of the others, and the UNIQUE constraint makes *)
(* it the only account of its name.                                          *)
LEMMA Inserted ==
    ASSUME IInv, NEW name \in Usernames, NEW password \in Passwords, InsertUser(name, password),
           UNCHANGED << tokens, issued, restarts, form, call, opened, rejected >>,
           late' \subseteq RequestType
    PROVE  Grown /\ TypeOK' /\ UniqueNames' /\ IdOf(name)' # {}
<1> DEFINE account == [username |-> name, password_hash |-> password]
<1>1. account \in Account /\ account.username = name
  BY DEF Account
<1> HIDE DEF account
<1>2. /\ TypeOK /\ Len(users) \in Nat /\ users \in Seq(Account) /\ issued \in Nat
      /\ users' = Append(users, account) /\ IdOf(name) = {}
  BY TokensType DEF InsertUser, IInv, TypeOK, Account, account
<1>3. /\ users' \in Seq(Account) /\ Len(users') = Len(users) + 1
      /\ \A id \in 1 .. Len(users) : users'[id] = users[id]
      /\ users'[Len(users) + 1] = account
  BY <1>1, <1>2, AppendProperties
<1>4. Grown
  BY <1>2, <1>3 DEF Grown
<1>5. TypeOK'
  <2>1. users' \in Seq([username : Usernames, password_hash : Passwords])
    BY <1>3 DEF Account
  <2>2. 1 .. Len(users) \subseteq 1 .. Len(users') /\ 0 .. Len(users) \subseteq 0 .. Len(users')
    BY <1>2, <1>3
  <2>3. QED BY <1>2, <2>1, <2>2 DEF TypeOK
<1>6. UniqueNames'
  <2>1. \A id \in 1 .. Len(users) : users[id].username # account.username
    BY <1>1, <1>2 DEF IdOf
  <2>2. \A id \in 1 .. Len(users') : id \in 1 .. Len(users) \/ id = Len(users) + 1
    BY <1>2, <1>3
  <2>3. QED BY <1>3, <2>1, <2>2 DEF IInv, UniqueNames
<1>7. Len(users) + 1 \in IdOf(name)'
  BY <1>1, <1>2, <1>3 DEF IdOf
<1>8. QED BY <1>4, <1>5, <1>6, <1>7

(* A token is new, and the others keep the user they stand for.              *)
LEMMA Issued ==
    ASSUME IInv, NEW id \in 1 .. Len(users), IssueToken(id),
           UNCHANGED << users, restarts, form, call, opened, rejected >>,
           late' \subseteq RequestType
    PROVE  /\ Grown /\ TypeOK' /\ UniqueNames' /\ FreshToken \in Nat
           /\ FreshToken \in 1 .. issued' /\ tokens'[FreshToken] = id
<1>1. TypeOK /\ Len(users) \in Nat /\ issued \in Nat
  BY TokensType DEF IInv
<1>2. /\ DOMAIN tokens' = DOMAIN tokens \cup {issued + 1} /\ tokens'[issued + 1] = id
      /\ \A t \in DOMAIN tokens \ {issued + 1} : tokens'[t] = tokens[t]
      /\ issued' = issued + 1 /\ issued < MaxTokens /\ FreshToken = issued + 1
  BY DEF IssueToken, FreshToken
<1>3. Grown
  BY <1>1, <1>2 DEF Grown
<1>4. TypeOK'
  <2>1. DOMAIN tokens' \subseteq 1 .. issued' /\ issued' \in 0 .. MaxTokens
    BY <1>1, <1>2, AccountsAssumption DEF TypeOK
  <2>2. \A t \in DOMAIN tokens' : tokens'[t] \in 1 .. Len(users)
    BY <1>1, <1>2 DEF TypeOK
  <2>3. QED BY <1>1, <2>1, <2>2 DEF TypeOK
<1>5. UniqueNames'
  BY DEF IInv, UniqueNames
<1>6. QED BY <1>1, <1>2, <1>3, <1>4, <1>5

(* The server answers a request that waits: the answer is for the form as it *)
(* is, which does not change before it is taken.                             *)
LEMMA AnsweredStep ==
    ASSUME IInv, Grown, NEW c \in Clients, NEW response \in AnswerType, Respond(c, response),
           call[c] # "none", UNCHANGED << form, call, identity, opened, rejected, restarts >>,
           TypeOK', UniqueNames', AnswerOK(c)'
    PROVE  IInv'
<1>1. /\ answer' = [answer EXCEPT ![c] = response] /\ answer'[c] = response
      /\ answer' \in [Clients -> AnswerType]
  BY ClientFields DEF Respond
<1>2. \A d \in Clients \ {c} : Waits(d)
  BY <1>1, ClientFields DEF Waits
<1>3. AnswersTyped'
  BY <1>1 DEF IInv, AnswersTyped
<1>4. FormOK(c)'
  BY ClientFields DEF FormOK
<1>5. SessionOK(c)'
  BY ClientFields DEF SessionOK
<1>6. RefusedIsTaken'
  BY RefusedStays DEF IInv
<1>7. QED BY <1>2, <1>3, <1>4, <1>5, <1>6, OneActs DEF Each

(* A response that reports a failure commits the server to nothing.          *)
LEMMA FailureStep ==
    ASSUME IInv, NEW c \in Clients, Respond(c, Status("internal_error")), call[c] # "none",
           UNCHANGED << users, tokens, issued, late, form, call, identity, opened, rejected, restarts >>
    PROVE  IInv'
<1>1. Grown
  BY ServerUnchanged DEF IInv
<1>2. TypeOK' /\ UniqueNames'
  BY DEF IInv, TypeOK, UniqueNames
<1>3. answer'[c] = Status("internal_error") /\ Status("internal_error") \in AnswerType
  BY ClientFields, NobodyType DEF Respond
<1>4. AnswerOK(c)'
  <2>1. call[c] = "login" /\ form[c].action = "register" => IdOf(form[c].username) # {}
    BY ClientFields DEF AnswerOK
  <2>2. answer'[c].status = "internal_error"
    BY <1>3, NobodyType
  <2>3. QED BY <2>1, <2>2 DEF AnswerOK, IdOf
<1>5. QED BY <1>1, <1>2, <1>3, <1>4, AnsweredStep

LEMMA RegisterStep == ASSUME IInv, NEW c \in Clients, Register(c) PROVE IInv'
<1>0. /\ call[c] = "register" /\ form[c].username \in Usernames /\ form[c].password \in Passwords
      /\ UNCHANGED << form, call, identity, opened, rejected, tokens, issued, late, restarts >>
      /\ TypeOK /\ Len(users) \in Nat /\ users \in Seq(Account) /\ issued \in Nat
  BY ClientFields, TokensType DEF Register, Unanswered, FormOK, IInv, TypeOK, Account
<1>1. CASE Respond(c, Status("internal_error")) /\ UNCHANGED users
  BY <1>0, <1>1, FailureStep
<1>2. CASE /\ IdOf(form[c].username) # {}
           /\ Respond(c, Status("conflict")) /\ UNCHANGED users
  <2>1. Grown
    BY <1>0, <1>2, ServerUnchanged
  <2>2. TypeOK' /\ UniqueNames'
    BY <1>0, <1>2 DEF IInv, TypeOK, UniqueNames
  <2>3. answer'[c] = Status("conflict") /\ Status("conflict") \in AnswerType
    BY <1>2, ClientFields, NobodyType DEF Respond
  <2>4. AnswerOK(c)'
    BY <1>0, <1>2 DEF AnswerOK, IdOf
  <2>5. QED BY <1>0, <1>2, <2>1, <2>2, <2>3, <2>4, AnsweredStep
<1>3. CASE InsertUser(form[c].username, form[c].password) /\ Respond(c, Status("ok"))
  <2>1. Grown /\ TypeOK' /\ UniqueNames' /\ IdOf(form[c].username)' # {}
    BY <1>0, <1>3, Inserted DEF IInv, TypeOK
  <2>2. answer'[c] = Status("ok") /\ Status("ok") \in AnswerType
    BY <1>3, ClientFields, NobodyType DEF Respond
  <2>3. AnswerOK(c)'
    BY <1>0, <2>1 DEF AnswerOK
  <2>4. QED BY <1>0, <1>3, <2>1, <2>2, <2>3, AnsweredStep
<1>4. QED BY <1>1, <1>2, <1>3 DEF Register

LEMMA LoginStep == ASSUME IInv, NEW c \in Clients, Login(c) PROVE IInv'
<1>0. /\ call[c] = "login" /\ form[c].username \in Usernames /\ form[c].password \in Passwords
      /\ UNCHANGED << users, form, call, identity, opened, rejected, late, restarts >>
      /\ TypeOK /\ Len(users) \in Nat /\ users \in Seq(Account) /\ issued \in Nat
      /\ form[c].action = "register" => IdOf(form[c].username) # {}
  BY ClientFields, TokensType DEF Login, Unanswered, FormOK, AnswerOK, IInv, TypeOK, Account
<1>1. CASE Respond(c, Status("internal_error")) /\ UNCHANGED << tokens, issued >>
  BY <1>0, <1>1, FailureStep
<1>2. CASE /\ \A id \in IdOf(form[c].username) : ~Verified(id, form[c].password)
           /\ Respond(c, Status("unauthorized")) /\ UNCHANGED << tokens, issued >>
  <2>1. Grown
    BY <1>0, <1>2, ServerUnchanged
  <2>2. TypeOK' /\ UniqueNames'
    BY <1>0, <1>2 DEF IInv, TypeOK, UniqueNames
  <2>3. /\ answer'[c] = Status("unauthorized") /\ Status("unauthorized") \in AnswerType
        /\ answer'[c].status = "unauthorized"
    BY <1>2, ClientFields, NobodyType DEF Respond
  <2>4. AnswerOK(c)'
    BY <1>0, <1>2, <2>3 DEF AnswerOK, IdOf, Verified
  <2>5. QED BY <1>0, <1>2, <2>1, <2>2, <2>3, <2>4, AnsweredStep
<1>3. ASSUME NEW id \in IdOf(form[c].username), Verified(id, form[c].password), IssueToken(id),
             Respond(c, [status |-> "ok", login |-> [user_id |-> id, token |-> FreshToken]])
      PROVE  IInv'
  <2> DEFINE login == [user_id |-> id, token |-> FreshToken]
             response == [status |-> "ok", login |-> login]
  <2>1. /\ id \in 1 .. Len(users) /\ id \in Nat /\ users[id] \in Account
        /\ users[id].username = form[c].username /\ users[id].password_hash = form[c].password
    BY <1>0, <1>3 DEF IdOf, Verified
  <2>2. /\ Grown /\ TypeOK' /\ UniqueNames' /\ FreshToken \in Nat
        /\ FreshToken \in 1 .. issued' /\ tokens'[FreshToken] = id
    <3>1. late' \subseteq RequestType
      BY <1>0 DEF TypeOK
    <3>2. QED BY <1>0, <1>3, <2>1, <3>1, Issued
  <2>3. /\ response \in AnswerType /\ response.status = "ok" /\ response.login = login
        /\ login.user_id = id /\ login.token = FreshToken
    BY <2>1, <2>2 DEF AnswerType, LoginType
  <2>4. Respond(c, response)
    BY <1>3
  <2> HIDE DEF login, response
  <2>5. answer'[c] = response
    BY <2>3, <2>4, ClientFields DEF Respond
  <2>6. users[id] = [username |-> form[c].username, password_hash |-> form[c].password]
    BY <2>1 DEF Account
  <2>7. GivenFor(form[c], answer[c].login)'
    BY <1>0, <2>1, <2>2, <2>3, <2>5, <2>6 DEF GivenFor
  <2>8. AnswerOK(c)'
    BY <1>0, <2>3, <2>5, <2>7 DEF AnswerOK, IdOf
  <2>9. QED BY <1>0, <2>2, <2>3, <2>4, <2>8, AnsweredStep
<1>4. QED BY <1>1, <1>2, <1>3 DEF Login
-----------------------------------------------------------------------------
(* A registration served too late changes the tables and no client.               *)
LEMMA ServeLateStep == ASSUME IInv, ServeLate PROVE IInv'
<1>0. /\ UNCHANGED << form, call, answer, identity, opened, rejected, restarts, tokens, issued >>
      /\ late' \subseteq RequestType /\ TypeOK /\ Len(users) \in Nat
  BY TokensType DEF ServeLate, client, IInv, TypeOK
<1>1. Grown /\ TypeOK' /\ UniqueNames'
  <2>1. PICK request \in late :
           InsertUser(request.username, request.password) \/ UNCHANGED users
    BY DEF ServeLate
  <2>2. request.username \in Usernames /\ request.password \in Passwords
    BY <1>0 DEF TypeOK, RequestType
  <2>3. CASE InsertUser(request.username, request.password)
    BY <1>0, <2>2, <2>3, Inserted
  <2>4. CASE UNCHANGED users
    BY <1>0, <2>4, ServerUnchanged DEF IInv, TypeOK, UniqueNames
  <2>5. QED BY <2>1, <2>3, <2>4
<1>2. AnswersTyped'
  BY <1>0 DEF IInv, AnswersTyped
<1>3. RefusedIsTaken'
  BY <1>0, <1>1, RefusedStays DEF IInv
<1>4. \A c \in Clients : Waits(c)
  BY <1>0 DEF Waits
<1>5. \A c \in Clients : FormOK(c)' /\ AnswerOK(c)' /\ SessionOK(c)'
  BY <1>1, <1>4, WaitingStays DEF IInv
<1>6. QED BY <1>1, <1>2, <1>3, <1>5 DEF IInv

LEMMA SocketStep ==
    ASSUME IInv, NEW c \in Clients, OpenWebSocket(c) \/ CloseWebSocket(c)
    PROVE  IInv'
<1>0. /\ UNCHANGED << users, tokens, issued, late, restarts, form, call, answer, identity, rejected >>
      /\ TypeOK /\ Len(users) \in Nat
  BY TokensType DEF OpenWebSocket, CloseWebSocket, server, IInv
<1>1. Grown
  BY <1>0, ServerUnchanged
<1>2. \/ opened' = [opened EXCEPT ![c] = 0]
      \/ /\ form[c].step = "Authenticated" /\ identity[c].token \in DOMAIN tokens
         /\ opened' = [opened EXCEPT ![c] = tokens[identity[c].token]]
  BY DEF OpenWebSocket, CloseWebSocket
<1>3. ASSUME form[c].step = "Authenticated", identity[c].token \in DOMAIN tokens
      PROVE  tokens[identity[c].token] = identity[c].user_id /\ identity[c].user_id \in 1 .. Len(users)
  BY <1>3, ClientFields DEF SessionOK, GivenFor
<1>4. /\ opened'[c] \in 0 .. Len(users) /\ opened' \in [Clients -> Nat]
      /\ opened'[c] # 0 => form[c].step = "Authenticated" /\ opened'[c] = identity[c].user_id
      /\ \A d \in Clients \ {c} : opened'[d] = opened[d]
  <2>1. CASE opened' = [opened EXCEPT ![c] = 0]
    <3>1. opened'[c] = 0 /\ 0 \in 0 .. Len(users)
      BY <1>0, <2>1, ClientFields
    <3>2. QED BY <2>1, <3>1, ClientFields
  <2>2. CASE /\ form[c].step = "Authenticated" /\ identity[c].token \in DOMAIN tokens
             /\ opened' = [opened EXCEPT ![c] = tokens[identity[c].token]]
    <3>1. identity[c].user_id \in 0 .. Len(users) /\ identity[c].user_id \in Nat
      BY <1>0, <1>3, <2>2
    <3>2. QED BY <1>3, <2>2, <3>1, ClientFields
  <2>3. QED BY <1>2, <2>1, <2>2
<1>5. \A d \in Clients \ {c} : Waits(d)
  BY <1>0, <1>4 DEF Waits
<1>6. TypeOK'
  BY <1>0, <1>4 DEF TypeOK
<1>7. AnswersTyped' /\ UniqueNames'
  BY <1>0, <1>4 DEF IInv, AnswersTyped, UniqueNames
<1>8. RefusedIsTaken'
  BY <1>0, <1>1, RefusedStays DEF IInv
<1>9. FormOK(c)' /\ AnswerOK(c)'
  BY <1>0, ClientFields DEF FormOK, AnswerOK, GivenFor, IdOf, Verified
<1>10. SessionOK(c)'
  BY <1>0, <1>4, ClientFields DEF SessionOK, GivenFor
<1>11. QED BY <1>1, <1>5, <1>6, <1>7, <1>8, <1>9, <1>10, OneActs DEF Each

(* A restart forgets the tokens and ends the sessions; what was answered     *)
(* before it can still arrive.                                               *)
LEMMA RestartStep == ASSUME IInv, Restart PROVE IInv'
<1>0. /\ UNCHANGED << users, issued, form, call, identity, rejected >>
      /\ TypeOK /\ AnswersTyped /\ Len(users) \in Nat /\ issued \in Nat
      /\ DOMAIN tokens' = {} /\ late' = {}
      /\ \A c \in Clients : opened'[c] = 0
  <2>1. DOMAIN << >> = {}
    BY EmptySeq, LenProperties
  <2>2. QED BY <2>1, TokensType DEF Restart, IInv
<1>1. Grown
  BY <1>0 DEF Grown
<1>2. /\ answer' \in [Clients -> AnswerType]
      /\ \A c \in Clients : answer'[c] \in {answer[c], Status("lost")}
      /\ \A c \in Clients : call[c] = "none" => answer'[c] = answer[c]
  BY <1>0, NobodyType DEF Restart, AnswersTyped
<1>3. TypeOK'
  <2>1. restarts' \in 0 .. MaxRestarts
    BY <1>0, AccountsAssumption DEF Restart, TypeOK
  <2>2. 0 \in 0 .. Len(users)
    BY <1>0
  <2>3. QED BY <1>0, <2>1, <2>2 DEF TypeOK
<1>4. AnswersTyped' /\ UniqueNames'
  <2>1. opened' \in [Clients -> Nat]
    BY DEF Restart
  <2>2. QED BY <1>0, <1>2, <2>1 DEF IInv, AnswersTyped, UniqueNames
<1>5. RefusedIsTaken'
  BY <1>0, <1>1, RefusedStays DEF IInv
<1>6. ASSUME NEW c \in Clients PROVE FormOK(c)' /\ AnswerOK(c)' /\ SessionOK(c)'
  <2>1. Status("lost").status = "lost"
    BY NobodyType
  <2>2. FormOK(c)'
    BY <1>0, <1>2, ClientFields DEF FormOK
  <2>3. AnswerOK(c)'
    <3>1. CASE answer'[c] = answer[c]
      BY <1>0, <3>1, ClientFields DEF AnswerOK, GivenFor, IdOf, Verified
    <3>2. CASE answer'[c] = Status("lost")
      BY <1>0, <2>1, <3>2, ClientFields DEF AnswerOK, IdOf
    <3>3. QED BY <1>2, <3>1, <3>2
  <2>4. SessionOK(c)'
    BY <1>0, ClientFields DEF SessionOK, GivenFor
  <2>5. QED BY <2>2, <2>3, <2>4
<1>7. QED BY <1>3, <1>4, <1>5, <1>6 DEF IInv

LEMMA NextIInv == IInv /\ [Next]_vars => IInv'
<1> SUFFICES ASSUME IInv, [Next]_vars PROVE IInv'
  OBVIOUS
<1>1. ASSUME NEW c \in Clients, CallFails(c) PROVE IInv'
  <2>1. Submitted(c) \in RequestType
    BY <1>1, ClientFields DEF CallFails, FormOK, Submitted, RequestType
  <2>2. TablesStay /\ UNCHANGED << identity, opened, rejected >>
    BY <1>1, <2>1 DEF CallFails, TablesStay, IInv, TypeOK
  <2>3. form[c].step # "Authenticated" /\ ResetAfterError(c)
    BY <1>1, ClientFields DEF CallFails
  <2>4. QED BY <2>2, <2>3, ResetStep
<1>2. CASE UNCHANGED vars
  <2>1. /\ UNCHANGED << users, tokens, issued, late, restarts, form, call, answer, identity, opened, rejected >>
    BY <1>2 DEF vars, client, server
  <2>2. \A c \in Clients : FormOK(c)' /\ AnswerOK(c)' /\ SessionOK(c)'
    BY <2>1 DEF IInv, FormOK, AnswerOK, SessionOK, GivenFor, IdOf, Verified
  <2>3. TypeOK' /\ AnswersTyped' /\ UniqueNames' /\ RefusedIsTaken'
    BY <2>1 DEF IInv, TypeOK, AnswersTyped, UniqueNames, RefusedIsTaken, IdOf, Verified
  <2>4. QED BY <2>2, <2>3 DEF IInv
<1>3. QED
  BY <1>1, <1>2, ChooseActionStep, EnterUsernameStep, EnterPasswordStep, QuitStep,
     RegisterAnsweredStep, LoginAnsweredStep, RegisterStep, LoginStep, ServeLateStep, SocketStep,
     RestartStep
  DEF Next, Serve, Receive

LEMMA InitIInv == Init => IInv
<1> SUFFICES ASSUME Init PROVE IInv
  OBVIOUS
<1>1. Len(<< >>) = 0 /\ DOMAIN << >> = {} /\ << >> \in Seq(Account)
  BY EmptySeq, LenProperties
<1>2. TypeOK
  <2>1. users \in Seq([username : Usernames, password_hash : Passwords])
    BY <1>1 DEF Init, Account
  <2>2. \A c \in Clients : form[c].step = "Submitting" <=> call[c] # "none"
    BY NewFormType DEF Init
  <2>3. QED BY <1>1, <2>1, <2>2, NewFormType, AccountsAssumption DEF Init, TypeOK
<1>3. AnswersTyped /\ UniqueNames
  BY <1>1, NobodyType DEF Init, AnswersTyped, UniqueNames
<1>4. RefusedIsTaken
  BY NewFormType DEF Init, RefusedIsTaken
<1>5. \A c \in Clients : FormOK(c) /\ AnswerOK(c) /\ SessionOK(c)
  BY NewFormType DEF Init, FormOK, AnswerOK, SessionOK
<1>6. QED BY <1>2, <1>3, <1>4, <1>5 DEF IInv

LEMMA Invariant == Spec => []IInv
BY InitIInv, NextIInv, PTL DEF Spec
-----------------------------------------------------------------------------
(* Every variable keeps its type, and a token is one that was issued.        *)
THEOREM TypeCorrect == Spec => []TypeOK
<1>1. IInv => TypeOK
  BY DEF IInv
<1>2. QED BY <1>1, Invariant, PTL

(* Whoever the client takes for its user owns the account: it registered the *)
(* name with this password, or knows the password of who did.                *)
THEOREM AuthenticatedOwnsTheAccount == Spec => []AuthenticatedOwnsAccount
<1>1. IInv => AuthenticatedOwnsAccount
  BY DEF IInv, SessionOK, GivenFor, AuthenticatedOwnsAccount
<1>2. QED BY <1>1, Invariant, PTL

(* A WebSocket runs under the user id its client was given at login, however *)
(* logins, restarts and reconnections interleave.                            *)
THEOREM SessionsBelongToOwners == Spec => []SessionOfOwner
<1>1. IInv => SessionOfOwner
  BY DEF IInv, SessionOK, SessionOfOwner
<1>2. QED BY <1>1, Invariant, PTL

(* A registration is refused in the end only for a name that somebody has    *)
(* with another password.                                                    *)
THEOREM OnlyTakenNamesRefused == Spec => []RefusedIsTaken
<1>1. IInv => RefusedIsTaken
  BY DEF IInv
<1>2. QED BY <1>1, Invariant, PTL
=============================================================================
