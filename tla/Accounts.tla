------------------------------ MODULE Accounts ------------------------------
(***************************************************************************)
(* The API's requests about one e-mail address: its registration, the      *)
(* verification codes, the tasks of its account with their limit and their *)
(* dedup keys, and the end of the account.                                 *)
(*                                                                         *)
(* A request is a sequence of statements in MySQL, commands in Redis and   *)
(* mails, with nothing held in between: each is a step.  Request handlers  *)
(* keep what they have read, and Save writes the whole row back.  A reply  *)
(* that changes nothing (409, 429, 401, a wrong code) is left out.         *)
(*                                                                         *)
(* External: gorm's Save inserts a row that is gone, and updates the row   *)
(* that has the e-mail address now if there is one; the foreign key of     *)
(* tasks, which AutoMigrate creates, refuses a task without its user and   *)
(* the deletion of a user with tasks.                                      *)
(***************************************************************************)
EXTENDS Naturals, FiniteSets

CONSTANTS Request,    \* the requests that are served at a time
          Url,        \* the searches, as buildDedupURL tells them apart
          MaxTasks,   \* App.MaxTasksPerUser
          MaxUser, MaxTask, MaxCode,  \* bounds: rows and codes ever created
          MaxFaults   \* bound: failing statements, commands and mails

ASSUME AccountsAssumption ==
    /\ Request # {} /\ IsFiniteSet(Request)
    /\ MaxTasks \in Nat \ {0}
    /\ MaxUser \in Nat /\ MaxTask \in Nat /\ MaxCode \in Nat /\ MaxFaults \in Nat

VARIABLES user,     \* the row of users with this e-mail address
          tasks,    \* the rows of tasks
          keys,     \* the dedup keys in Redis
          tokens,   \* the users for whom a JWT was issued
          inbox,    \* the codes that were delivered
          req,      \* what each request is doing
          users, ids, codes,  \* how many rows and codes were created
          lapsed,   \* history: the searches that lost the protection of their key
          faults

mailVars == <<inbox, codes>>
taskVars == <<tasks, ids, keys, lapsed>>
vars     == <<user, users, tokens, mailVars, taskVars, req, faults>>

NoUser == [id |-> 0]
NoCode == 0
NoTask == [owner |-> 0]
UserId == 1..MaxUser
TaskId == 1..MaxTask

\* A row of users; recent: the last code is less than a minute old.
Row(id, verified, code, recent) ==
    [id |-> id, verified |-> verified, code |-> code, recent |-> recent]

UserRow ==
    [id : UserId, verified : {FALSE}, code : 0..MaxCode, recent : BOOLEAN] \cup
    [id : UserId, verified : {TRUE}, code : {NoCode}, recent : {FALSE}]

Idle == [phase |-> "idle"]

RequestState ==
    [phase : {"idle", "create"}] \cup
    [phase : {"issue"}, id : UserId, fresh : BOOLEAN] \cup
    [phase : {"mail"}, id : UserId, fresh : BOOLEAN, code : 1..MaxCode] \cup
    [phase : {"undo", "verify"}, id : UserId] \cup
    [phase : {"dedup", "insert"}, id : UserId, url : Url] \cup
    [phase : {"delete", "free"}, task : TaskId, url : Url]

TypeOK ==
    /\ user \in UserRow \cup {NoUser}
    /\ tasks \in [TaskId -> [owner : UserId, url : Url] \cup {NoTask}]
    /\ keys \in SUBSET Url
    /\ tokens \in SUBSET UserId
    /\ inbox \in SUBSET (1..MaxCode)
    /\ req \in [Request -> RequestState]
    /\ users \in 0..MaxUser /\ ids \in 0..MaxTask /\ codes \in 0..MaxCode
    /\ lapsed \in SUBSET Url
    /\ faults \in 0..MaxFaults

Init ==
    /\ user = NoUser
    /\ tasks = [t \in TaskId |-> NoTask]
    /\ keys = {} /\ tokens = {} /\ inbox = {} /\ lapsed = {}
    /\ req = [r \in Request |-> Idle]
    /\ users = 0 /\ ids = 0 /\ codes = 0 /\ faults = 0

Goto(r, state) == req' = [req EXCEPT ![r] = state]

Done(r) == Goto(r, Idle)

Fail == faults < MaxFaults /\ faults' = faults + 1

\* gorm's Save: the whole row, inserted anew if it is gone.
Save(id, verified, code, recent) ==
    user' = Row(IF user = NoUser THEN id ELSE user.id, verified, code, recent)

TasksOf(id) == {t \in TaskId : tasks[t].owner = id}

-----------------------------------------------------------------------------
(* auth.go: registration *)

\* Register reads the row: none, or one that waits for its code.
Register(r) ==
    /\ req[r] = Idle
    /\ \/ user = NoUser /\ Goto(r, [phase |-> "create"])
       \/ /\ user # NoUser /\ ~user.verified
          /\ Goto(r, [phase |-> "issue", id |-> user.id, fresh |-> FALSE])
    /\ UNCHANGED <<user, users, tokens, mailVars, taskVars, faults>>

\* The insertion, which fails if the address has a row by now.
CreateUser(r) ==
    /\ req[r].phase = "create"
    /\ \/ /\ user = NoUser /\ users < MaxUser
          /\ user' = Row(users + 1, FALSE, NoCode, FALSE)
          /\ users' = users + 1
          /\ Goto(r, [phase |-> "issue", id |-> users + 1, fresh |-> TRUE])
          /\ UNCHANGED faults
       \/ user # NoUser /\ Done(r) /\ UNCHANGED <<user, users, faults>>
       \/ Fail /\ Done(r) /\ UNCHANGED <<user, users>>
    /\ UNCHANGED <<tokens, mailVars, taskVars>>

\* ResendCode reads the row; another code within a minute is refused.
ResendCode(r) ==
    /\ req[r] = Idle
    /\ user # NoUser
    /\ ~user.verified /\ ~user.recent
    /\ Goto(r, [phase |-> "issue", id |-> user.id, fresh |-> FALSE])
    /\ UNCHANGED <<user, users, tokens, mailVars, taskVars, faults>>

\* Mutant: a row is deleted whenever its code could not be sent.
GiveUpAlways(r) == Goto(r, [phase |-> "undo", id |-> req[r].id])

\* issueCode has failed: Register takes back the row that it has created.
GiveUp(r) ==
    IF req[r].fresh THEN Goto(r, [phase |-> "undo", id |-> req[r].id]) ELSE Done(r)

\* issueCode saves the row as it was read, unverified, with a new code.
IssueCode(r) ==
    /\ req[r].phase = "issue"
    /\ codes < MaxCode
    /\ codes' = codes + 1
    /\ \/ /\ Save(req[r].id, FALSE, codes + 1, TRUE)
          /\ Goto(r, [phase |-> "mail", id |-> req[r].id, fresh |-> req[r].fresh,
                      code |-> codes + 1])
          /\ UNCHANGED faults
       \/ Fail /\ GiveUp(r) /\ UNCHANGED user
    /\ UNCHANGED <<users, tokens, inbox, taskVars>>

\* SendVerificationCode.
MailCode(r) ==
    /\ req[r].phase = "mail"
    /\ \/ inbox' = inbox \cup {req[r].code} /\ Done(r) /\ UNCHANGED faults
       \/ Fail /\ GiveUp(r) /\ UNCHANGED inbox
    /\ UNCHANGED <<user, users, tokens, codes, taskVars>>

\* Delete(&user), whose error is ignored.
UndoCreate(r) ==
    /\ req[r].phase = "undo"
    /\ \/ user.id = req[r].id /\ TasksOf(user.id) = {} /\ user' = NoUser /\ UNCHANGED faults
       \/ (user.id # req[r].id \/ TasksOf(user.id) # {}) /\ UNCHANGED <<user, faults>>
       \/ Fail /\ UNCHANGED user
    /\ Done(r)
    /\ UNCHANGED <<users, tokens, mailVars, taskVars>>

-----------------------------------------------------------------------------
(* auth.go: verification and login *)

\* VerifyEmail reads the row; the code that was delivered is the one in it.
VerifyEmail(r) ==
    /\ req[r] = Idle
    /\ user # NoUser
    /\ ~user.verified /\ user.code \in inbox
    /\ Goto(r, [phase |-> "verify", id |-> user.id])
    /\ UNCHANGED <<user, users, tokens, mailVars, taskVars, faults>>

\* Mutant: the code stays valid.
SaveVerifiedOnly(r) ==
    /\ req[r].phase = "verify"
    /\ user # NoUser /\ Save(req[r].id, TRUE, user.code, FALSE)
    /\ Done(r)
    /\ UNCHANGED <<users, tokens, mailVars, taskVars, faults>>

SaveVerified(r) ==
    /\ req[r].phase = "verify"
    /\ \/ Save(req[r].id, TRUE, NoCode, FALSE) /\ UNCHANGED faults
       \/ Fail /\ UNCHANGED user
    /\ Done(r)
    /\ UNCHANGED <<users, tokens, mailVars, taskVars>>

Login ==
    /\ user # NoUser
    /\ user.verified
    /\ tokens' = tokens \cup {user.id}
    /\ UNCHANGED <<user, users, mailVars, taskVars, req, faults>>

\* Ten minutes and the minute pass: an expired code is as good as none.
CodeExpires ==
    /\ user # NoUser
    /\ \/ user.code # NoCode /\ user' = Row(user.id, user.verified, NoCode, FALSE)
       \/ user.recent /\ user' = Row(user.id, user.verified, user.code, FALSE)
    /\ UNCHANGED <<users, tokens, mailVars, taskVars, req, faults>>

-----------------------------------------------------------------------------
(* server.go: tasks *)

\* AuthMiddleware believes a token, whatever has become of its user.
Authenticated(id) == id \in tokens

\* The search has a task, or a request that has the key and is about to insert one.
Claimed(url) ==
    \/ \E t \in TaskId : tasks[t] # NoTask /\ tasks[t].url = url
    \/ \E r \in Request : req[r].phase = "insert" /\ req[r].url = url

\* Mutant: one task too many.
CountOneMore(r, id, url) ==
    /\ req[r] = Idle
    /\ Authenticated(id)
    /\ Cardinality(TasksOf(id)) <= MaxTasks
    /\ Goto(r, [phase |-> "dedup", id |-> id, url |-> url])
    /\ UNCHANGED <<user, users, tokens, mailVars, taskVars, faults>>

\* handleCreateTask counts the tasks.
CountTasks(r, id, url) ==
    /\ req[r] = Idle
    /\ Authenticated(id)
    /\ Cardinality(TasksOf(id)) < MaxTasks
    /\ Goto(r, [phase |-> "dedup", id |-> id, url |-> url])
    /\ UNCHANGED <<user, users, tokens, mailVars, taskVars, faults>>

Insert(r) == Goto(r, [phase |-> "insert", id |-> req[r].id, url |-> req[r].url])

\* IsDuplicate, SETNX: a duplicate is skipped, an error ignored.  A task of unknown type
\* is refused only now.
IsDuplicate(r) ==
    /\ req[r].phase = "dedup"
    /\ LET url == req[r].url
       IN \/ url \in keys /\ Done(r) /\ UNCHANGED <<keys, lapsed, faults>>
          \/ /\ url \notin keys /\ keys' = keys \cup {url}
             /\ Insert(r) \/ Done(r)
             /\ UNCHANGED <<lapsed, faults>>
          \/ /\ Fail /\ keys' \in {keys, keys \cup {url}}
             /\ lapsed' = lapsed \cup {url}
             /\ Insert(r)
    /\ UNCHANGED <<user, users, tokens, mailVars, tasks, ids>>

\* CreateTask; the foreign key wants the user.  A failure leaves the key behind.
CreateTask(r) ==
    /\ req[r].phase = "insert"
    /\ \/ /\ user.id = req[r].id /\ ids < MaxTask
          /\ tasks' = [tasks EXCEPT ![ids + 1] =
                          [owner |-> req[r].id, url |-> req[r].url]]
          /\ ids' = ids + 1 /\ UNCHANGED faults
       \/ user.id # req[r].id /\ UNCHANGED <<tasks, ids, faults>>
       \/ Fail /\ UNCHANGED <<tasks, ids>>
    /\ Done(r)
    /\ UNCHANGED <<user, users, tokens, mailVars, keys, lapsed>>

\* handleUpdateTask: another search, and no word to the dedup keys.
UpdateTask(id, t, url) ==
    /\ Authenticated(id)
    /\ tasks[t].owner = id
    /\ tasks[t].url # url
    /\ tasks' = [tasks EXCEPT ![t] = [owner |-> id, url |-> url]]
    /\ lapsed' = lapsed \cup {url}
    /\ UNCHANGED <<user, users, tokens, mailVars, ids, keys, req, faults>>

\* Mutant: handleDeleteTask frees the search at once.
FreeFirst(r, id, t) ==
    /\ req[r] = Idle
    /\ Authenticated(id)
    /\ tasks[t].owner = id
    /\ keys' = keys \ {tasks[t].url}
    /\ Goto(r, [phase |-> "delete", task |-> t, url |-> tasks[t].url])
    /\ UNCHANGED <<user, users, tokens, mailVars, tasks, ids, lapsed, faults>>

\* handleDeleteTask reads the search ...
DeleteTask(r, id, t) ==
    /\ req[r] = Idle
    /\ Authenticated(id)
    /\ tasks[t].owner = id
    /\ Goto(r, [phase |-> "delete", task |-> t, url |-> tasks[t].url])
    /\ UNCHANGED <<user, users, tokens, mailVars, taskVars, faults>>

\* ... deletes the row, which may be gone ...
DeleteRow(r) ==
    /\ req[r].phase = "delete"
    /\ \/ /\ tasks' = [tasks EXCEPT ![req[r].task] = NoTask]
          /\ Goto(r, [phase |-> "free", task |-> req[r].task, url |-> req[r].url])
          /\ UNCHANGED faults
       \/ Fail /\ Done(r) /\ UNCHANGED tasks
    /\ UNCHANGED <<user, users, tokens, mailVars, ids, keys, lapsed>>

\* DEL or the expiry of a key.
DropKey(url) ==
    /\ keys' = keys \ {url}
    /\ lapsed' = IF Claimed(url) THEN lapsed \cup {url} ELSE lapsed

\* ... and then the key of the search that it has read.
FreeUrl(r) ==
    /\ req[r].phase = "free"
    /\ \/ DropKey(req[r].url) /\ UNCHANGED faults
       \/ Fail /\ UNCHANGED <<keys, lapsed>>
    /\ Done(r)
    /\ UNCHANGED <<user, users, tokens, mailVars, tasks, ids>>

\* APP_DEDUP_WINDOW seconds after SETNX.
KeyExpires(url) ==
    /\ url \in keys
    /\ DropKey(url)
    /\ UNCHANGED <<user, users, tokens, mailVars, tasks, ids, req, faults>>

\* handleDeleteAccount, a transaction; the keys of the tasks stay.
DeleteAccount(id) ==
    /\ Authenticated(id)
    /\ tasks' = [t \in TaskId |-> IF tasks[t].owner = id THEN NoTask ELSE tasks[t]]
    /\ user' = IF user.id = id THEN NoUser ELSE user
    /\ UNCHANGED <<users, tokens, mailVars, ids, keys, lapsed, req, faults>>

-----------------------------------------------------------------------------
AuthStep(r) ==
    \/ Register(r) \/ CreateUser(r) \/ ResendCode(r) \/ IssueCode(r) \/ MailCode(r)
    \/ UndoCreate(r) \/ VerifyEmail(r) \/ SaveVerified(r)

TaskStep(r) ==
    \/ \E id \in UserId, url \in Url : CountTasks(r, id, url)
    \/ IsDuplicate(r) \/ CreateTask(r)
    \/ \E id \in UserId, t \in TaskId : DeleteTask(r, id, t)
    \/ DeleteRow(r) \/ FreeUrl(r)

Next ==
    \/ \E r \in Request : AuthStep(r) \/ TaskStep(r)
    \/ Login \/ CodeExpires
    \/ \E id \in UserId, t \in TaskId, url \in Url : UpdateTask(id, t, url)
    \/ \E id \in UserId : DeleteAccount(id)
    \/ \E url \in Url : KeyExpires(url)

Spec == Init /\ [][Next]_vars

-----------------------------------------------------------------------------
(* Properties *)

\* The limit is read before the insertion and nothing holds it in between: an account
\* has at most as many tasks too many as there were other requests at the same time.
TaskLimit ==
    \A id \in UserId :
        Cardinality(TasksOf(id)) <= MaxTasks + Cardinality(Request) - 1

\* Two tasks for one search are there only if its key was lost to its expiry, to a
\* failing SETNX, to a task that was changed to this search, or to a deletion whose DEL
\* comes when the search is in use again; not through requests that race for the key,
\* nor through a deletion that overtakes a creation.
OneTaskPerSearch ==
    \A t, u \in TaskId :
        tasks[t] # NoTask /\ tasks[u] # NoTask /\ tasks[t].url = tasks[u].url /\ t # u
            => tasks[t].url \in lapsed

\* A request that may write an unverified row, or delete one, from what it read before.
Unsettled(r) ==
    \/ req[r].phase \in {"issue", "undo"}
    \/ req[r].phase = "mail" /\ req[r].fresh

Settled == user # NoUser /\ user.verified /\ \A r \in Request : ~Unsettled(r)

\* A verification may be undone by the Save of a request for a code, or the account be
\* deleted by a registration whose mail failed, but only by one that began before: once
\* those have ended, an account is verified until it is deleted.
VerificationSticks ==
    [][Settled => Settled' \/ \E id \in UserId : DeleteAccount(id)]_vars
=============================================================================
