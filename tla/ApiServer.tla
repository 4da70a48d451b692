----------------------------- MODULE ApiServer -----------------------------
(***************************************************************************)
(* Server processes that start beside one another on one database, and     *)
(* browser tabs that register, sign in, restore their session after a      *)
(* reload, and create shipments with what their token allows.              *)
(*                                                                         *)
(* A token is known by the tab it was issued to and the account it names;  *)
(* a password is right or wrong.  Each tab has a browser, and so a token   *)
(* store, of its own, and one form request at a time.                      *)
(***************************************************************************)
EXTENDS ShipmentIdAllocator

CONSTANTS
  Registered,   \* the accounts the database was restored with
  DemoAccounts, \* accounts every start makes sure of
  MaxStarts,    \* bound on the starts of processes
  MaxSent,      \* bound on what the tabs do
  MaxFaults     \* bound on what goes wrong

Roles == {"operator", "user"}

ASSUME ApiAssumption ==
  /\ Registered \cup DemoAccounts \subseteq [user : Authors, role : Roles]
  /\ \A a, b \in Registered : a.user = b.user => a = b
  /\ MaxStarts \in Nat /\ MaxSent \in Nat /\ MaxFaults \in Nat

VARIABLES
  accounts,   \* the stored accounts, and who created each
  valid,      \* the tokens the servers would accept
  boot,       \* per process, how far it has started
  starts,     \* processes started so far
  tab,        \* per tab, what it shows and the token it stores
  restoring,  \* per tab, the request that restores its session, or NULL
  form,       \* per tab, the login or registration under way, or NULL
  sent,       \* what the tabs did: reloads, forms, creations
  faults      \* what went wrong: failed calls, exits, tokens that expired

authVars == <<accounts, valid>>
tabVars == <<tab, restoring, form, sent>>
apiVars == <<allocatorVars, accounts, valid, boot, starts, tab, restoring, form, sent, faults>>

Anonymous == [status |-> "anonymous", user |-> NULL, token |-> NULL]

Off == [phase |-> "down", todo |-> {}, account |-> NULL]

Init ==
  /\ AllocatorInit
  /\ accounts = {[user |-> a.user, role |-> a.role, by |-> NULL] : a \in Registered}
  /\ valid = {}
  /\ boot = [i \in Instances |-> Off] /\ starts = 0
  /\ tab = [t \in Clients |-> Anonymous]
  /\ restoring = [t \in Clients |-> NULL]
  /\ form = [t \in Clients |-> NULL]
  /\ sent = 0 /\ faults = 0

Known(user) == \E a \in accounts : a.user = user

RoleOf(user) == (CHOOSE a \in accounts : a.user = user).role

PublicUser(user) == [user |-> user, role |-> RoleOf(user)]

Fault == faults < MaxFaults /\ faults' = faults + 1

Serving == \E i \in Instances : boot[i].phase = "listening"

-----------------------------------------------------------------------------
(* A process starts: identifiers, then demo accounts, then requests.       *)

Start(i) ==
  /\ boot[i].phase = "down" /\ starts < MaxStarts
  /\ starts' = starts + 1
  /\ boot' = [boot EXCEPT ![i] = [Off EXCEPT !.phase = "syncing"]]
  /\ StartSync(i)
  /\ UNCHANGED <<authVars, tabVars, faults>>

Synchronise(i) ==
  /\ boot[i].phase = "syncing"
  /\ (SyncStep(i) /\ UNCHANGED faults) \/ (FailSync(i) /\ Fault)
  /\ UNCHANGED <<boot, starts, authVars, tabVars>>

Boot(i, phase, todo, account) ==
  /\ boot' = [boot EXCEPT ![i] = [phase |-> phase, todo |-> todo, account |-> account]]
  /\ UNCHANGED <<allocatorVars, starts, valid, tabVars>>

BeginSeeding(i) ==
  /\ boot[i].phase = "syncing" /\ sync[i].phase = "idle"
  /\ Boot(i, "seeding", DemoAccounts, NULL)
  /\ UNCHANGED <<accounts, faults>>

(* An account that exists is left as it is.                                *)
LookForDemo(i) ==
  /\ boot[i].phase = "seeding"
  /\ \E a \in boot[i].todo :
       Boot(i, IF Known(a.user) THEN "seeding" ELSE "inserting", boot[i].todo \ {a}, a)
  /\ UNCHANGED <<accounts, faults>>

(* Mutant: an account is stored whether or not there is one.               *)
InsertOver(a, by) ==
  accounts' = {b \in accounts : b.user # a.user}
                \cup {[user |-> a.user, role |-> a.role, by |-> by]}

(* The unique index refuses a second account of the same name.             *)
InsertAccount(a, by) ==
  accounts' = IF Known(a.user) THEN accounts
              ELSE accounts \cup {[user |-> a.user, role |-> a.role, by |-> by]}

InsertDemo(i) ==
  /\ boot[i].phase = "inserting"
  /\ InsertAccount(boot[i].account, i)
  /\ Boot(i, "seeding", boot[i].todo, NULL)
  /\ UNCHANGED faults

(* A call fails, carried out or not: the account it was about is skipped,  *)
(* or, when it was to be looked for, all that are left.                    *)
FailSeeding(i) ==
  /\ Fault
  /\ \/ /\ boot[i].phase = "seeding" /\ boot[i].todo # {}
        /\ Boot(i, "seeding", {}, NULL)
        /\ UNCHANGED accounts
     \/ /\ boot[i].phase = "inserting"
        /\ Boot(i, "seeding", boot[i].todo, NULL)
        /\ InsertAccount(boot[i].account, i) \/ UNCHANGED accounts

Listen(i) ==
  /\ boot[i].phase = "seeding" /\ boot[i].todo = {}
  /\ Boot(i, "listening", {}, NULL)
  /\ UNCHANGED <<accounts, faults>>

(* A process stops, or dies wherever it is; requests go to the others.     *)
Exit(i) ==
  /\ boot[i].phase # "down"
  /\ boot' = [boot EXCEPT ![i] = Off]
  /\ sync' = [sync EXCEPT ![i] = Unsynchronised]
  /\ Fault
  /\ UNCHANGED <<counter, streams, creation, starts, authVars, tabVars>>

-----------------------------------------------------------------------------
(* What a token is good for.                                               *)

(* It is too old, or its secret was one process's own.                     *)
Expire(token) ==
  /\ token \in valid
  /\ valid' = valid \ {token}
  /\ Fault /\ UNCHANGED <<allocatorVars, accounts, boot, starts, tabVars>>

Verified(token) == Serving /\ token \in valid /\ Known(token.user)

(* Mutant: any account will do.                                            *)
AnyRole(token) == Verified(token)

(* Commands are for operators; the role is the stored one.                 *)
Authorised(token) == Verified(token) /\ RoleOf(token.user) = "operator"

Unmoved == UNCHANGED <<allocatorVars, boot, starts>>

(* One more thing the user does.                                           *)
Act == sent < MaxSent /\ sent' = sent + 1

(* A creation is sent, with the form or past it, and authorised.  (One that*)
(* is refused changes nothing, here or in the tab.)                        *)
SendCreation(t) ==
  /\ tab[t].token # NULL
  /\ Authorised([tab |-> t, user |-> tab[t].token])
  /\ \/ CreateUnnamed(t, tab[t].token)
     \/ \E id \in Ids : CreateNamed(t, tab[t].token, id)
  /\ Act
  /\ UNCHANGED <<boot, starts, authVars, tab, restoring, form, faults>>

Create(t) ==
  /\ (CreationStep(t) /\ UNCHANGED faults) \/ (FailCreation(t) /\ Fault)
  /\ UNCHANGED <<boot, starts, authVars, tabVars>>

-----------------------------------------------------------------------------
(* A tab's session.                                                        *)

(* The page is loaded again: what it was waiting for is forgotten, and with*)
(* a token it waits to learn who it is.                                    *)
Reload(t) ==
  /\ tab' = [tab EXCEPT ![t] = [Anonymous EXCEPT !.token = tab[t].token,
                                 !.status = IF tab[t].token = NULL THEN "anonymous"
                                            ELSE "pending"]]
  /\ restoring' = [restoring EXCEPT ![t] = IF tab[t].token = NULL THEN NULL
                                           ELSE [token |-> tab[t].token, reply |-> NULL]]
  /\ form' = [form EXCEPT ![t] = IF form[t] = NULL THEN NULL ELSE [@ EXCEPT !.heard = FALSE]]
  /\ Act /\ UNCHANGED authVars /\ Unmoved /\ UNCHANGED faults

AnswerMe(t) ==
  /\ restoring[t] # NULL /\ restoring[t].reply = NULL
  /\ LET token == [tab |-> t, user |-> restoring[t].token]
         reply == IF Verified(token)
                    THEN [status |-> 200, user |-> token.user, role |-> RoleOf(token.user)]
                    ELSE [status |-> 401]
     IN  \/ /\ Serving /\ UNCHANGED faults
            /\ restoring' = [restoring EXCEPT ![t].reply = reply]
         \/ /\ Fault
            /\ restoring' = [restoring EXCEPT ![t].reply = [status |-> 0]]
  /\ UNCHANGED <<sent, tab, form, authVars>> /\ Unmoved

(* A refused token is thrown away; without an answer it is kept.           *)
Restore(t) ==
  /\ restoring[t] # NULL /\ restoring[t].reply # NULL
  /\ LET reply == restoring[t].reply
     IN  tab' = [tab EXCEPT ![t] =
           IF reply.status = 200
             THEN [@ EXCEPT !.status = "authenticated",
                            !.user = [user |-> reply.user, role |-> reply.role]]
             ELSE [@ EXCEPT !.status = "anonymous", !.user = NULL,
                            !.token = IF reply.status = 401 THEN NULL
                                      ELSE tab[t].token]]
  /\ restoring' = [restoring EXCEPT ![t] = NULL]
  /\ UNCHANGED <<sent, form, authVars>> /\ Unmoved /\ UNCHANGED faults

(* Mutant: the form can be sent while the session is being restored.       *)
CanSignInEarly(t) == tab[t].status # "authenticated"

(* The sign-in form is there, and enabled.                                 *)
CanSignIn(t) == tab[t].status = "anonymous"

NewForm(kind, user, role, phase) ==
  [kind |-> kind, user |-> user, role |-> role, phase |-> phase, heard |-> TRUE]

SendLogin(t) ==
  /\ CanSignIn(t) /\ form[t] = NULL
  /\ \E user \in Authors : form' = [form EXCEPT ![t] = NewForm("login", user, NULL, "sent")]
  /\ Act /\ UNCHANGED <<tab, restoring, authVars>> /\ Unmoved /\ UNCHANGED faults

(* The registration form is not held back while a session is restored.     *)
SendRegistration(t) ==
  /\ tab[t].status # "authenticated" /\ form[t] = NULL
  /\ \E user \in Authors, role \in Roles :
       form' = [form EXCEPT ![t] = NewForm("register", user, role, "sent")]
  /\ Act /\ UNCHANGED <<tab, restoring, authVars>> /\ Unmoved /\ UNCHANGED faults

Answered(t, phase) == form' = [form EXCEPT ![t].phase = phase]

(* The password typed is the account's, or not; nobody's is nobody's.      *)
Passwords(user) == IF Known(user) THEN {"right", "wrong"} ELSE {"wrong"}

IssueToken(t, user) == valid' = valid \cup {[tab |-> t, user |-> user]}

(* The account is looked up and the password compared.                     *)
Login(t) ==
  /\ form[t] # NULL /\ form[t].kind = "login" /\ form[t].phase = "sent" /\ Serving
  /\ \E password \in Passwords(form[t].user) :
       IF password = "right" THEN IssueToken(t, form[t].user) /\ Answered(t, "accepted")
       ELSE Answered(t, "refused") /\ UNCHANGED valid
  /\ UNCHANGED <<sent, tab, restoring, accounts>> /\ Unmoved /\ UNCHANGED faults

CheckUsername(t) ==
  /\ form[t] # NULL /\ form[t].kind = "register" /\ form[t].phase = "sent" /\ Serving
  /\ Answered(t, IF Known(form[t].user) THEN "refused" ELSE "hashed")
  /\ UNCHANGED <<sent, tab, restoring, authVars>> /\ Unmoved /\ UNCHANGED faults

Register(t) ==
  /\ form[t] # NULL /\ form[t].kind = "register" /\ form[t].phase = "hashed"
  /\ Answered(t, IF Known(form[t].user) THEN "refused" ELSE "accepted")
  /\ InsertAccount(form[t], t)
  /\ UNCHANGED <<sent, tab, restoring, valid>> /\ Unmoved /\ UNCHANGED faults

(* The call fails, carried out or not.                                     *)
FailForm(t) ==
  /\ form[t] # NULL /\ form[t].phase \in {"sent", "hashed"}
  /\ Answered(t, "refused")
  /\ IF form[t].phase = "hashed" THEN InsertAccount(form[t], t) \/ UNCHANGED accounts
     ELSE UNCHANGED accounts
  /\ UNCHANGED <<sent, tab, restoring, valid>> /\ Unmoved /\ Fault

(* The answer arrives.  Registration does not sign in.                     *)
Adopt(t) ==
  /\ form[t] # NULL /\ form[t].phase \in {"accepted", "refused"}
  /\ tab' = [tab EXCEPT ![t] =
       IF form[t].heard /\ form[t].kind = "login" /\ form[t].phase = "accepted"
         THEN [status |-> "authenticated", user |-> PublicUser(form[t].user),
               token |-> form[t].user]
         ELSE @]
  /\ form' = [form EXCEPT ![t] = NULL]
  /\ UNCHANGED <<sent, restoring, authVars>> /\ Unmoved /\ UNCHANGED faults

Logout(t) ==
  /\ tab[t].status = "authenticated"
  /\ tab' = [tab EXCEPT ![t] = Anonymous]
  /\ UNCHANGED <<sent, restoring, form, authVars>> /\ Unmoved /\ UNCHANGED faults

-----------------------------------------------------------------------------
Process(i) ==
  \/ Start(i) \/ Synchronise(i) \/ BeginSeeding(i) \/ LookForDemo(i) \/ InsertDemo(i)
  \/ FailSeeding(i) \/ Listen(i) \/ Exit(i)

Session(t) ==
  \/ Reload(t) \/ AnswerMe(t) \/ Restore(t) \/ SendLogin(t) \/ SendRegistration(t)
  \/ Login(t) \/ CheckUsername(t) \/ Register(t) \/ FailForm(t) \/ Adopt(t) \/ Logout(t)

Next ==
  \/ \E i \in Instances : Process(i)
  \/ \E t \in Clients : SendCreation(t) \/ Create(t) \/ Session(t)
  \/ \E token \in valid : Expire(token)

Spec == Init /\ [][Next]_apiVars

-----------------------------------------------------------------------------
(* Properties.                                                             *)

(* However registrations and starting processes race, a name has one       *)
(* account, and whoever is told "created" has it, with the role asked for. *)
OneAccount ==
  /\ \A a, b \in accounts : a.user = b.user => a = b
  /\ \A t \in Clients :
       form[t] # NULL /\ form[t].kind = "register" /\ form[t].phase = "accepted" =>
         [user |-> form[t].user, role |-> form[t].role, by |-> t] \in accounts

(* A tab that shows someone signed in sends that account's token, and shows*)
(* the role stored for it, whatever answers were late.                     *)
IdentityShown ==
  \A t \in Clients : tab[t].status = "authenticated" =>
    /\ tab[t].token = tab[t].user.user
    /\ Known(tab[t].token) /\ RoleOf(tab[t].token) = tab[t].user.role

(* Every shipment created through the interface is recorded for an account *)
(* that is an operator's.                                                  *)
WritesAreByOperators ==
  \A s \in streams : s.by # NULL => Known(s.by) /\ RoleOf(s.by) = "operator"
=============================================================================
