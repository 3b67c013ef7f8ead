------------------------------ MODULE Portals ------------------------------
(***************************************************************************)
(* The three portals beside the back office: suppliers (vendor_users),     *)
(* employees (employee_users) and customers (customer_users), how their    *)
(* accounts are opened, invited, approved and given a password, and the    *)
(* sessions of the browsers that use them.                                 *)
(*                                                                         *)
(* Handlers check and write in separate statements: desks holds what each  *)
(* request in progress has read.  A browser keeps its own refresh cookie   *)
(* and sends one request with it at a time.                                *)
(***************************************************************************)
EXTENDS Integers, FiniteSets, Sequences, FiniteSetsExt

CONSTANTS
    Emails, Class,      \* addresses; the portal each belongs to
    Desks,              \* account requests in progress at once
    Browsers,
    MaxMasters,         \* bound: vendors created by approvals
    MaxLinks,           \* bound: set-password links sent
    MaxSessions         \* bound: refresh tokens

VARIABLES
    accounts,   \* [status, password, master, link, fresh]; status "none": no row
    masters,    \* vendors, created by approvals
    links,      \* set-password links sent so far
    used,       \* history: links that have set a password
    leads,      \* crm_leads with the source 'Portal Signup', by address
    joined,     \* history: addresses whose sign-up was confirmed
    desks,      \* account requests in progress
    sessions,   \* refresh_tokens: [account, revoked, origin]; origin numbers the login
    browsers,   \* [cookie, badge, op, for, origin] of each browser
    begun,      \* history: logins
    served      \* history: the last account a portal request was served for, and as whom

vars == <<accounts, masters, links, used, leads, joined, desks, sessions, browsers, begun, served>>
opening == <<accounts, masters, links, used, leads, joined, desks>>
visiting == <<sessions, browsers, begun, served>>

NoAccount == [status |-> "none", password |-> FALSE, master |-> 0, link |-> 0, fresh |-> FALSE]
AtRest == [op |-> "rest"]
NewBrowser == [cookie |-> 0, badge |-> {}, op |-> "rest", for |-> {}, origin |-> 0]

Exists(u) == accounts[u].status # "none"

-----------------------------------------------------------------------------
(* Suppliers *)

(* register: UNIQUE(entity_id, email) refuses a second row *)
Register(u) ==
    /\ Class[u] = "Vendor" /\ ~Exists(u)
    /\ accounts' = [accounts EXCEPT ![u] = [NoAccount EXCEPT !.status = "pending", !.password = TRUE]]
    /\ UNCHANGED <<masters, links, used, leads, joined, desks>>

(* approve_application: the application is read and, unless the request    *)
(* names a vendor, one is created, whatever the status of the application; *)
StartApprove(d, u, named) ==
    /\ Class[u] = "Vendor" /\ Exists(u) /\ desks[d] = AtRest
    /\ named \in 0 .. masters
    /\ masters' = IF named = 0 THEN masters + 1 ELSE masters
    /\ masters' <= MaxMasters
    /\ desks' = [desks EXCEPT ![d] =
                    [op |-> "approve", for |-> u, master |-> IF named = 0 THEN masters + 1 ELSE named]]
    /\ UNCHANGED <<accounts, links, used, leads, joined>>

(* then the login is activated and linked. *)
FinishApprove(d) ==
    /\ desks[d].op = "approve"
    /\ accounts' = [accounts EXCEPT ![desks[d].for].status = "active",
                                    ![desks[d].for].master = desks[d].master]
    /\ desks' = [desks EXCEPT ![d] = AtRest]
    /\ UNCHANGED <<masters, links, used, leads, joined>>

(* reject_application *)
Reject(u) ==
    /\ Class[u] = "Vendor" /\ Exists(u)
    /\ accounts' = [accounts EXCEPT ![u].status = "rejected"]
    /\ UNCHANGED <<masters, links, used, leads, joined, desks>>

-----------------------------------------------------------------------------
(* Customers who sign up *)

(* register: the address is looked up, *)
StartSignup(d, u) ==
    /\ Class[u] = "Customer" /\ ~Exists(u) /\ desks[d] = AtRest
    /\ desks' = [desks EXCEPT ![d] = [op |-> "signup", for |-> u]]
    /\ UNCHANGED <<accounts, masters, links, used, leads, joined>>

(* then account and lead are inserted in one transaction, which the        *)
(* UNIQUE address undoes if someone else was faster.  The sign-up also     *)
(* opens a session; here it is the login that may follow.                  *)
FinishSignup(d) ==
    /\ desks[d].op = "signup"
    /\ LET u == desks[d].for
       IN  IF Exists(u)
           THEN UNCHANGED <<accounts, leads, joined>>
           ELSE /\ accounts' = [accounts EXCEPT ![u] =
                                    [NoAccount EXCEPT !.status = "active", !.password = TRUE]]
                /\ leads' = [leads EXCEPT ![u] = @ + 1]
                /\ joined' = joined \cup {u}
    /\ desks' = [desks EXCEPT ![d] = AtRest]
    /\ UNCHANGED <<masters, links, used>>

-----------------------------------------------------------------------------
(* Invitations and passwords *)

(* invite_ess and invite_customer look the address up; an employee is      *)
(* always named (master 1), a customer may be left unnamed (master 0);     *)
StartInvite(d, u, named, withPassword) ==
    /\ Class[u] # "Vendor" /\ desks[d] = AtRest
    /\ named = 0 => Class[u] = "Customer"
    /\ desks' = [desks EXCEPT ![d] = [op |-> "invite", for |-> u, known |-> Exists(u), master |-> named,
                                      password |-> withPassword]]
    /\ UNCHANGED <<accounts, masters, links, used, leads, joined>>

Invited(u, named, withPassword) ==
    [accounts[u] EXCEPT !.status = IF withPassword THEN "active" ELSE "invited",
                        !.password = @ \/ withPassword,
                        !.master = IF named = 0 THEN @ ELSE named]

(* they update or insert the account (an address taken meanwhile refuses   *)
(* the insertion), *)
StoreInvite(d) ==
    /\ desks[d].op = "invite"
    /\ LET q == desks[d]
           refused == ~q.known /\ Exists(q.for)
       IN  /\ accounts' = IF refused THEN accounts
                          ELSE [accounts EXCEPT ![q.for] = Invited(q.for, q.master, q.password)]
           /\ desks' = [desks EXCEPT ![d] = IF refused \/ q.password THEN AtRest
                                            ELSE [op |-> "link", for |-> q.for]]
    /\ UNCHANGED <<masters, links, used, leads, joined>>

(* and send a link when no password came with the invitation. *)
StoreLink(d) ==
    /\ desks[d].op = "link" /\ links < MaxLinks
    /\ links' = links + 1
    /\ accounts' = [accounts EXCEPT ![desks[d].for].link = links + 1, ![desks[d].for].fresh = TRUE]
    /\ desks' = [desks EXCEPT ![d] = AtRest]
    /\ UNCHANGED <<masters, used, leads, joined>>

(* forgot_password, whatever the status of the account *)
ForgotPassword(u) ==
    /\ Class[u] # "Vendor" /\ Exists(u) /\ links < MaxLinks
    /\ links' = links + 1
    /\ accounts' = [accounts EXCEPT ![u].link = links + 1, ![u].fresh = TRUE]
    /\ UNCHANGED <<masters, used, leads, joined, desks>>

(* set_token_expires passes; the row keeps the token *)
LinkExpires(u) ==
    /\ accounts[u].fresh
    /\ accounts' = [accounts EXCEPT ![u].fresh = FALSE]
    /\ UNCHANGED <<masters, links, used, leads, joined, desks>>

(* set_password looks the token up, *)
StartSetPassword(d, u) ==
    /\ accounts[u].fresh /\ desks[d] = AtRest
    /\ desks' = [desks EXCEPT ![d] = [op |-> "set", for |-> u, link |-> accounts[u].link]]
    /\ UNCHANGED <<accounts, masters, links, used, leads, joined>>

(* Mutation: the token is left to expire. *)
WithPasswordKeptLink(u) == [accounts[u] EXCEPT !.password = TRUE, !.status = "active"]

WithPassword(u) ==
    [accounts[u] EXCEPT !.password = TRUE, !.status = "active", !.link = 0, !.fresh = FALSE]

(* then updates the account by its id, whatever link it has by now. *)
FinishSetPassword(d) ==
    /\ desks[d].op = "set"
    /\ accounts' = [accounts EXCEPT ![desks[d].for] = WithPassword(desks[d].for)]
    /\ used' = used \cup {desks[d].link}
    /\ desks' = [desks EXCEPT ![d] = AtRest]
    /\ UNCHANGED <<masters, links, leads, joined>>

-----------------------------------------------------------------------------
(* Sessions *)

Live(t) == t # 0 /\ ~sessions[t].revoked

Revoked(t) == IF t = 0 THEN sessions ELSE [sessions EXCEPT ![t].revoked = TRUE]

(* a password that is right, and an active account *)
LoginAllowed(u) == accounts[u].password /\ accounts[u].status = "active"

(* login, for the three classes of account alike *)
StartLogin(b, u) ==
    /\ browsers[b].op = "rest" /\ LoginAllowed(u)
    /\ begun' = begun + 1
    /\ browsers' = [browsers EXCEPT ![b].op = "open", ![b].for = {u}, ![b].origin = begun + 1]
    /\ UNCHANGED <<sessions, served>>

(* issue_token_pair and store_refresh_token, after login and refresh *)
OpenSession(b) ==
    /\ browsers[b].op = "open" /\ Len(sessions) < MaxSessions
    /\ sessions' = Append(sessions, [account |-> browsers[b].for, revoked |-> FALSE, origin |-> browsers[b].origin])
    /\ browsers' = [browsers EXCEPT ![b] = [NewBrowser EXCEPT !.cookie = Len(sessions) + 1, !.badge = browsers[b].for]]
    /\ UNCHANGED <<begun, served>>

(* refresh: the cookie names a token of this portal that is not revoked, *)
StartRefresh(b) ==
    /\ browsers[b].op = "rest" /\ Live(browsers[b].cookie)
    /\ LET t == sessions[browsers[b].cookie]
       IN  browsers' = [browsers EXCEPT ![b].op = "rotate", ![b].for = t.account, ![b].origin = t.origin]
    /\ UNCHANGED <<sessions, begun, served>>

(* which is revoked before the next pair is stored. *)
Rotate(b) ==
    /\ browsers[b].op = "rotate"
    /\ sessions' = Revoked(browsers[b].cookie)
    /\ browsers' = [browsers EXCEPT ![b].op = "open"]
    /\ UNCHANGED <<begun, served>>

(* logout; the access token is only forgotten by the browser *)
Logout(b) ==
    /\ browsers[b].op = "rest" /\ browsers[b].cookie # 0
    /\ sessions' = Revoked(browsers[b].cookie)
    /\ browsers' = [browsers EXCEPT ![b] = NewBrowser]
    /\ UNCHANGED <<begun, served>>

(* VendorContext, StaffContext and CustomerContext read the account again  *)
(* on every request; only a customer need not be linked.                   *)
Admitted(u) ==
    /\ accounts[u].status = "active"
    /\ Class[u] = "Customer" \/ accounts[u].master # 0

(* a portal request, scoped to the master the account is linked to *)
Serve(b) ==
    /\ browsers[b].op = "rest"
    /\ \E u \in browsers[b].badge :
          /\ Admitted(u)
          /\ served' = [account |-> u, as |-> accounts[u].master, status |-> accounts[u].status]
    /\ UNCHANGED <<sessions, browsers, begun>>

-----------------------------------------------------------------------------
Init ==
    /\ accounts = [u \in Emails |-> NoAccount] /\ masters = 0 /\ links = 0 /\ used = {}
    /\ leads = [u \in Emails |-> 0] /\ joined = {}
    /\ desks = [d \in Desks |-> AtRest]
    /\ sessions = <<>> /\ browsers = [b \in Browsers |-> NewBrowser] /\ begun = 0
    /\ served = [account |-> "none", as |-> 0, status |-> "none"]

(* Requests about the account of one address, and visits with it *)
Opening(u) ==
    /\ \/ Register(u) \/ Reject(u) \/ ForgotPassword(u) \/ LinkExpires(u)
       \/ \E d \in Desks :
             \/ \E named \in 0 .. MaxMasters : StartApprove(d, u, named)
             \/ \E named \in {0, 1}, withPassword \in BOOLEAN : StartInvite(d, u, named, withPassword)
             \/ FinishApprove(d) \/ StartSignup(d, u) \/ FinishSignup(d)
             \/ StoreInvite(d) \/ StoreLink(d) \/ StartSetPassword(d, u) \/ FinishSetPassword(d)
    /\ UNCHANGED visiting

Visiting(u) ==
    /\ \E b \in Browsers :
          StartLogin(b, u) \/ OpenSession(b) \/ StartRefresh(b) \/ Rotate(b) \/ Logout(b) \/ Serve(b)
    /\ UNCHANGED opening

Attending(class) == \E u \in {e \in Emails : Class[e] = class} : Opening(u) \/ Visiting(u)

Supplying == Attending("Vendor")
Staffing == Attending("Employee")
Hosting == Attending("Customer")

Next == Supplying \/ Staffing \/ Hosting
Spec == Init /\ [][Next]_vars

-----------------------------------------------------------------------------
(* An account that awaits its holder always has a way in: the link of its  *)
(* invitation is stored, or the invitation is about to store it, in        *)
(* whatever order invitations, resets and set_password interleave.         *)
InvitedCanEnter ==
    \A u \in Emails : accounts[u].status = "invited" =>
        \/ accounts[u].link # 0
        \/ \E d \in DOMAIN desks : desks[d].op = "link" /\ desks[d].for = u

(* Single use: a link that has set a password is in no account any more.   *)
LinkSingleUse == \A u \in Emails : accounts[u].link \notin used

(* A customer who signed up is one lead for the sales team, and a refused  *)
(* sign-up leaves none, also when two requests use one address.            *)
SignupHasLead == \A u \in Emails : leads[u] = IF u \in joined THEN 1 ELSE 0

(* Rotation: a login never has two usable refresh tokens, however often    *)
(* and on whatever device its account is refreshed.                        *)
OneSessionPerLogin ==
    \A s, t \in DOMAIN sessions : sessions[s].origin = sessions[t].origin /\ Live(s) /\ Live(t) => s = t

(* An active supplier or employee has a record in the books to act under.  *)
ActiveIsLinked ==
    \A u \in Emails : accounts[u].status = "active" /\ Class[u] # "Customer" => accounts[u].master # 0

(* Inviting an account again never unlinks it from its customer, supplier  *)
(* or employee record.                                                     *)
LinkKept ==
    [][\A u \in Emails : accounts[u].master # 0 => accounts'[u].master # 0]_vars

(* A session outlives the rejection of its account, or a new invitation,   *)
(* but nothing is served to it until the account is active again.          *)
ServedWhileActive == served.status \in {"none", "active"}
=============================================================================
