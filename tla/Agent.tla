------------------------------- MODULE Agent --------------------------------
(***************************************************************************)
(* AMOS, the assistant: one session with its tool calls and the user's     *)
(* confirmation of postings, the work plan it is nudged along, the         *)
(* scheduled routines, and the long-term memory.  The model that decides   *)
(* which tools to call, and the ERP behind them, are external.             *)
(*                                                                         *)
(* A tool call runs in a task of its own under a deadline; the wait for    *)
(* the user inside it has a deadline of the same length.                   *)
(***************************************************************************)
EXTENDS Integers, FiniteSets, Sequences

CONSTANTS
    Calls,          \* tool calls of the session
    Principals,     \* who may hold a token: [user, entity, role, fresh]
    ServedEntity,
    MaxNudges,      \* auto_continues
    Cron,           \* routine -> minutes its schedule names
    LastMinute,     \* bound
    MaxRuns,        \* bound: rows of the ops ledger
    MaxDowns,       \* bound: restarts
    Texts, Skills,
    SearchLimit,    \* how many memories a search for duplicates returns
    MaxMemories     \* bound

VARIABLES
    seat,           \* the session's principal: [open, user, role]
    credential,     \* what its bearer file holds: [user, role]
    calls,          \* call -> [tool, phase, told]
    pleas,          \* Confirmations.pending
    box,            \* what was sent to the call that waits
    clicks,         \* history: the user's click on the card of a call
    performed,      \* history: what the ERP did: [call, user, role]
    trail,          \* the audit sink
    plan,           \* the tasks' statuses
    nudges,         \* [left, asleep, sent]
    minute,
    lastTick,
    scan,           \* the tick in progress
    muted,          \* paused routines
    running,        \* the skip-concurrency guard
    flights,        \* runs in progress: [routine, row, phase]
    logs,           \* amos_runs: [routine, status]
    fired,          \* history: <<routine, minute>> the schedule dealt with
    downs,          \* history: restarts
    memories,       \* rows: [id, kind, text, project]
    learner,        \* what a remember in progress has found
    crowded         \* history: a search had more to return than its limit

gate == <<seat, credential, calls, pleas, box, clicks, performed, trail>>
work == <<plan, nudges>>
ops == <<minute, lastTick, scan, muted, running, flights, logs, fired, downs>>
recall == <<memories, learner, crowded>>
vars == <<seat, credential, calls, pleas, box, clicks, performed, trail, plan, nudges, minute,
          lastTick, scan, muted, running, flights, logs, fired, downs, memories, learner, crowded>>

-----------------------------------------------------------------------------
(* Who may do what *)

ExternalPortalRoles == {"Vendor", "Employee", "Customer"}

(* TokenVerifier::verify *)
Verified(p) ==
    p.fresh /\ p.entity = ServedEntity /\ p.role \notin ExternalPortalRoles

(* Principal::scopes *)
Scopes(role) ==
    {"erp:read"}
    \cup (IF role \in {"Owner", "Admin", "Accountant"} THEN {"erp:write", "ledger:post"} ELSE {})
    \cup (IF role \in {"Approver", "Editor"} THEN {"erp:write"} ELSE {})

(* required_scopes, one tool for each class *)
RequiredScopes(tool) ==
    CASE tool = "post_invoice" -> {"ledger:post"}
      [] tool = "create_invoice_draft" -> {"erp:write"}
      [] tool = "get_invoice" -> {"erp:read"}

Tools == {"post_invoice", "create_invoice_draft", "get_invoice"}

Vacant == [open |-> FALSE, user |-> "none", role |-> "none"]

(* handle_ws, the identity gate: no session without a verified token *)
Connect(p) ==
    /\ seat = Vacant /\ Verified(p)
    /\ seat' = [open |-> TRUE, user |-> p.user, role |-> p.role]
    /\ credential' = [user |-> p.user, role |-> p.role]
    /\ UNCHANGED <<calls, pleas, box, clicks, performed, trail, work, ops, recall>>

(* A context frame brings the token that replaces an expiring one. *)
Context(p) ==
    /\ seat.open /\ Verified(p)
    /\ p.user = seat.user /\ p.role = seat.role
    /\ credential' = [user |-> p.user, role |-> p.role]
    /\ UNCHANGED <<seat, calls, pleas, box, clicks, performed, trail, work, ops, recall>>

(* The bearer outlives its fifteen minutes. *)
Expire ==
    /\ seat.open /\ credential.user # "none"
    /\ credential' = [user |-> "none", role |-> "none"]
    /\ UNCHANGED <<seat, calls, pleas, box, clicks, performed, trail, work, ops, recall>>

Close ==
    /\ seat.open
    /\ seat' = [seat EXCEPT !.open = FALSE]
    /\ UNCHANGED <<credential, calls, pleas, box, clicks, performed, trail, work, ops, recall>>

-----------------------------------------------------------------------------
(* Tool calls *)

Ended(c, told) == [calls EXCEPT ![c].phase = "ended", ![c].told = told]
Record(c, outcome) == trail \cup {<<c, outcome>>}

(* ScopedTool::execute: refused, sent on, or held until the user agrees *)
Dispatch(c, tool) ==
    /\ seat.open /\ calls[c].phase = "idle"
    /\ LET allowed == RequiredScopes(tool) \subseteq Scopes(seat.role)
           held == "ledger:post" \in RequiredScopes(tool)
       IN  /\ calls' = [calls EXCEPT ![c] =
                          [tool |-> tool,
                           phase |-> IF ~allowed THEN "ended" ELSE IF held THEN "waiting" ELSE "sent",
                           told |-> IF allowed THEN "nothing" ELSE "denied"]]
           /\ pleas' = IF allowed /\ held THEN pleas \cup {c} ELSE pleas
           /\ trail' = IF allowed /\ held THEN trail
                       ELSE Record(c, IF allowed THEN "Allowed" ELSE "Denied")
    /\ UNCHANGED <<seat, credential, box, clicks, performed, work, ops, recall>>

(* Mutation: a click answers whatever waits. *)
ResolveAll(c, approve) ==
    /\ seat.open /\ clicks[c] = "none" /\ calls[c].tool = "post_invoice"
    /\ clicks' = [clicks EXCEPT ![c] = IF approve THEN "approve" ELSE "deny"]
    /\ pleas' = {}
    /\ box' = [d \in Calls |-> IF d \in pleas /\ calls[d].phase = "waiting"
                               THEN (IF approve THEN "yes" ELSE "no") ELSE box[d]]
    /\ UNCHANGED <<seat, credential, calls, performed, trail, work, ops, recall>>

(* Confirmations::resolve, for a card that may be stale by now *)
Resolve(c, approve) ==
    /\ seat.open /\ clicks[c] = "none" /\ calls[c].tool = "post_invoice"
    /\ clicks' = [clicks EXCEPT ![c] = IF approve THEN "approve" ELSE "deny"]
    /\ pleas' = pleas \ {c}
    /\ box' = IF c \in pleas /\ calls[c].phase = "waiting"
              THEN [box EXCEPT ![c] = IF approve THEN "yes" ELSE "no"] ELSE box
    /\ UNCHANGED <<seat, credential, calls, performed, trail, work, ops, recall>>

(* confirm_with_user returns with the answer; *)
Answered(c) ==
    /\ calls[c].phase = "waiting" /\ box[c] # "none"
    /\ calls' = IF box[c] = "yes" THEN [calls EXCEPT ![c].phase = "sent"] ELSE Ended(c, "declined")
    /\ trail' = Record(c, IF box[c] = "yes" THEN "Allowed" ELSE "Denied")
    /\ UNCHANGED <<seat, credential, pleas, box, clicks, performed, work, ops, recall>>

(* or without one, and the request is forgotten. *)
Unanswered(c) ==
    /\ calls[c].phase = "waiting" /\ box[c] = "none"
    /\ calls' = Ended(c, "late")
    /\ pleas' = pleas \ {c}
    /\ trail' = Record(c, "Denied")
    /\ UNCHANGED <<seat, credential, box, clicks, performed, work, ops, recall>>

(* The ERP acts under the bearer it reads, also for a call that was given  *)
(* up after it was sent.  The file is gone once nobody holds the session.  *)
Perform(c) ==
    /\ calls[c].phase \in {"sent", "adrift"}
    /\ LET there == /\ credential.user # "none"
                    /\ seat.open \/ \E d \in Calls : calls[d].phase \in {"waiting", "sent"}
       IN  performed' = IF there THEN performed \cup {[call |-> c, user |-> credential.user,
                                                       role |-> credential.role]}
                        ELSE performed
    /\ calls' = IF calls[c].phase = "sent" THEN Ended(c, "result") ELSE [calls EXCEPT ![c].phase = "ended"]
    /\ UNCHANGED <<seat, credential, pleas, box, clicks, trail, work, ops, recall>>

(* The deadline of the dispatch drops the call where it stands, and leaves *)
(* its request pending.                                                    *)
Deadline(c) ==
    /\ calls[c].phase \in {"waiting", "sent"}
    /\ calls' = [calls EXCEPT ![c].phase = IF @ = "sent" THEN "adrift" ELSE "ended",
                              ![c].told = "timeout"]
    /\ UNCHANGED <<seat, credential, pleas, box, clicks, performed, trail, work, ops, recall>>

-----------------------------------------------------------------------------
(* The work plan *)

(* plan_tasks replaces the list *)
PlanTasks(n) ==
    /\ plan' = [i \in 1..n |-> "pending"]
    /\ UNCHANGED <<gate, nudges, ops, recall>>

(* update_task *)
UpdateTask(i, status) ==
    /\ i \in DOMAIN plan
    /\ plan' = [plan EXCEPT ![i] = status]
    /\ UNCHANGED <<gate, nudges, ops, recall>>

Unfinished == \E i \in DOMAIN plan : plan[i] \in {"pending", "in_progress"}

(* ResponseDone: a turn that ends early is continued, so many times *)
TurnDone ==
    /\ Unfinished /\ nudges.left > 0
    /\ nudges' = [nudges EXCEPT !.left = @ - 1, !.asleep = @ + 1]
    /\ UNCHANGED <<gate, plan, ops, recall>>

(* after a pause, if the plan is still unfinished *)
Nudge ==
    /\ nudges.asleep > 0
    /\ nudges' = [nudges EXCEPT !.asleep = @ - 1, !.sent = IF Unfinished THEN @ + 1 ELSE @]
    /\ UNCHANGED <<gate, plan, ops, recall>>

-----------------------------------------------------------------------------
(* Routines *)

Routines == DOMAIN Cron
Still == [now |-> 0, paused |-> {}, left |-> {}]

(* run_now, refused while the routine runs *)
Launch(r) ==
    IF r \in running THEN UNCHANGED <<running, flights>>
    ELSE /\ running' = running \cup {r}
         /\ flights' = flights \cup {[routine |-> r, row |-> 0, phase |-> "new"]}

RunNow(r) ==
    /\ r \notin running /\ Len(logs) < MaxRuns
    /\ Launch(r)
    /\ UNCHANGED <<gate, work, minute, lastTick, scan, muted, logs, fired, downs, recall>>

(* execute: a row, *)
Begin(f) ==
    /\ f.phase = "new" /\ Len(logs) < MaxRuns
    /\ logs' = Append(logs, [routine |-> f.routine, status |-> "running"])
    /\ flights' = (flights \ {f}) \cup {[f EXCEPT !.row = Len(logs) + 1, !.phase = "works"]}
    /\ UNCHANGED <<gate, work, minute, lastTick, scan, muted, running, fired, downs, recall>>

(* its outcome, whatever way the sub-agent ended, *)
Finish(f, status) ==
    /\ f.phase = "works"
    /\ logs' = [logs EXCEPT ![f.row].status = status]
    /\ flights' = (flights \ {f}) \cup {[f EXCEPT !.phase = "reports"]}
    /\ UNCHANGED <<gate, work, minute, lastTick, scan, muted, running, fired, downs, recall>>

(* and the report, after which the routine may run again. *)
Report(f) ==
    /\ f.phase = "reports"
    /\ flights' = flights \ {f}
    /\ running' = running \ {f.routine}
    /\ UNCHANGED <<gate, work, minute, lastTick, scan, muted, logs, fired, downs, recall>>

(* set_paused *)
SetPaused(r) ==
    /\ muted' = IF r \in muted THEN muted \ {r} ELSE muted \cup {r}
    /\ UNCHANGED <<gate, work, minute, lastTick, scan, running, flights, logs, fired, downs, recall>>

(* spawn_scheduler: a tick reads the time and what is paused, *)
Tick ==
    /\ scan = Still /\ lastTick < minute
    /\ scan' = [now |-> minute, paused |-> muted, left |-> Routines]
    /\ UNCHANGED <<gate, work, minute, lastTick, muted, running, flights, logs, fired, downs, recall>>

DueIn(r, from, to) == {m \in Cron[r] : from < m /\ m =< to}

(* fires the routines with an occurrence since the last, *)
Fire(r) ==
    /\ r \in scan.left
    /\ IF r \notin scan.paused /\ DueIn(r, lastTick, scan.now) # {} /\ Len(logs) < MaxRuns
       THEN Launch(r) ELSE UNCHANGED <<running, flights>>
    /\ fired' = [fired EXCEPT ![r] = @ \o <<DueIn(r, lastTick, scan.now)>>]
    /\ scan' = [scan EXCEPT !.left = @ \ {r}]
    /\ UNCHANGED <<gate, work, minute, lastTick, muted, logs, downs, recall>>

(* Mutation: the next tick counts from the end of this one. *)
TickEndsLate ==
    /\ scan # Still /\ scan.left = {}
    /\ lastTick' = minute /\ scan' = Still
    /\ UNCHANGED <<gate, work, minute, muted, running, flights, logs, fired, downs, recall>>

(* and the next one counts from the time it read. *)
TickEnds ==
    /\ scan # Still /\ scan.left = {}
    /\ lastTick' = scan.now /\ scan' = Still
    /\ UNCHANGED <<gate, work, minute, muted, running, flights, logs, fired, downs, recall>>

Passes ==
    /\ minute < LastMinute
    /\ minute' = minute + 1
    /\ UNCHANGED <<gate, work, lastTick, scan, muted, running, flights, logs, fired, downs, recall>>

(* The process is restarted: what was in memory is gone, the pauses too,   *)
(* and the occurrences it missed stay missed.                              *)
Restart ==
    /\ downs < MaxDowns
    /\ lastTick' = minute /\ scan' = Still
    /\ muted' = {} /\ running' = {} /\ flights' = {}
    /\ downs' = downs + 1
    /\ fired' = [r \in Routines |-> <<{m \in Cron[r] : m =< minute}>>]
    /\ UNCHANGED <<gate, work, minute, logs, recall>>

-----------------------------------------------------------------------------
(* Memory *)

Nothing == [kind |-> "none"]

(* The store searches the global memories, and a skill's own with them. *)
Matching(text, skill) ==
    {m \in memories : m.text = text /\ m.project \in {"global", skill}}

(* remember puts a lesson with its skill *)
ProjectOf(kind, skill) == IF kind = "lesson" THEN skill ELSE "global"

(* remember searches for its like, the best few of any kind *)
StartRemember(kind, text, skill) ==
    /\ learner = Nothing /\ Cardinality(memories) < MaxMemories
    /\ \E found \in SUBSET Matching(text, skill) :
          /\ Cardinality(found) =
                (IF Cardinality(Matching(text, skill)) < SearchLimit
                 THEN Cardinality(Matching(text, skill)) ELSE SearchLimit)
          /\ learner' = [kind |-> kind, text |-> text, project |-> ProjectOf(kind, skill),
                         known |-> \E m \in found : m.kind = kind]
    /\ crowded' = (crowded \/ Cardinality(Matching(text, skill)) > SearchLimit)
    /\ UNCHANGED <<gate, work, ops, memories>>

(* and adds what is new; a session's summary always is. *)
FinishRemember ==
    /\ learner # Nothing
    /\ IF learner.known /\ learner.kind # "session" THEN memories' = memories
       ELSE LET id == CHOOSE i \in 1..MaxMemories : \A m \in memories : m.id # i
            IN  memories' = memories \cup {[id |-> id, kind |-> learner.kind, text |-> learner.text,
                                            project |-> learner.project]}
    /\ learner' = Nothing
    /\ UNCHANGED <<gate, work, ops, crowded>>

(* forget: all that matches, of one place *)
Forget(text, project) ==
    /\ learner = Nothing
    /\ memories' = {m \in memories : ~(m.text = text /\ m.project = project)}
    /\ UNCHANGED <<gate, work, ops, learner, crowded>>

-----------------------------------------------------------------------------
Init ==
    /\ seat = Vacant /\ credential = [user |-> "none", role |-> "none"]
    /\ calls = [c \in Calls |-> [tool |-> "none", phase |-> "idle", told |-> "nothing"]]
    /\ pleas = {} /\ box = [c \in Calls |-> "none"] /\ clicks = [c \in Calls |-> "none"]
    /\ performed = {} /\ trail = {}
    /\ plan = <<>> /\ nudges = [left |-> MaxNudges, asleep |-> 0, sent |-> 0]
    /\ minute = 0 /\ lastTick = 0 /\ scan = Still
    /\ muted = {} /\ running = {} /\ flights = {} /\ logs = <<>>
    /\ fired = [r \in Routines |-> <<>>] /\ downs = 0
    /\ memories = {} /\ learner = Nothing /\ crowded = FALSE

Conversing ==
    \/ \E p \in Principals : Connect(p) \/ Context(p)
    \/ Expire \/ Close
    \/ \E c \in Calls :
          \/ \E tool \in Tools : Dispatch(c, tool)
          \/ \E approve \in BOOLEAN : Resolve(c, approve)
          \/ Answered(c) \/ Unanswered(c) \/ Perform(c) \/ Deadline(c)

Planning ==
    \/ \E n \in 1..2 : PlanTasks(n)
    \/ \E i \in 1..2, status \in {"in_progress", "done", "failed"} : UpdateTask(i, status)
    \/ TurnDone \/ Nudge

Ambient ==
    \/ \E r \in Routines : RunNow(r) \/ SetPaused(r) \/ Fire(r)
    \/ \E f \in flights :
          \/ Begin(f) \/ Report(f)
          \/ \E status \in {"ok", "failed"} : Finish(f, status)
    \/ Tick \/ TickEnds \/ Passes \/ Restart

Learning ==
    \/ \E kind \in {"profile", "lesson", "session"}, text \in Texts, skill \in Skills :
          StartRemember(kind, text, skill)
    \/ FinishRemember
    \/ \E text \in Texts, project \in Skills \cup {"global"} : Forget(text, project)

Next == Conversing \/ Planning \/ Ambient \/ Learning

Spec == Init /\ [][Next]_vars

-----------------------------------------------------------------------------
(* Properties *)

(* A posting is only ever made after the user approved this very call, and *)
(* by a session whose role may post: answers that come late, twice or for  *)
(* another call never release it (ScopedTool, Confirmations).              *)
PostsOnlyApproved ==
    \A p \in performed :
       calls[p.call].tool = "post_invoice" =>
          clicks[p.call] = "approve" /\ "ledger:post" \in Scopes(seat.role)

(* A call the model was told did not run never runs (confirm_with_user).   *)
RefusedStaysUndone ==
    \A p \in performed : calls[p.call].told \notin {"denied", "declined", "late"}

(* Whatever token the browser brings, the ERP acts as the user and in the  *)
(* role the session's scopes were built from (handle_ws, context).         *)
ActsAsItsUser ==
    \A p \in performed : p.user = seat.user /\ p.role = seat.role

(* The audit trail shows what was performed as allowed and what was        *)
(* refused as denied, and never both (ScopedTool::record).                 *)
Audited ==
    /\ \A p \in performed : <<p.call, "Allowed">> \in trail /\ <<p.call, "Denied">> \notin trail
    /\ \A c \in Calls : calls[c].told \in {"denied", "declined", "late"} => <<c, "Denied">> \in trail

(* However often the plan is replaced and turns end, a session is nudged   *)
(* no more often than auto_continues allows.                               *)
NudgesSpent == nudges.sent + nudges.asleep + nudges.left =< MaxNudges

(* A routine never runs twice at once, however it was started (run_now).   *)
OneAtATime ==
    \A f, g \in flights : f.routine = g.routine => f = g

(* The ledger shows a run as running only while it is, unless the process  *)
(* was restarted in the middle (execute).                                  *)
LedgerTruthful ==
    downs = 0 => \A i \in DOMAIN logs :
                    logs[i].status = "running" => \E f \in flights : f.row = i

(* Every occurrence of a schedule is dealt with by exactly one tick,       *)
(* however long a tick takes (spawn_scheduler).                            *)
OccurrencesOnce ==
    scan = Still => \A r \in Routines : \A m \in Cron[r] : m =< lastTick =>
       Cardinality({k \in DOMAIN fired[r] : m \in fired[r][k]}) = 1

(* A fact or a lesson is stored once in the place it belongs to, as long   *)
(* as the search returns all that is like it (remember).                   *)
StoredOnce ==
    ~crowded => \A m, n \in memories :
                   /\ m.kind = n.kind /\ m.text = n.text /\ m.project = n.project
                   /\ m.kind # "session"
                   => m = n

=============================================================================
