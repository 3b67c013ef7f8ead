---------------------------- MODULE FrontProofs -----------------------------
(***************************************************************************)
(* Those who act on the books from outside: the assistant (Agent) and the  *)
(* users of the portals (Portals), for every value of their parameters.    *)
(***************************************************************************)
EXTENDS Integers, Sequences, FiniteSets, FiniteSetTheorems, TLAPS

(* Agent: parameters and state *)
CONSTANTS Calls, Principals, ServedEntity, MaxNudges, Cron, LastMinute, MaxRuns, MaxDowns,
          Texts, Skills, SearchLimit, MaxMemories
VARIABLES seat, credential, calls, pleas, box, clicks, performed, trail, plan, nudges,
          minute, lastTick, scan, muted, running, flights, logs, fired, downs, memories,
          learner, crowded

(* Portals: parameters and state *)
CONSTANTS Emails, Class, Desks, Browsers, MaxMasters, MaxLinks, MaxSessions
VARIABLES accounts, masters, links, used, leads, joined, desks, sessions, browsers, begun,
          served

Ag == INSTANCE Agent
Po == INSTANCE Portals

-----------------------------------------------------------------------------
(* The assistant is supervised, and its background work done once, for     *)
(* every set of calls, principals and routines, every schedule and every   *)
(* limit.  The four parts of the assistant share no state, so each has an  *)
(* inductive invariant of its own.                                         *)

(* What the modules mean by the number of elements of a set. *)
LEMMA MemoryCards == \A S : Ag!Cardinality(S) = Cardinality(S)
  BY DEF Cardinality, Ag!Cardinality, IsFiniteSet, Ag!IsFiniteSet

(* A token names a user, and a schedule names minutes after the start. *)
SettingsOK == /\ \A p \in Principals : p.user # "none"
              /\ MaxNudges \in Nat /\ SearchLimit \in Nat
              /\ \A r \in Ag!Routines : Cron[r] \subseteq Nat \ {0}

-----------------------------------------------------------------------------
(* Tool calls *)

Phases == {"idle", "waiting", "sent", "adrift", "ended"}
CallRecord == [tool: Ag!Tools \cup {"none"}, phase: Phases,
               told: {"nothing", "denied", "declined", "late", "result", "timeout"}]
Refusals == {"denied", "declined", "late"}

CallsOK == /\ calls \in [Calls -> CallRecord]
           /\ DOMAIN box = Calls /\ DOMAIN clicks = Calls

(* Nobody sits in the session, or somebody whose token is the credential.  *)
SeatOK ==
    /\ seat = Ag!Vacant => \A c \in Calls : calls[c].phase = "idle"
    /\ seat # Ag!Vacant => seat.user # "none" /\ DOMAIN seat = {"open", "user", "role"}
    /\ credential.user = "none" \/ (credential.user = seat.user /\ credential.role = seat.role)

MayPost == "ledger:post" \in Ag!Scopes(seat.role)

(* What is known of a call in each phase; released calls were approved. *)
PhaseOK(c) ==
    /\ calls[c].phase = "idle" => \A o : <<c, o>> \notin trail
    /\ calls[c].phase = "waiting" => /\ calls[c].tool = "post_invoice" /\ MayPost
                                     /\ calls[c].told = "nothing" /\ \A o : <<c, o>> \notin trail
    /\ calls[c].phase \in {"sent", "adrift"} =>
          /\ calls[c].tool = "post_invoice" => clicks[c] = "approve" /\ MayPost
          /\ calls[c].told \notin Refusals
          /\ <<c, "Allowed">> \in trail /\ <<c, "Denied">> \notin trail
    /\ calls[c].told \in Refusals => calls[c].phase = "ended" /\ <<c, "Denied">> \in trail
    /\ box[c] = "yes" => clicks[c] = "approve"

(* What was done was released, and is over. *)
DoneOK(p) ==
    /\ p.call \in Calls /\ calls[p.call].phase = "ended"
    /\ p.user = seat.user /\ p.role = seat.role /\ p.user # "none"
    /\ calls[p.call].tool = "post_invoice" => clicks[p.call] = "approve" /\ MayPost
    /\ calls[p.call].told \notin Refusals
    /\ <<p.call, "Allowed">> \in trail /\ <<p.call, "Denied">> \notin trail

GateInv == /\ CallsOK /\ SeatOK
           /\ \A c \in Calls : PhaseOK(c)
           /\ \A p \in performed : DoneOK(p)

(* Nothing was called, approved or done when the server starts. *)
LEMMA GateStart ==
  ASSUME Ag!Init PROVE GateInv
<1> USE DEF Ag!Init
<1>1. CallsOK
  BY DEF CallsOK, CallRecord, Phases
<1>2. SeatOK
  BY DEF SeatOK
<1>3. \A c \in Calls : PhaseOK(c)
  BY DEF PhaseOK, Refusals
<1> QED BY <1>1, <1>2, <1>3 DEF GateInv

(* The gate's invariant only speaks of the session and its calls. *)
LEMMA GateRests ==
  ASSUME GateInv, UNCHANGED Ag!gate PROVE GateInv'
<1>1. UNCHANGED <<seat, credential, calls, pleas, box, clicks, performed, trail>>
  BY DEF Ag!gate
<1>2. CallsOK' /\ SeatOK'
  BY <1>1 DEF GateInv, CallsOK, SeatOK
<1>3. \A c \in Calls : PhaseOK(c)'
  BY <1>1 DEF GateInv, PhaseOK, MayPost
<1>4. \A p \in performed' : DoneOK(p)'
  BY <1>1 DEF GateInv, DoneOK, MayPost
<1> QED BY <1>2, <1>3, <1>4 DEF GateInv

(* Who sits down, and with which token. *)
LEMMA SessionKeeps ==
  ASSUME SettingsOK, GateInv,
         (\E p \in Principals : Ag!Connect(p) \/ Ag!Context(p)) \/ Ag!Expire \/ Ag!Close
  PROVE  GateInv'
<1> USE DEF GateInv
<1>0. UNCHANGED <<calls, box, clicks, performed, trail>>
  BY DEF Ag!Connect, Ag!Context, Ag!Expire, Ag!Close
<1>1. CASE \E p \in Principals : Ag!Connect(p)
  <2>1. PICK p \in Principals : Ag!Connect(p)
    BY <1>1
  <2>2. /\ seat = Ag!Vacant /\ seat' = [open |-> TRUE, user |-> p.user, role |-> p.role]
        /\ credential' = [user |-> p.user, role |-> p.role] /\ p.user # "none"
    BY <2>1 DEF Ag!Connect, SettingsOK
  <2>3. SeatOK'
    BY <1>0, <2>2 DEF SeatOK, Ag!Vacant
  <2>4. \A c \in Calls : calls[c].phase = "idle"
    BY <2>2 DEF SeatOK
  <2>5. performed = {}
    BY <2>4 DEF DoneOK
  <2>6. \A c \in Calls : PhaseOK(c)'
    BY <1>0, <2>4 DEF PhaseOK
  <2> QED BY <1>0, <2>3, <2>5, <2>6 DEF CallsOK
<1>2. CASE (\E p \in Principals : Ag!Context(p)) \/ Ag!Expire \/ Ag!Close
  <2>1. seat # Ag!Vacant /\ seat' # Ag!Vacant /\ seat'.user = seat.user /\ seat'.role = seat.role
        /\ DOMAIN seat' = DOMAIN seat
    BY <1>2 DEF Ag!Context, Ag!Expire, Ag!Close, SeatOK, Ag!Vacant
  <2>2. SeatOK'
    BY <1>0, <1>2, <2>1 DEF SeatOK, Ag!Context, Ag!Expire, Ag!Close
  <2>3. MayPost' <=> MayPost
    BY <2>1 DEF MayPost
  <2>4. \A c \in Calls : PhaseOK(c)'
    BY <1>0, <2>3 DEF PhaseOK
  <2>5. \A p \in performed' : DoneOK(p)'
    BY <1>0, <2>1, <2>3 DEF DoneOK
  <2> QED BY <1>0, <2>2, <2>4, <2>5 DEF CallsOK
<1> QED BY <1>1, <1>2

(* A step of one call: the others, and what they did, stay as they are. *)
LEMMA OneCall ==
  ASSUME GateInv, NEW c \in Calls, seat # Ag!Vacant, UNCHANGED <<seat, credential>>, CallsOK',
         \A d \in Calls \ {c} : /\ calls'[d] = calls[d] /\ clicks'[d] = clicks[d] /\ box'[d] = box[d]
                                /\ \A o : <<d, o>> \in trail' <=> <<d, o>> \in trail,
         \A p \in performed : p.call # c,
         PhaseOK(c)',
         \A p \in performed' : p \in performed \/ DoneOK(p)'
  PROVE  GateInv'
<1> USE DEF GateInv
<1>1. SeatOK'
  BY DEF SeatOK
<1>2. MayPost' <=> MayPost
  BY DEF MayPost
<1>3. ASSUME NEW d \in Calls \ {c} PROVE PhaseOK(d)'
  BY <1>2 DEF PhaseOK
<1>4. ASSUME NEW p \in performed PROVE DoneOK(p)'
  <2>1. DoneOK(p) /\ p.call \in Calls \ {c}
    BY DEF DoneOK
  <2> QED BY <1>2, <2>1 DEF DoneOK
<1>5. \A p \in performed' : DoneOK(p)'
  BY <1>4
<1>6. \A d \in Calls : PhaseOK(d)'
  BY <1>3
<1> QED BY <1>1, <1>5, <1>6

(* Only a call that is over has done anything. *)
LEMMA NotYet ==
  ASSUME GateInv, NEW c \in Calls, calls[c].phase # "ended"
  PROVE  \A p \in performed : p.call # c
  BY DEF GateInv, DoneOK

(* The session is taken as soon as a call is made. *)
LEMMA Taken ==
  ASSUME GateInv, NEW c \in Calls, seat.open \/ calls[c].phase # "idle"
  PROVE  seat # Ag!Vacant
  BY DEF GateInv, SeatOK, Ag!Vacant

(* A call becomes new, and what is recorded is about it. *)
LEMMA CallMoves ==
  ASSUME GateInv, NEW c \in Calls, NEW new \in CallRecord, calls' = [calls EXCEPT ![c] = new],
         UNCHANGED <<box, clicks>>,
         trail' = trail \/ \E o : trail' = trail \cup {<<c, o>>}
  PROVE  /\ CallsOK' /\ calls'[c] = new
         /\ \A d \in Calls \ {c} : /\ calls'[d] = calls[d] /\ clicks'[d] = clicks[d] /\ box'[d] = box[d]
                                   /\ \A o : <<d, o>> \in trail' <=> <<d, o>> \in trail
<1>1. CallsOK
  BY DEF GateInv
<1> QED BY <1>1 DEF CallsOK

(* A new call is refused, sent straight away, or waits for its user's    *)
(* answer.                                                               *)
LEMMA DispatchKeeps ==
  ASSUME GateInv, NEW c \in Calls, NEW tool \in Ag!Tools, Ag!Dispatch(c, tool) PROVE GateInv'
<1> DEFINE allowed == Ag!RequiredScopes(tool) \subseteq Ag!Scopes(seat.role)
           asks == "ledger:post" \in Ag!RequiredScopes(tool)
           new == [tool |-> tool,
                   phase |-> IF ~allowed THEN "ended" ELSE IF asks THEN "waiting" ELSE "sent",
                   told |-> IF allowed THEN "nothing" ELSE "denied"]
<1>1. /\ seat.open /\ calls[c].phase = "idle"
      /\ calls' = [calls EXCEPT ![c] = new]
      /\ trail' = IF allowed /\ asks THEN trail
                  ELSE trail \cup {<<c, IF allowed THEN "Allowed" ELSE "Denied">>}
      /\ UNCHANGED <<seat, credential, box, clicks, performed>>
  BY DEF Ag!Dispatch, Ag!Record
<1>2. /\ asks <=> tool = "post_invoice"
      /\ asks /\ allowed => MayPost
  BY DEF Ag!RequiredScopes, Ag!Tools, MayPost
<1>3. /\ new \in CallRecord /\ new.tool = tool /\ new.told = (IF allowed THEN "nothing" ELSE "denied")
      /\ new.phase = IF ~allowed THEN "ended" ELSE IF asks THEN "waiting" ELSE "sent"
  BY DEF CallRecord, Phases
<1> HIDE DEF new, allowed, asks
<1>4. PhaseOK(c)
  BY DEF GateInv
<1>5. /\ CallsOK' /\ calls'[c] = new
      /\ \A d \in Calls \ {c} : /\ calls'[d] = calls[d] /\ clicks'[d] = clicks[d] /\ box'[d] = box[d]
                                /\ \A o : <<d, o>> \in trail' <=> <<d, o>> \in trail
  BY <1>1, <1>3, CallMoves
<1>6. MayPost' <=> MayPost
  BY <1>1 DEF MayPost
<1>7. PhaseOK(c)'
  <2>1. CASE ~allowed
    BY <1>1, <1>3, <1>4, <1>5, <2>1 DEF PhaseOK, Refusals
  <2>2. CASE allowed /\ asks
    BY <1>1, <1>2, <1>3, <1>4, <1>5, <1>6, <2>2 DEF PhaseOK, Refusals
  <2>3. CASE allowed /\ ~asks
    BY <1>1, <1>2, <1>3, <1>4, <1>5, <2>3 DEF PhaseOK, Refusals
  <2> QED BY <2>1, <2>2, <2>3
<1> QED BY <1>1, <1>5, <1>7, NotYet, Taken, OneCall

(* A click answers one card, and only while nothing was done on it. *)
LEMMA ResolveKeeps ==
  ASSUME GateInv, NEW c \in Calls, NEW approve \in BOOLEAN, Ag!Resolve(c, approve) PROVE GateInv'
<1>1. /\ seat.open /\ clicks[c] = "none" /\ calls[c].tool = "post_invoice"
      /\ clicks' = [clicks EXCEPT ![c] = IF approve THEN "approve" ELSE "deny"]
      /\ \/ box' = box
         \/ box' = [box EXCEPT ![c] = IF approve THEN "yes" ELSE "no"]
      /\ UNCHANGED <<seat, credential, calls, performed, trail>>
  BY DEF Ag!Resolve
<1>2. CallsOK /\ PhaseOK(c)
  BY DEF GateInv
<1>3. /\ CallsOK' /\ clicks'[c] = (IF approve THEN "approve" ELSE "deny")
      /\ \A d \in Calls \ {c} : clicks'[d] = clicks[d] /\ box'[d] = box[d]
      /\ box'[c] = "yes" => approve
  BY <1>1, <1>2 DEF CallsOK, PhaseOK
<1>4. \A p \in performed : p.call # c
  BY <1>1 DEF GateInv, DoneOK
<1>5. calls[c].phase \notin {"sent", "adrift"}
  BY <1>1, <1>2 DEF PhaseOK
<1>6. PhaseOK(c)'
  BY <1>1, <1>2, <1>3, <1>5 DEF PhaseOK, MayPost
<1> QED BY <1>1, <1>3, <1>4, <1>6, Taken, OneCall

(* The steps that end a wait or a call without doing anything. *)
LEMMA AnswerKeeps ==
  ASSUME GateInv, NEW c \in Calls, Ag!Answered(c) \/ Ag!Unanswered(c) \/ Ag!Deadline(c)
  PROVE  GateInv'
<1>0. CallsOK /\ PhaseOK(c) /\ calls[c] \in CallRecord
  BY DEF GateInv, CallsOK
<1>1. UNCHANGED <<seat, credential, box, clicks, performed>> /\ calls[c].phase \in {"waiting", "sent"}
  BY DEF Ag!Answered, Ag!Unanswered, Ag!Deadline
<1>2. MayPost' <=> MayPost
  BY <1>1 DEF MayPost
<1>3. ASSUME NEW new \in CallRecord, calls' = [calls EXCEPT ![c] = new],
             new.tool = calls[c].tool,
             \/ /\ new.phase = "ended" /\ new.told \in Refusals /\ trail' = trail \cup {<<c, "Denied">>}
             \/ /\ new.phase = "ended" /\ new.told = "timeout" /\ trail' = trail
             \/ /\ calls[c].phase = "sent" /\ new.phase = "adrift" /\ new.told = "timeout"
                /\ trail' = trail
             \/ /\ calls[c].phase = "waiting" /\ new.phase = "sent" /\ new.told = "nothing"
                /\ box[c] = "yes" /\ trail' = trail \cup {<<c, "Allowed">>}
      PROVE  GateInv'
  <2>1. /\ CallsOK' /\ calls'[c] = new
        /\ \A d \in Calls \ {c} : /\ calls'[d] = calls[d] /\ clicks'[d] = clicks[d] /\ box'[d] = box[d]
                                  /\ \A o : <<d, o>> \in trail' <=> <<d, o>> \in trail
    BY <1>1, <1>3, CallMoves
  <2>2. PhaseOK(c)'
    BY <1>0, <1>1, <1>2, <1>3, <2>1 DEF PhaseOK, Refusals
  <2> QED BY <1>1, <2>1, <2>2, NotYet, Taken, OneCall
<1>4. CASE Ag!Answered(c) /\ box[c] = "yes"
  <2> DEFINE new == [calls[c] EXCEPT !.phase = "sent"]
  <2>1. /\ calls' = [calls EXCEPT ![c] = new] /\ trail' = trail \cup {<<c, "Allowed">>}
        /\ calls[c].phase = "waiting"
    BY <1>4 DEF Ag!Answered, Ag!Record
  <2>2. new \in CallRecord /\ new.tool = calls[c].tool /\ new.phase = "sent" /\ new.told = calls[c].told
    BY <1>0 DEF CallRecord, Phases
  <2> HIDE DEF new
  <2> QED BY <1>0, <1>3, <1>4, <2>1, <2>2 DEF PhaseOK
<1>5. CASE (Ag!Answered(c) /\ box[c] # "yes") \/ Ag!Unanswered(c)
  <2>1. PICK told \in {"declined", "late"} :
           calls' = [calls EXCEPT ![c].phase = "ended", ![c].told = told]
           /\ trail' = trail \cup {<<c, "Denied">>}
    BY <1>5 DEF Ag!Answered, Ag!Unanswered, Ag!Ended, Ag!Record
  <2> DEFINE new == [calls[c] EXCEPT !.phase = "ended", !.told = told]
  <2>2. calls' = [calls EXCEPT ![c] = new]
    BY <1>0, <2>1 DEF CallsOK
  <2>3. new \in CallRecord /\ new.tool = calls[c].tool /\ new.phase = "ended" /\ new.told = told
    BY <1>0 DEF CallRecord, Phases
  <2> HIDE DEF new
  <2> QED BY <1>3, <2>1, <2>2, <2>3 DEF Refusals
<1>6. CASE Ag!Deadline(c)
  <2> DEFINE ph == IF calls[c].phase = "sent" THEN "adrift" ELSE "ended"
             new == [calls[c] EXCEPT !.phase = ph, !.told = "timeout"]
  <2>1. calls' = [calls EXCEPT ![c] = new] /\ trail' = trail
    BY <1>0, <1>6 DEF CallsOK, Ag!Deadline
  <2>2. new \in CallRecord /\ new.tool = calls[c].tool /\ new.phase = ph /\ new.told = "timeout"
    BY <1>0 DEF CallRecord, Phases
  <2> HIDE DEF new
  <2> QED BY <1>1, <1>3, <2>1, <2>2
<1> QED BY <1>4, <1>5, <1>6

(* What the ERP does was released, and is done in the session's name. *)
LEMMA PerformKeeps ==
  ASSUME GateInv, NEW c \in Calls, Ag!Perform(c) PROVE GateInv'
<1>0. CallsOK /\ PhaseOK(c) /\ calls[c] \in CallRecord /\ SeatOK
  BY DEF GateInv, CallsOK
<1>1. UNCHANGED <<seat, credential, box, clicks, trail>> /\ calls[c].phase \in {"sent", "adrift"}
  BY DEF Ag!Perform
<1> DEFINE new == [calls[c] EXCEPT !.phase = "ended",
                                   !.told = IF calls[c].phase = "sent" THEN "result" ELSE calls[c].told]
<1>2. calls' = [calls EXCEPT ![c] = new]
  <2>1. CASE calls[c].phase = "sent"
    BY <1>0, <2>1 DEF CallsOK, Ag!Perform, Ag!Ended
  <2>2. CASE calls[c].phase # "sent"
    BY <1>0, <2>2 DEF CallsOK, CallRecord, Ag!Perform, Ag!Ended
  <2> QED BY <2>1, <2>2
<1>3. /\ new \in CallRecord /\ new.tool = calls[c].tool /\ new.phase = "ended"
      /\ new.told \notin Refusals
  BY <1>0, <1>1 DEF CallRecord, Phases, PhaseOK, Refusals
<1> HIDE DEF new
<1>4. /\ CallsOK' /\ calls'[c] = new
      /\ \A d \in Calls \ {c} : /\ calls'[d] = calls[d] /\ clicks'[d] = clicks[d] /\ box'[d] = box[d]
                                /\ \A o : <<d, o>> \in trail' <=> <<d, o>> \in trail
  BY <1>1, <1>2, <1>3, CallMoves
<1>5. MayPost' <=> MayPost
  BY <1>1 DEF MayPost
<1>6. PhaseOK(c)'
  BY <1>0, <1>1, <1>3, <1>4 DEF PhaseOK
<1>7. \A p \in performed' : p \in performed \/ DoneOK(p)'
  <2>1. \/ performed' = performed
        \/ /\ credential.user # "none"
           /\ performed' = performed \cup {[call |-> c, user |-> credential.user, role |-> credential.role]}
    BY DEF Ag!Perform
  <2>2. CASE credential.user # "none"
    <3>0. PICK p : p = [call |-> c, user |-> credential.user, role |-> credential.role]
      OBVIOUS
    <3>1. /\ p.call = c /\ p.user = seat.user /\ p.role = seat.role /\ p.user # "none"
      BY <1>0, <2>2, <3>0 DEF SeatOK
    <3>2. DoneOK(p)'
      BY <1>0, <1>1, <1>3, <1>4, <1>5, <3>1 DEF DoneOK, PhaseOK
    <3> QED BY <2>1, <3>0, <3>2
  <2> QED BY <2>1, <2>2
<1> QED BY <1>1, <1>4, <1>6, <1>7, NotYet, Taken, OneCall

(* Every step of a conversation, with its clicks and deadlines, keeps    *)
(* the gate's invariant.                                                 *)
LEMMA GateStep ==
  ASSUME SettingsOK, GateInv, Ag!Conversing PROVE GateInv'
  BY SessionKeeps, DispatchKeeps, ResolveKeeps, AnswerKeeps, PerformKeeps DEF Ag!Conversing

(* What the gate promises follows from its invariant. *)
LEMMA GateImplies ==
  ASSUME GateInv
  PROVE  Ag!PostsOnlyApproved /\ Ag!RefusedStaysUndone /\ Ag!ActsAsItsUser /\ Ag!Audited
  BY DEF GateInv, DoneOK, PhaseOK, Refusals, MayPost, Ag!PostsOnlyApproved, Ag!RefusedStaysUndone,
         Ag!ActsAsItsUser, Ag!Audited

-----------------------------------------------------------------------------
(* The work plan *)

PlanInv == /\ nudges \in [left: Nat, asleep: Nat, sent: Nat]
           /\ Ag!NudgesSpent

(* A session begins with an empty plan and all its nudges. *)
LEMMA PlanStart ==
  ASSUME SettingsOK, Ag!Init PROVE PlanInv
  BY DEF SettingsOK, Ag!Init, PlanInv, Ag!NudgesSpent

(* Planning, finishing a turn and nudging keep the count of nudges. *)
LEMMA PlanStep ==
  ASSUME SettingsOK, PlanInv, Ag!Planning PROVE PlanInv'
<1> USE DEF PlanInv, Ag!NudgesSpent, SettingsOK
<1>1. CASE Ag!TurnDone
  <2>1. /\ nudges.left \in Nat /\ nudges.left > 0 /\ nudges.asleep \in Nat /\ nudges.sent \in Nat
        /\ nudges' = [left |-> nudges.left - 1, asleep |-> nudges.asleep + 1, sent |-> nudges.sent]
    BY <1>1 DEF Ag!TurnDone
  <2>2. nudges.left - 1 \in Nat
    BY <2>1
  <2> QED BY <2>1, <2>2
<1>2. CASE Ag!Nudge
  <2>1. /\ nudges.left \in Nat /\ nudges.asleep > 0 /\ nudges.asleep \in Nat /\ nudges.sent \in Nat
        /\ \E n \in {nudges.sent, nudges.sent + 1} :
             nudges' = [left |-> nudges.left, asleep |-> nudges.asleep - 1, sent |-> n]
    BY <1>2 DEF Ag!Nudge
  <2>2. nudges.asleep - 1 \in Nat
    BY <2>1
  <2> QED BY <2>1, <2>2
<1>3. CASE UNCHANGED nudges
  BY <1>3
<1> QED BY <1>1, <1>2, <1>3 DEF Ag!Planning, Ag!PlanTasks, Ag!UpdateTask

-----------------------------------------------------------------------------
(* Routines *)

FlightRecord == [routine: Ag!Routines, row: Nat, phase: {"new", "works", "reports"}]
LogRecord == [routine: Ag!Routines, status: {"running", "ok", "failed"}]

(* A run holds its routine's guard until it is over, *)
FlightsOK == /\ flights \subseteq FlightRecord
             /\ \A f \in flights : f.routine \in running
             /\ Ag!OneAtATime

(* has its row once it works, *)
RowOK(f) == /\ f.phase # "new" => f.row \in DOMAIN logs
            /\ f.phase = "reports" => logs[f.row].status # "running"

(* and is the one that a running row is about. *)
LogsOK == /\ logs \in Seq(LogRecord) /\ downs \in Nat
          /\ \A f \in flights : RowOK(f)
          /\ downs = 0 => \A i \in DOMAIN logs :
                             logs[i].status = "running" =>
                                \E f \in flights : f.row = i /\ f.phase = "works"

TicksOK == /\ minute \in Nat /\ lastTick \in Nat /\ muted \subseteq Ag!Routines
           /\ scan \in [now: Nat, paused: SUBSET Ag!Routines, left: SUBSET Ag!Routines]
           /\ lastTick =< minute
           /\ scan # Ag!Still => lastTick < scan.now /\ scan.now =< minute

(* How far a routine's schedule was dealt with: the tick in progress has   *)
(* already dealt with the routines that it left behind.                    *)
Dealt(r) == IF scan # Ag!Still /\ r \notin scan.left THEN scan.now ELSE lastTick

TakenOnce(m, ticks) == \E k \in DOMAIN ticks : \A j \in DOMAIN ticks : m \in ticks[j] <=> j = k
NotTaken(m, ticks) == \A j \in DOMAIN ticks : m \notin ticks[j]

(* Exactly one tick took each occurrence until then, and none a later one. *)
ScheduleOK(r) ==
    \A m \in Cron[r] : /\ m =< Dealt(r) => TakenOnce(m, fired[r])
                       /\ m > Dealt(r) => NotTaken(m, fired[r])

SchedulesOK == /\ fired \in [Ag!Routines -> Seq(SUBSET Nat)]
               /\ \A r \in Ag!Routines : ScheduleOK(r)

AmbientInv == FlightsOK /\ LogsOK /\ TicksOK /\ SchedulesOK

(* Before the first tick nothing has run and nothing is due. *)
LEMMA AmbientStart ==
  ASSUME SettingsOK, Ag!Init PROVE AmbientInv
<1> USE DEF Ag!Init
<1>1. FlightsOK
  BY DEF FlightsOK, Ag!OneAtATime
<1>2. LogsOK
  BY DEF LogsOK
<1>3. TicksOK
  BY DEF TicksOK, Ag!Still
<1>4. SchedulesOK
  <2>1. \A r \in Ag!Routines : Dealt(r) = 0
    BY DEF Dealt
  <2> QED BY <2>1 DEF SchedulesOK, ScheduleOK, NotTaken, SettingsOK
<1> QED BY <1>1, <1>2, <1>3, <1>4 DEF AmbientInv

(* A routine is launched under its guard, or not at all. *)
LEMMA LaunchKeeps ==
  ASSUME AmbientInv, NEW r \in Ag!Routines, Ag!Launch(r) \/ UNCHANGED <<running, flights>>,
         UNCHANGED <<logs, downs>>
  PROVE  FlightsOK' /\ LogsOK'
<1>0. FlightsOK /\ LogsOK
  BY DEF AmbientInv
<1>1. CASE UNCHANGED <<running, flights>>
  <2>1. FlightsOK'
    BY <1>0, <1>1 DEF FlightsOK, Ag!OneAtATime
  <2>2. LogsOK'
    BY <1>0, <1>1 DEF LogsOK, RowOK
  <2> QED BY <2>1, <2>2
<1>2. CASE ~UNCHANGED <<running, flights>>
  <2>0. PICK g : g = [routine |-> r, row |-> 0, phase |-> "new"]
    OBVIOUS
  <2>1. r \notin running /\ running' = running \cup {r} /\ flights' = flights \cup {g}
    BY <1>2, <2>0 DEF Ag!Launch
  <2>2. g \in FlightRecord /\ g.routine = r /\ g.phase = "new"
    BY <2>0 DEF FlightRecord
  <2>3. FlightsOK'
    BY <1>0, <2>1, <2>2 DEF FlightsOK, Ag!OneAtATime
  <2>4. LogsOK'
    <3>1. \A f \in flights' : RowOK(f)'
      BY <1>0, <2>1, <2>2 DEF LogsOK, RowOK
    <3> QED BY <1>0, <2>1, <3>1 DEF LogsOK
  <2> QED BY <2>3, <2>4
<1> QED BY <1>1, <1>2

(* A run goes on to its next phase. *)
LEMMA FlightMoves ==
  ASSUME FlightsOK, NEW f \in flights, NEW g \in FlightRecord, g.routine = f.routine,
         flights' = (flights \ {f}) \cup {g}, UNCHANGED running
  PROVE  FlightsOK'
  BY DEF FlightsOK, Ag!OneAtATime

(* The steps of one run, its row, its end and its report, keep the       *)
(* flights and their rows apart.                                         *)
LEMMA RunsKeep ==
  ASSUME AmbientInv, NEW f \in flights,
         Ag!Begin(f) \/ Ag!Report(f) \/ \E status \in {"ok", "failed"} : Ag!Finish(f, status)
  PROVE  FlightsOK' /\ LogsOK'
<1>0. FlightsOK /\ LogsOK /\ f \in FlightRecord /\ RowOK(f)
  BY DEF AmbientInv, FlightsOK, LogsOK
<1>1. CASE Ag!Begin(f)
  <2>0. PICK g : g = [f EXCEPT !.row = Len(logs) + 1, !.phase = "works"]
    OBVIOUS
  <2>1. /\ f.phase = "new" /\ flights' = (flights \ {f}) \cup {g} /\ UNCHANGED <<running, downs>>
        /\ logs' = Append(logs, [routine |-> f.routine, status |-> "running"])
    BY <1>1, <2>0 DEF Ag!Begin
  <2>2. /\ g \in FlightRecord /\ g.routine = f.routine /\ g.phase = "works"
        /\ g.row = Len(logs) + 1
    <3>1. Len(logs) + 1 \in Nat
      BY <1>0 DEF LogsOK
    <3> QED BY <1>0, <2>0, <3>1 DEF FlightRecord
  <2>3. /\ logs' \in Seq(LogRecord) /\ DOMAIN logs' = DOMAIN logs \cup {Len(logs) + 1}
        /\ \A i \in DOMAIN logs : logs'[i] = logs[i]
    BY <1>0, <2>1 DEF LogsOK, LogRecord, FlightRecord
  <2>4. FlightsOK'
    BY <1>0, <2>1, <2>2, FlightMoves
  <2>5. \A h \in flights' : RowOK(h)'
    BY <1>0, <2>1, <2>2, <2>3 DEF LogsOK, RowOK
  <2>6. downs = 0 => \A i \in DOMAIN logs' :
           logs'[i].status = "running" => \E h \in flights' : h.row = i /\ h.phase = "works"
    BY <1>0, <2>1, <2>2, <2>3 DEF LogsOK
  <2> QED BY <1>0, <2>1, <2>3, <2>4, <2>5, <2>6 DEF LogsOK
<1>2. CASE Ag!Report(f)
  <2>1. /\ f.phase = "reports" /\ flights' = flights \ {f} /\ running' = running \ {f.routine}
        /\ UNCHANGED <<logs, downs>>
    BY <1>2 DEF Ag!Report
  <2>2. FlightsOK'
    BY <1>0, <2>1 DEF FlightsOK, Ag!OneAtATime
  <2>3. LogsOK'
    <3>1. \A h \in flights' : RowOK(h)'
      BY <1>0, <2>1 DEF LogsOK, RowOK
    <3> QED BY <1>0, <2>1, <3>1 DEF LogsOK
  <2> QED BY <2>2, <2>3
<1>3. CASE \E status \in {"ok", "failed"} : Ag!Finish(f, status)
  <2>1. PICK status \in {"ok", "failed"} : Ag!Finish(f, status)
    BY <1>3
  <2>0. PICK g : g = [f EXCEPT !.phase = "reports"]
    OBVIOUS
  <2>2. /\ f.phase = "works" /\ flights' = (flights \ {f}) \cup {g} /\ UNCHANGED <<running, downs>>
        /\ logs' = [logs EXCEPT ![f.row].status = status]
    BY <2>0, <2>1 DEF Ag!Finish
  <2>3. g \in FlightRecord /\ g.routine = f.routine /\ g.phase = "reports" /\ g.row = f.row
    BY <1>0, <2>0 DEF FlightRecord
  <2>4. /\ f.row \in DOMAIN logs /\ logs[f.row] \in LogRecord
    BY <1>0, <2>2 DEF RowOK, LogsOK
  <2>5. PICK e \in LogRecord : e.status = status /\ logs' = [logs EXCEPT ![f.row] = e]
    <3>1. logs' = [logs EXCEPT ![f.row] = [logs[f.row] EXCEPT !.status = status]]
      BY <2>2
    <3>2. PICK e : e = [logs[f.row] EXCEPT !.status = status]
      OBVIOUS
    <3>3. e \in LogRecord /\ e.status = status
      BY <2>4, <3>2 DEF LogRecord
    <3> QED BY <3>1, <3>2, <3>3
  <2>6. /\ logs' \in Seq(LogRecord) /\ DOMAIN logs' = DOMAIN logs
        /\ \A i \in DOMAIN logs : i # f.row => logs'[i] = logs[i]
        /\ logs'[f.row].status = status
    BY <1>0, <2>4, <2>5 DEF LogsOK
  <2>7. FlightsOK'
    BY <1>0, <2>2, <2>3, FlightMoves
  <2>8. \A h \in flights' : RowOK(h)'
    BY <1>0, <2>2, <2>3, <2>4, <2>6 DEF LogsOK, RowOK
  <2>9. downs = 0 => \A i \in DOMAIN logs' :
           logs'[i].status = "running" => \E h \in flights' : h.row = i /\ h.phase = "works"
    BY <1>0, <2>2, <2>6 DEF LogsOK
  <2> QED BY <1>0, <2>2, <2>6, <2>7, <2>8, <2>9 DEF LogsOK
<1> QED BY <1>1, <1>2, <1>3

(* What happens to the runs leaves the schedule as it is, *)
LEMMA ScheduleRests ==
  ASSUME TicksOK /\ SchedulesOK, UNCHANGED <<minute, lastTick, scan, muted, fired>>
  PROVE  TicksOK' /\ SchedulesOK'
<1>1. TicksOK'
  BY DEF TicksOK
<1>2. \A r \in Ag!Routines : ScheduleOK(r)'
  BY DEF SchedulesOK, ScheduleOK, Dealt
<1> QED BY <1>1, <1>2 DEF SchedulesOK

(* and what happens to the schedule, the runs. *)
LEMMA RunsRest ==
  ASSUME FlightsOK /\ LogsOK, UNCHANGED <<running, flights, logs, downs>>
  PROVE  FlightsOK' /\ LogsOK'
<1>1. FlightsOK'
  BY DEF FlightsOK, Ag!OneAtATime
<1>2. \A f \in flights' : RowOK(f)'
  BY DEF LogsOK, RowOK
<1> QED BY <1>1, <1>2 DEF LogsOK

(* One more tick, which takes what is due. *)
LEMMA OneMoreTick ==
  ASSUME NEW ticks \in Seq(SUBSET Nat), NEW due \in SUBSET Nat, NEW m \in Nat
  PROVE  /\ ticks \o <<due>> \in Seq(SUBSET Nat)
         /\ TakenOnce(m, ticks) /\ m \notin due => TakenOnce(m, ticks \o <<due>>)
         /\ NotTaken(m, ticks) /\ m \in due => TakenOnce(m, ticks \o <<due>>)
         /\ NotTaken(m, ticks) /\ m \notin due => NotTaken(m, ticks \o <<due>>)
<1>0. PICK more : more = ticks \o <<due>>
  OBVIOUS
<1>1. PICK n \in Nat : n = Len(ticks) /\ DOMAIN ticks = 1..n
  OBVIOUS
<1>2. /\ more \in Seq(SUBSET Nat) /\ DOMAIN more = 1..(n + 1)
      /\ \A j \in 1..n : more[j] = ticks[j]
      /\ more[n + 1] = due
  BY <1>0, <1>1
<1>3. ASSUME TakenOnce(m, ticks), m \notin due PROVE TakenOnce(m, more)
  <2>1. PICK k \in DOMAIN ticks : \A j \in DOMAIN ticks : m \in ticks[j] <=> j = k
    BY <1>3 DEF TakenOnce
  <2>2. \A j \in DOMAIN more : m \in more[j] <=> j = k
    BY <1>1, <1>2, <1>3, <2>1
  <2>3. k \in DOMAIN more
    BY <1>1, <1>2
  <2> QED BY <2>2, <2>3, Zenon DEF TakenOnce
<1>4. ASSUME NotTaken(m, ticks), m \in due PROVE TakenOnce(m, more)
  <2>1. \A j \in DOMAIN more : m \in more[j] <=> j = n + 1
    BY <1>1, <1>2, <1>4 DEF NotTaken
  <2>2. n + 1 \in DOMAIN more
    BY <1>2
  <2> QED BY <2>1, <2>2, Zenon DEF TakenOnce
<1>5. ASSUME NotTaken(m, ticks), m \notin due PROVE NotTaken(m, more)
  BY <1>1, <1>2, <1>5 DEF NotTaken
<1> QED BY <1>0, <1>2, <1>3, <1>4, <1>5

(* A tick takes the occurrences of a routine since the last tick. *)
LEMMA FireTakes ==
  ASSUME SettingsOK, TicksOK, SchedulesOK, NEW r \in Ag!Routines, Ag!Fire(r)
  PROVE  TicksOK' /\ SchedulesOK'
<1>0. scan # Ag!Still /\ r \in scan.left /\ UNCHANGED <<minute, lastTick, muted>>
  BY DEF Ag!Fire, Ag!Still
<1>1. /\ scan'.now = scan.now /\ scan'.paused = scan.paused /\ scan'.left = scan.left \ {r}
      /\ scan' \in [now: Nat, paused: SUBSET Ag!Routines, left: SUBSET Ag!Routines]
  BY <1>0 DEF Ag!Fire, TicksOK
<1>2. scan' # Ag!Still
  BY <1>0, <1>1 DEF TicksOK, Ag!Still
<1>3. TicksOK'
  BY <1>0, <1>1, <1>2 DEF TicksOK
<1>4. Dealt(r) = lastTick /\ Dealt(r)' = scan.now
  BY <1>0, <1>1, <1>2 DEF Dealt
<1>5. \A q \in Ag!Routines \ {r} : Dealt(q)' = Dealt(q)
  BY <1>0, <1>1, <1>2 DEF Dealt
<1>6. PICK due : due = Ag!DueIn(r, lastTick, scan.now)
  OBVIOUS
<1>7. /\ due \in SUBSET Nat
      /\ \A m \in Cron[r] : m \in due <=> lastTick < m /\ m =< scan.now
  BY <1>6 DEF Ag!DueIn, SettingsOK
<1>8. /\ fired' = [fired EXCEPT ![r] = fired[r] \o <<due>>] /\ fired[r] \in Seq(SUBSET Nat)
      /\ lastTick \in Nat /\ scan.now \in Nat /\ lastTick < scan.now
  BY <1>0, <1>6 DEF Ag!Fire, SchedulesOK, TicksOK
<1>9. fired[r] \o <<due>> \in Seq(SUBSET Nat)
  BY <1>7, <1>8
<1>11. /\ fired' \in [Ag!Routines -> Seq(SUBSET Nat)] /\ fired'[r] = fired[r] \o <<due>>
       /\ \A q \in Ag!Routines \ {r} : fired'[q] = fired[q]
  BY <1>8, <1>9 DEF SchedulesOK
<1>12. ScheduleOK(r)'
  <2>1. ASSUME NEW m \in Cron[r]
        PROVE  /\ m =< scan.now => TakenOnce(m, fired'[r])
               /\ m > scan.now => NotTaken(m, fired'[r])
    <3>1. m \in Nat
      BY DEF SettingsOK
    <3>2. /\ m =< lastTick => TakenOnce(m, fired[r])
          /\ m > lastTick => NotTaken(m, fired[r])
      BY <1>4 DEF SchedulesOK, ScheduleOK
    <3>3. CASE m =< lastTick
      <4>1. m \notin due /\ m =< scan.now
        BY <1>7, <1>8, <3>1, <3>3
      <4> QED BY <1>7, <1>8, <1>11, <3>1, <3>2, <3>3, <4>1, OneMoreTick
    <3>4. CASE m > lastTick
      <4>1. m \in due <=> m =< scan.now
        BY <1>7, <3>4
      <4> QED BY <1>7, <1>8, <1>11, <3>1, <3>2, <3>4, <4>1, OneMoreTick
    <3> QED BY <1>8, <3>1, <3>3, <3>4
  <2> QED BY <1>4, <2>1 DEF ScheduleOK
<1>13. \A q \in Ag!Routines \ {r} : ScheduleOK(q)'
  BY <1>5, <1>11 DEF SchedulesOK, ScheduleOK
<1> QED BY <1>3, <1>11, <1>12, <1>13 DEF SchedulesOK

(* Ticks that begin and end, the time that passes, and the pauses. *)
LEMMA TicksKeep ==
  ASSUME TicksOK, SchedulesOK,
         Ag!Tick \/ Ag!TickEnds \/ Ag!Passes \/ \E r \in Ag!Routines : Ag!SetPaused(r)
  PROVE  TicksOK' /\ SchedulesOK'
<1>1. UNCHANGED fired
  BY DEF Ag!Tick, Ag!TickEnds, Ag!Passes, Ag!SetPaused
<1>2. TicksOK'
  <2>1. CASE Ag!Tick
    BY <2>1 DEF Ag!Tick, TicksOK
  <2>2. CASE Ag!TickEnds
    BY <2>2 DEF Ag!TickEnds, TicksOK, Ag!Still
  <2>3. CASE Ag!Passes
    BY <2>3 DEF Ag!Passes, TicksOK
  <2>4. CASE \E r \in Ag!Routines : Ag!SetPaused(r)
    BY <2>4 DEF Ag!SetPaused, TicksOK
  <2> QED BY <2>1, <2>2, <2>3, <2>4
<1>3. \A r \in Ag!Routines : Dealt(r)' = Dealt(r)
  <2>1. CASE Ag!Tick
    BY <2>1 DEF Ag!Tick, Dealt
  <2>2. CASE Ag!TickEnds
    BY <2>2 DEF Ag!TickEnds, Dealt
  <2>3. CASE Ag!Passes \/ \E r \in Ag!Routines : Ag!SetPaused(r)
    BY <2>3 DEF Ag!Passes, Ag!SetPaused, Dealt
  <2> QED BY <2>1, <2>2, <2>3
<1>4. \A r \in Ag!Routines : ScheduleOK(r)'
  BY <1>1, <1>3 DEF SchedulesOK, ScheduleOK
<1> QED BY <1>1, <1>2, <1>4 DEF SchedulesOK

(* A restart ends every flight; the rows it leaves behind are excused    *)
(* from then on.                                                         *)
LEMMA RestartKeeps ==
  ASSUME SettingsOK, AmbientInv, Ag!Restart PROVE AmbientInv'
<1>1. /\ lastTick' = minute /\ minute' = minute /\ scan' = Ag!Still /\ muted' = {} /\ running' = {}
      /\ flights' = {} /\ downs' = downs + 1 /\ logs' = logs
      /\ fired' = [r \in Ag!Routines |-> <<{m \in Cron[r] : m =< minute}>>]
  BY DEF Ag!Restart
<1>2. FlightsOK'
  BY <1>1 DEF FlightsOK, Ag!OneAtATime
<1>3. LogsOK'
  BY <1>1 DEF AmbientInv, LogsOK
<1>4. TicksOK'
  BY <1>1 DEF AmbientInv, TicksOK, Ag!Still
<1>5. SchedulesOK'
  <2>1. \A r \in Ag!Routines : {m \in Cron[r] : m =< minute} \in SUBSET Nat
    BY DEF SettingsOK
  <2>2. fired' \in [Ag!Routines -> Seq(SUBSET Nat)]
    BY <1>1, <2>1
  <2>3. ASSUME NEW r \in Ag!Routines PROVE ScheduleOK(r)'
    <3>1. Dealt(r)' = minute
      BY <1>1 DEF Dealt
    <3>2. DOMAIN fired'[r] = {1} /\ fired'[r][1] = {m \in Cron[r] : m =< minute}
      BY <1>1
    <3>3. \A m \in Cron[r] : m \in Nat
      BY DEF SettingsOK
    <3>4. /\ \A m \in Cron[r] : m =< minute => TakenOnce(m, fired'[r])
          /\ \A m \in Cron[r] : m > minute => NotTaken(m, fired'[r])
      BY <3>2, <3>3 DEF TakenOnce, NotTaken, AmbientInv, TicksOK
    <3> QED BY <3>1, <3>4 DEF ScheduleOK
  <2> QED BY <2>2, <2>3 DEF SchedulesOK
<1> QED BY <1>2, <1>3, <1>4, <1>5 DEF AmbientInv

(* Every step of the background work keeps its invariant. *)
LEMMA AmbientStep ==
  ASSUME SettingsOK, AmbientInv, Ag!Ambient PROVE AmbientInv'
<1>0. FlightsOK /\ LogsOK /\ TicksOK /\ SchedulesOK
  BY DEF AmbientInv
<1>1. ASSUME NEW r \in Ag!Routines, Ag!RunNow(r) PROVE AmbientInv'
  <2>1. Ag!Launch(r) /\ UNCHANGED <<logs, downs, minute, lastTick, scan, muted, fired>>
    BY <1>1 DEF Ag!RunNow
  <2> QED BY <1>0, <2>1, LaunchKeeps, ScheduleRests DEF AmbientInv
<1>2. ASSUME NEW r \in Ag!Routines, Ag!Fire(r) PROVE AmbientInv'
  <2>1. (Ag!Launch(r) \/ UNCHANGED <<running, flights>>) /\ UNCHANGED <<logs, downs>>
    BY <1>2 DEF Ag!Fire
  <2> QED BY <1>0, <1>2, <2>1, LaunchKeeps, FireTakes DEF AmbientInv
<1>3. ASSUME NEW f \in flights,
             Ag!Begin(f) \/ Ag!Report(f) \/ \E status \in {"ok", "failed"} : Ag!Finish(f, status)
      PROVE  AmbientInv'
  <2>1. UNCHANGED <<minute, lastTick, scan, muted, fired>>
    BY <1>3 DEF Ag!Begin, Ag!Report, Ag!Finish
  <2> QED BY <1>0, <1>3, <2>1, RunsKeep, ScheduleRests DEF AmbientInv
<1>4. ASSUME Ag!Tick \/ Ag!TickEnds \/ Ag!Passes \/ \E r \in Ag!Routines : Ag!SetPaused(r)
      PROVE  AmbientInv'
  <2>1. UNCHANGED <<running, flights, logs, downs>>
    BY <1>4 DEF Ag!Tick, Ag!TickEnds, Ag!Passes, Ag!SetPaused
  <2> QED BY <1>0, <1>4, <2>1, TicksKeep, RunsRest DEF AmbientInv
<1> QED BY <1>1, <1>2, <1>3, <1>4, RestartKeeps DEF Ag!Ambient

(* What the background work promises follows from its invariant. *)
LEMMA AmbientImplies ==
  ASSUME SettingsOK, AmbientInv PROVE Ag!OneAtATime /\ Ag!LedgerTruthful /\ Ag!OccurrencesOnce
<1>1. Ag!OneAtATime
  BY DEF AmbientInv, FlightsOK
<1>2. Ag!LedgerTruthful
  BY DEF AmbientInv, LogsOK, Ag!LedgerTruthful
<1>3. Ag!OccurrencesOnce
  <2> SUFFICES ASSUME scan = Ag!Still, NEW r \in Ag!Routines, NEW m \in Cron[r], m =< lastTick
               PROVE  Cardinality({k \in DOMAIN fired[r] : m \in fired[r][k]}) = 1
    BY MemoryCards DEF Ag!OccurrencesOnce
  <2>1. PICK k \in DOMAIN fired[r] : \A j \in DOMAIN fired[r] : m \in fired[r][j] <=> j = k
    BY DEF AmbientInv, SchedulesOK, ScheduleOK, TakenOnce, Dealt
  <2>2. {j \in DOMAIN fired[r] : m \in fired[r][j]} = {k}
    BY <2>1
  <2> QED BY <2>2, FS_Singleton
<1> QED BY <1>1, <1>2, <1>3

-----------------------------------------------------------------------------
(* Memory *)

Alike(m, n) == m.kind = n.kind /\ m.text = n.text /\ m.project = n.project

(* What a remember is about to add is not there yet. *)
LearnInv == /\ IsFiniteSet(memories)
            /\ Ag!StoredOnce
            /\ learner # Ag!Nothing /\ ~crowded /\ ~learner.known =>
                  \A m \in memories : ~Alike(m, learner)

(* The store of memories starts empty. *)
LEMMA LearnStart ==
  ASSUME Ag!Init PROVE LearnInv
  BY FS_EmptySet DEF Ag!Init, LearnInv, Ag!StoredOnce

(* Remembering and forgetting keep memories apart while the search was   *)
(* complete.                                                             *)
LEMMA LearnStep ==
  ASSUME SettingsOK, LearnInv, Ag!Learning PROVE LearnInv'
<1> USE DEF LearnInv
<1>1. ASSUME NEW kind \in {"profile", "lesson", "session"}, NEW text \in Texts, NEW skill \in Skills,
             Ag!StartRemember(kind, text, skill)
      PROVE  LearnInv'
  <2> DEFINE like == Ag!Matching(text, skill)
  <2>1. PICK found \in SUBSET like :
           /\ Cardinality(found) = (IF Cardinality(like) < SearchLimit THEN Cardinality(like)
                                    ELSE SearchLimit)
           /\ learner' = [kind |-> kind, text |-> text, project |-> Ag!ProjectOf(kind, skill),
                          known |-> \E m \in found : m.kind = kind]
    BY <1>1, MemoryCards DEF Ag!StartRemember
  <2>2. UNCHANGED memories /\ crowded' = (crowded \/ Cardinality(like) > SearchLimit)
    BY <1>1, MemoryCards DEF Ag!StartRemember
  <2>3. IsFiniteSet(like)
    BY FS_Subset DEF Ag!Matching
  <2>4. Cardinality(like) \in Nat
    BY <2>3, FS_CardinalityType
  <2>5. ~crowded' => found = like
    <3>1. ~crowded' => Cardinality(found) = Cardinality(like)
      <4>0. PICK n \in Nat : n = Cardinality(like)
        BY <2>4
      <4>1. ~crowded' => ~(n > SearchLimit)
        BY <2>2, <4>0
      <4>2. Cardinality(found) = (IF n < SearchLimit THEN n ELSE SearchLimit)
        BY <2>1, <4>0
      <4> QED BY <4>0, <4>1, <4>2 DEF SettingsOK
    <3> QED BY <2>3, <3>1, FS_Subset
  <2>6. Ag!StoredOnce'
    BY <2>2 DEF Ag!StoredOnce
  <2>7. ASSUME ~crowded', ~learner'.known, NEW m \in memories PROVE ~Alike(m, learner')
    <3>1. m \in like => m.kind # kind
      BY <2>1, <2>5, <2>7
    <3> QED BY <2>1, <3>1 DEF Alike, Ag!Matching, Ag!ProjectOf
  <2> QED BY <2>2, <2>6, <2>7
<1>2. ASSUME Ag!FinishRemember PROVE LearnInv'
  <2>0. learner # Ag!Nothing /\ learner' = Ag!Nothing /\ UNCHANGED crowded
    BY <1>2 DEF Ag!FinishRemember
  <2>1. CASE UNCHANGED memories
    BY <2>0, <2>1 DEF Ag!StoredOnce
  <2>2. CASE ~UNCHANGED memories
    <3>1. PICK id :
             /\ ~(learner.known /\ learner.kind # "session")
             /\ memories' = memories \cup {[id |-> id, kind |-> learner.kind, text |-> learner.text,
                                           project |-> learner.project]}
      BY <1>2, <2>2 DEF Ag!FinishRemember
    <3>2. PICK row : /\ memories' = memories \cup {row} /\ Alike(row, learner)
      <4>1. PICK row : row = [id |-> id, kind |-> learner.kind, text |-> learner.text,
                              project |-> learner.project]
        OBVIOUS
      <4>2. Alike(row, learner)
        BY <4>1 DEF Alike
      <4> QED BY <3>1, <4>1, <4>2
    <3>3. IsFiniteSet(memories')
      BY <3>2, FS_AddElement
    <3>4. ~crowded /\ row.kind # "session" => \A m \in memories : ~Alike(m, row)
      BY <2>0, <3>1, <3>2 DEF Alike
    <3>5. Ag!StoredOnce'
      BY <2>0, <3>2, <3>4 DEF Ag!StoredOnce, Alike
    <3> QED BY <2>0, <3>3, <3>5
  <2> QED BY <2>1, <2>2
<1>3. ASSUME NEW text, NEW project, Ag!Forget(text, project) PROVE LearnInv'
  <2>1. memories' \subseteq memories /\ UNCHANGED <<learner, crowded>>
    BY <1>3 DEF Ag!Forget
  <2> QED BY <2>1, FS_Subset DEF Ag!StoredOnce
<1> QED BY <1>1, <1>2, <1>3 DEF Ag!Learning

-----------------------------------------------------------------------------
(* Theorems *)

(* The step of one part leaves the state of the others as it is. *)
LEMMA PartsApart ==
  /\ Ag!Conversing => UNCHANGED <<Ag!work, Ag!ops, Ag!recall>>
  /\ Ag!Planning => UNCHANGED <<Ag!gate, Ag!ops, Ag!recall>>
  /\ Ag!Ambient => UNCHANGED <<Ag!gate, Ag!work, Ag!recall>>
  /\ Ag!Learning => UNCHANGED <<Ag!gate, Ag!work, Ag!ops>>
<1>1. Ag!Conversing => UNCHANGED <<Ag!work, Ag!ops, Ag!recall>>
  BY DEF Ag!Conversing, Ag!Connect, Ag!Context, Ag!Expire, Ag!Close, Ag!Dispatch, Ag!Resolve,
     Ag!Answered, Ag!Unanswered,
         Ag!Perform, Ag!Deadline
<1>2. Ag!Planning => UNCHANGED <<Ag!gate, Ag!ops, Ag!recall>>
  BY DEF Ag!Planning, Ag!PlanTasks, Ag!UpdateTask, Ag!TurnDone, Ag!Nudge
<1>3. Ag!Ambient => UNCHANGED <<Ag!gate, Ag!work, Ag!recall>>
  BY DEF Ag!Ambient, Ag!RunNow, Ag!Begin, Ag!Finish, Ag!Report, Ag!SetPaused, Ag!Tick, Ag!Fire,
     Ag!TickEnds, Ag!Passes, Ag!Restart
<1>4. Ag!Learning => UNCHANGED <<Ag!gate, Ag!work, Ag!ops>>
  BY DEF Ag!Learning, Ag!StartRemember, Ag!FinishRemember, Ag!Forget
<1> QED BY <1>1, <1>2, <1>3, <1>4

(* A part of the assistant whose variables rest keeps its invariant. *)
LEMMA OthersRest ==
  /\ PlanInv /\ UNCHANGED Ag!work => PlanInv'
  /\ AmbientInv /\ UNCHANGED Ag!ops => AmbientInv'
  /\ LearnInv /\ UNCHANGED Ag!recall => LearnInv'
<1>1. PlanInv /\ UNCHANGED Ag!work => PlanInv'
  BY DEF PlanInv, Ag!NudgesSpent, Ag!work
<1>2. AmbientInv /\ UNCHANGED Ag!ops => AmbientInv'
  BY RunsRest, ScheduleRests DEF AmbientInv, Ag!ops
<1>3. LearnInv /\ UNCHANGED Ag!recall => LearnInv'
  BY DEF LearnInv, Ag!StoredOnce, Ag!recall
<1> QED BY <1>1, <1>2, <1>3

(* Whatever the model asks for, whenever the user answers and whichever    *)
(* deadline passes first, what the ERP does for the assistant was allowed, *)
(* approved where it posts, done as the session's user, and recorded as    *)
(* such; and the assistant is nudged no more often than it may be.         *)
THEOREM Supervised ==
  SettingsOK => (Ag!Spec => [](/\ Ag!PostsOnlyApproved /\ Ag!RefusedStaysUndone
                               /\ Ag!ActsAsItsUser /\ Ag!Audited /\ Ag!NudgesSpent))
<1> SUFFICES ASSUME SettingsOK
             PROVE  Ag!Spec => [](/\ Ag!PostsOnlyApproved /\ Ag!RefusedStaysUndone
                                  /\ Ag!ActsAsItsUser /\ Ag!Audited /\ Ag!NudgesSpent)
  OBVIOUS
<1>1. Ag!Init => GateInv /\ PlanInv
  BY GateStart, PlanStart
<1>2. GateInv /\ PlanInv /\ [Ag!Next]_Ag!vars => GateInv' /\ PlanInv'
  <2>1. UNCHANGED Ag!vars => UNCHANGED <<Ag!gate, Ag!work>>
    BY DEF Ag!vars, Ag!gate, Ag!work
  <2> QED BY <2>1, GateStep, PlanStep, GateRests, PartsApart, OthersRest DEF Ag!Next
<1>3. GateInv /\ PlanInv => /\ Ag!PostsOnlyApproved /\ Ag!RefusedStaysUndone
                            /\ Ag!ActsAsItsUser /\ Ag!Audited /\ Ag!NudgesSpent
  BY GateImplies DEF PlanInv
<1> QED BY <1>1, <1>2, <1>3, PTL DEF Ag!Spec

(* However long a tick takes and however the runs, the pauses and the      *)
(* restarts fall, a routine does not run twice at once, the ledger of runs *)
(* tells the truth until a restart, every occurrence is dealt with once,   *)
(* and a fact is stored once while the search shows all that is like it.   *)
THEOREM WorkDoneOnce ==
  SettingsOK => (Ag!Spec => [](Ag!OneAtATime /\ Ag!LedgerTruthful /\ Ag!OccurrencesOnce /\ Ag!StoredOnce))
<1> SUFFICES ASSUME SettingsOK
             PROVE  Ag!Spec => [](Ag!OneAtATime /\ Ag!LedgerTruthful /\ Ag!OccurrencesOnce /\ Ag!StoredOnce)
  OBVIOUS
<1>1. Ag!Init => AmbientInv /\ LearnInv
  BY AmbientStart, LearnStart
<1>2. AmbientInv /\ LearnInv /\ [Ag!Next]_Ag!vars => AmbientInv' /\ LearnInv'
  <2>1. UNCHANGED Ag!vars => UNCHANGED <<Ag!ops, Ag!recall>>
    BY DEF Ag!vars, Ag!ops, Ag!recall
  <2> QED BY <2>1, AmbientStep, LearnStep, PartsApart, OthersRest DEF Ag!Next
<1>3. AmbientInv /\ LearnInv => Ag!OneAtATime /\ Ag!LedgerTruthful /\ Ag!OccurrencesOnce /\ Ag!StoredOnce
  BY AmbientImplies DEF LearnInv
<1> QED BY <1>1, <1>2, <1>3, PTL DEF Ag!Spec

-----------------------------------------------------------------------------
(* Portal accounts are usable, and only by their owner, for every set of   *)
(* addresses, requests in progress and browsers.  Accounts and sessions    *)
(* share no state that either invariant needs, so each part has its own.   *)

-----------------------------------------------------------------------------
(* Accounts *)

AccountRecord == [status: {"none", "pending", "active", "rejected", "invited"}, password: BOOLEAN,
                  master: Nat, link: Nat, fresh: BOOLEAN]

(* A link goes to the owner of an account that is not a supplier's; who is *)
(* neither supplier nor customer is named by the invitation.               *)
AccountOK(u) ==
    /\ ~Po!Exists(u) => accounts[u] = Po!NoAccount
    /\ accounts[u].link =< links
    /\ accounts[u].link # 0 => Class[u] # "Vendor" /\ Po!Exists(u)
    /\ accounts[u].fresh => accounts[u].link # 0
    /\ accounts[u].status = "active" /\ Class[u] = "Vendor" => accounts[u].master # 0
    /\ Po!Exists(u) /\ Class[u] \notin {"Vendor", "Customer"} => accounts[u].master # 0
    /\ u \in joined => Po!Exists(u)

(* No two accounts have one link. *)
LinksApart == \A u, v \in Emails : u # v /\ accounts[u].link = accounts[v].link => accounts[u].link = 0

(* What a request has read still holds in the way it relies on. *)
DeskOK(q) ==
    /\ q.op \in {"approve", "signup", "invite", "link", "set"} => q.for \in Emails
    /\ q.op = "approve" => Class[q.for] = "Vendor" /\ q.master \in Nat \ {0}
    /\ q.op = "signup" => Class[q.for] = "Customer"
    /\ q.op = "invite" => /\ Class[q.for] # "Vendor" /\ q.password \in BOOLEAN
                          /\ q.master \in {0, 1} /\ (q.master = 0 => Class[q.for] = "Customer")
    /\ q.op = "link" => Class[q.for] # "Vendor" /\ Po!Exists(q.for)
    /\ q.op = "set" => /\ Class[q.for] # "Vendor" /\ Po!Exists(q.for)
                       /\ q.link \in 1..links
                       /\ \A u \in Emails : u # q.for => accounts[u].link # q.link

AccountsOK == /\ accounts \in [Emails -> AccountRecord] /\ links \in Nat /\ masters \in Nat
              /\ \A u \in Emails : AccountOK(u)
              /\ LinksApart

DesksOK == DOMAIN desks = Desks /\ \A d \in Desks : DeskOK(desks[d])

HistoryOK == /\ used \subseteq 1..links /\ DOMAIN leads = Emails
             /\ Po!InvitedCanEnter /\ Po!LinkSingleUse /\ Po!SignupHasLead

OpeningInv == AccountsOK /\ DesksOK /\ HistoryOK

(* No account exists before the first request. *)
LEMMA OpeningStart ==
  ASSUME Po!Init PROVE OpeningInv
<1> USE DEF Po!Init, Po!NoAccount
<1>1. AccountsOK
  BY DEF AccountsOK, AccountRecord, AccountOK, LinksApart, Po!Exists
<1>2. DesksOK
  BY DEF DesksOK, DeskOK, Po!AtRest
<1>3. HistoryOK
  BY DEF HistoryOK, Po!InvitedCanEnter, Po!LinkSingleUse, Po!SignupHasLead
<1> QED BY <1>1, <1>2, <1>3 DEF OpeningInv

(* Requests that touch no account leave the invariant of accounts. *)
LEMMA OpeningRests ==
  ASSUME OpeningInv, UNCHANGED Po!opening PROVE OpeningInv'
<1>0. UNCHANGED <<accounts, masters, links, used, leads, joined, desks>>
  BY DEF Po!opening
<1>1. AccountsOK'
  BY <1>0 DEF OpeningInv, AccountsOK, AccountOK, LinksApart, Po!Exists
<1>2. DesksOK'
  BY <1>0 DEF OpeningInv, DesksOK, DeskOK, Po!Exists
<1>3. HistoryOK'
  BY <1>0 DEF OpeningInv, HistoryOK, Po!InvitedCanEnter, Po!LinkSingleUse, Po!SignupHasLead
<1> QED BY <1>1, <1>2, <1>3 DEF OpeningInv

(* What every step writes: the row of one address, in a way that keeps the *)
(* other rows and what the requests in progress rely on.                   *)
Writes(u, a) ==
    /\ a \in AccountRecord /\ a.status # "none"
    /\ accounts' = [accounts EXCEPT ![u] = a]
    /\ links' \in {links, links + 1} /\ masters' = masters
    /\ \/ a.link \in {0, accounts[u].link}
       \/ links' = links + 1 /\ a.link = links + 1 /\ Class[u] # "Vendor"
    /\ a.fresh => a.link # 0
    /\ a.status = "active" /\ Class[u] = "Vendor" => a.master # 0
    /\ Class[u] \notin {"Vendor", "Customer"} => a.master # 0
    /\ joined' \subseteq joined \cup {u}

(* An account row is replaced by a sound one that loses neither its link *)
(* nor its past: the requests that read the old row stay right.          *)
LEMMA RowWritten ==
  ASSUME AccountsOK, NEW u \in Emails, NEW a, Writes(u, a)
  PROVE  /\ AccountsOK'
         /\ accounts'[u] = a /\ \A v \in Emails \ {u} : accounts'[v] = accounts[v]
         /\ \A q : DeskOK(q) => DeskOK(q)'
<1>1. /\ a \in AccountRecord /\ a.status # "none" /\ accounts' = [accounts EXCEPT ![u] = a]
      /\ links \in Nat /\ links' \in Nat /\ links =< links' /\ accounts[u] \in AccountRecord
      /\ \/ a.link \in {0, accounts[u].link}
         \/ links' = links + 1 /\ a.link = links + 1 /\ Class[u] # "Vendor"
  BY DEF Writes, AccountsOK
<1>2. /\ accounts'[u] = a /\ \A v \in Emails \ {u} : accounts'[v] = accounts[v]
      /\ accounts' \in [Emails -> AccountRecord]
  BY <1>1 DEF AccountsOK
<1>3. AccountOK(u)'
  BY <1>1, <1>2 DEF AccountsOK, AccountOK, AccountRecord, Po!Exists, Writes
<1>4. ASSUME NEW v \in Emails \ {u} PROVE AccountOK(v)'
  <2>1. accounts'[v] = accounts[v] /\ AccountOK(v) /\ accounts[v].link \in Nat
        /\ (v \in joined' => v \in joined)
    BY <1>2 DEF AccountsOK, AccountRecord, Writes
  <2> QED BY <1>1, <2>1 DEF AccountOK, Po!Exists
<1>5. LinksApart'
  <2>1. \A v \in Emails : accounts[v].link \in Nat /\ accounts[v].link =< links
    BY DEF AccountsOK, AccountOK, AccountRecord
  <2> QED BY <1>1, <1>2, <2>1 DEF AccountsOK, LinksApart
<1>6. ASSUME NEW q, DeskOK(q) PROVE DeskOK(q)'
  <2>1. q.op \in {"link", "set"} => Po!Exists(q.for)'
    BY <1>1, <1>2, <1>6 DEF DeskOK, Po!Exists
  <2>2. q.op = "set" => q.link \in 1..links'
    BY <1>1, <1>6 DEF DeskOK
  <2>3. ASSUME q.op = "set", NEW v \in Emails, v # q.for PROVE accounts'[v].link # q.link
    BY <1>1, <1>2, <1>6, <2>3 DEF DeskOK
  <2> QED BY <1>6, <2>1, <2>2, <2>3 DEF DeskOK
<1> QED BY <1>1, <1>2, <1>3, <1>4, <1>5, <1>6 DEF AccountsOK, Writes

(* One request goes on, the others stay where they are. *)
LEMMA DeskMoves ==
  ASSUME DesksOK, NEW d \in Desks, NEW q, desks' = [desks EXCEPT ![d] = q],
         DeskOK(q)', \A p : DeskOK(p) => DeskOK(p)'
  PROVE  DesksOK' /\ desks'[d] = q /\ \A e \in Desks \ {d} : desks'[e] = desks[e]
<1>1. /\ DOMAIN desks' = Desks /\ desks'[d] = q
      /\ \A e \in Desks \ {d} : desks'[e] = desks[e]
  BY DEF DesksOK
<1>2. ASSUME NEW e \in Desks PROVE \E p : p = desks'[e] /\ DeskOK(p)'
  <2>1. CASE e = d
    BY <1>1, <2>1
  <2>2. CASE e # d
    <3>1. PICK p : p = desks[e]
      OBVIOUS
    <3>2. DeskOK(p)
      BY <3>1 DEF DesksOK
    <3> QED BY <1>1, <2>2, <3>1, <3>2
  <2> QED BY <2>1, <2>2
<1>3. ASSUME NEW e \in Desks PROVE DeskOK(desks[e])'
  <2>1. PICK p : p = desks'[e] /\ DeskOK(p)'
    BY <1>2
  <2> QED BY <2>1 DEF DeskOK, Po!Exists
<1> QED BY <1>1, <1>3 DEF DesksOK

(* Requests under way stay sound while what they know stays true. *)
LEMMA DesksRest ==
  ASSUME DesksOK, UNCHANGED desks, \A p : DeskOK(p) => DeskOK(p)'
  PROVE  DesksOK'
<1>1. ASSUME NEW e \in Desks PROVE DeskOK(desks[e])'
  <2>1. PICK p : p = desks[e]
    OBVIOUS
  <2>2. DeskOK(p)'
    BY <2>1 DEF DesksOK
  <2> QED BY <2>1, <2>2 DEF DeskOK, Po!Exists
<1> QED BY <1>1 DEF DesksOK

(* A link is about to be stored for an address. *)
Awaits(v) == \E d \in DOMAIN desks : desks[d].op = "link" /\ desks[d].for = v

(* Who is invited keeps a way in; a link that was used is in no account. *)
LEMMA HistoryKeeps ==
  ASSUME AccountsOK, HistoryOK, NEW u \in Emails, NEW a, Writes(u, a), UNCHANGED <<leads, joined>>,
         a.status = "invited" => a.link # 0 \/ Awaits(u)',
         \A v \in Emails \ {u} : Awaits(v) => Awaits(v)',
         \/ used' = used
         \/ \E l \in 1..links : /\ used' = used \cup {l} /\ a.link = 0
                                /\ \A v \in Emails : v # u => accounts[v].link # l
  PROVE  HistoryOK'
<1>1. accounts'[u] = a /\ \A v \in Emails \ {u} : accounts'[v] = accounts[v]
  BY RowWritten
<1>2. links \in Nat /\ links' \in Nat /\ links =< links' /\ used \subseteq 1..links
  BY DEF AccountsOK, Writes, HistoryOK
<1>3. used' \subseteq 1..links'
  <2>1. 1..links \subseteq 1..links'
    BY <1>2
  <2> QED BY <1>2, <2>1
<1>4. ASSUME NEW v \in Emails, accounts'[v].status = "invited"
      PROVE  accounts'[v].link # 0 \/ Awaits(v)'
  BY <1>1, <1>4 DEF HistoryOK, Po!InvitedCanEnter, Awaits
<1>5. ASSUME NEW v \in Emails PROVE accounts'[v].link \notin used'
  <2>1. accounts[v].link \notin used /\ accounts[u].link \notin used
    BY DEF HistoryOK, Po!LinkSingleUse
  <2>2. 0 \notin used' /\ (links + 1) \notin used'
    BY <1>2
  <2>3. a.link \in {0, accounts[u].link, links + 1}
    BY DEF Writes
  <2> QED BY <1>1, <2>1, <2>2, <2>3
<1>6. Po!SignupHasLead' /\ DOMAIN leads' = Emails
  BY DEF HistoryOK, Po!SignupHasLead
<1>7. Po!InvitedCanEnter' /\ Po!LinkSingleUse'
  BY <1>4, <1>5 DEF Po!InvitedCanEnter, Po!LinkSingleUse, Awaits
<1> QED BY <1>3, <1>6, <1>7 DEF HistoryOK

(* A request that only asks, or ends without a write. *)
LEMMA AskKeeps ==
  ASSUME OpeningInv, NEW d \in Desks, NEW q, desks' = [desks EXCEPT ![d] = q], DeskOK(q),
         desks[d].op # "link", masters' \in Nat, UNCHANGED <<accounts, links, used, leads, joined>>
  PROVE  OpeningInv'
<1>1. AccountsOK'
  BY DEF OpeningInv, AccountsOK, AccountOK, LinksApart, Po!Exists
<1>2. \A p : DeskOK(p) => DeskOK(p)'
  BY DEF DeskOK, Po!Exists
<1>3. DesksOK' /\ \A e \in Desks \ {d} : desks'[e] = desks[e]
  BY <1>2, DeskMoves DEF OpeningInv
<1>4. \A v : Awaits(v) => Awaits(v)'
  BY <1>3 DEF OpeningInv, DesksOK, Awaits
<1>5. HistoryOK'
  BY <1>4 DEF OpeningInv, HistoryOK, Po!InvitedCanEnter, Po!LinkSingleUse, Po!SignupHasLead, Awaits
<1> QED BY <1>1, <1>3, <1>5 DEF OpeningInv

(* A request that writes the row, *)
LEMMA DeskWrites ==
  ASSUME OpeningInv, NEW d \in Desks, NEW q, desks' = [desks EXCEPT ![d] = q],
         NEW u \in Emails, NEW a, Writes(u, a), DeskOK(q)',
         desks[d].op = "link" => desks[d].for = u,
         a.status = "invited" => a.link # 0 \/ Awaits(u)'
  PROVE  /\ AccountsOK' /\ DesksOK'
         /\ \A v \in Emails \ {u} : Awaits(v) => Awaits(v)'
<1>1. AccountsOK' /\ \A p : DeskOK(p) => DeskOK(p)'
  BY RowWritten DEF OpeningInv
<1>2. DesksOK' /\ \A e \in Desks \ {d} : desks'[e] = desks[e]
  BY <1>1, DeskMoves DEF OpeningInv
<1>3. ASSUME NEW v \in Emails \ {u}, Awaits(v) PROVE Awaits(v)'
  BY <1>2, <1>3 DEF OpeningInv, DesksOK, Awaits
<1> QED BY <1>1, <1>2, <1>3

(* and one that needs a single statement. *)
LEMMA RowKeeps ==
  ASSUME OpeningInv, NEW u \in Emails, NEW a, Writes(u, a),
         UNCHANGED <<used, leads, joined, desks>>,
         a.status = "invited" => accounts[u].status = "invited" /\ (accounts[u].link # 0 => a.link # 0)
  PROVE  OpeningInv'
<1>1. AccountsOK' /\ \A p : DeskOK(p) => DeskOK(p)'
  BY RowWritten DEF OpeningInv
<1>2. DesksOK'
  BY <1>1, DesksRest DEF OpeningInv
<1>3. \A v : Awaits(v) => Awaits(v)'
  BY DEF Awaits
<1>4. a.status = "invited" => a.link # 0 \/ Awaits(u)'
  BY <1>3 DEF OpeningInv, HistoryOK, Po!InvitedCanEnter, Awaits
<1>5. HistoryOK'
  BY <1>3, <1>4, HistoryKeeps DEF OpeningInv
<1> QED BY <1>1, <1>2, <1>5 DEF OpeningInv

(* The handlers of one statement keep the invariant of accounts. *)
LEMMA PlainStepsKeep ==
  ASSUME OpeningInv, NEW u \in Emails,
         Po!Register(u) \/ Po!Reject(u) \/ Po!ForgotPassword(u) \/ Po!LinkExpires(u)
  PROVE  OpeningInv'
<1>0. /\ accounts \in [Emails -> AccountRecord] /\ accounts[u] \in AccountRecord
      /\ links \in Nat /\ AccountOK(u)
  BY DEF OpeningInv, AccountsOK
<1>1. CASE Po!Register(u)
  <2>1. PICK a : a = [Po!NoAccount EXCEPT !.status = "pending", !.password = TRUE]
    OBVIOUS
  <2>2. a \in AccountRecord /\ a.status = "pending" /\ a.link = 0 /\ ~a.fresh
    BY <2>1 DEF Po!NoAccount, AccountRecord
  <2>3. Writes(u, a) /\ UNCHANGED <<used, leads, joined, desks>>
    BY <1>1, <2>1, <2>2 DEF Po!Register, Writes
  <2> QED BY <2>2, <2>3, RowKeeps
<1>2. CASE Po!Reject(u)
  <2>1. PICK a : a = [accounts[u] EXCEPT !.status = "rejected"]
    OBVIOUS
  <2>2. /\ a \in AccountRecord /\ a.status = "rejected" /\ a.link = accounts[u].link
        /\ a.fresh = accounts[u].fresh /\ accounts' = [accounts EXCEPT ![u] = a]
    BY <1>0, <1>2, <2>1 DEF AccountRecord, Po!Reject
  <2>3. Writes(u, a) /\ UNCHANGED <<used, leads, joined, desks>>
    BY <1>0, <1>2, <2>2 DEF Po!Reject, Writes, AccountOK
  <2> QED BY <2>2, <2>3, RowKeeps
<1>3. CASE Po!ForgotPassword(u)
  <2>0. PICK n \in Nat : n = links + 1 /\ n # 0
    BY <1>0
  <2>1. PICK a : a = [accounts[u] EXCEPT !.link = n, !.fresh = TRUE]
    OBVIOUS
  <2>2. /\ a \in AccountRecord /\ a.status = accounts[u].status /\ a.link = n
        /\ a.master = accounts[u].master
    BY <1>0, <2>1 DEF AccountRecord
  <2>3. /\ accounts' = [accounts EXCEPT ![u] = a] /\ UNCHANGED <<masters, used, leads, joined, desks>>
        /\ links' = n /\ Class[u] # "Vendor" /\ Po!Exists(u)
    BY <1>0, <1>3, <2>0, <2>1 DEF Po!ForgotPassword
  <2>4. Writes(u, a) /\ a.link # 0
    BY <1>0, <2>0, <2>2, <2>3 DEF Writes, AccountOK, Po!Exists
  <2> QED BY <2>2, <2>3, <2>4, RowKeeps
<1>4. CASE Po!LinkExpires(u)
  <2>1. PICK a : a = [accounts[u] EXCEPT !.fresh = FALSE]
    OBVIOUS
  <2>2. /\ a \in AccountRecord /\ a.status = accounts[u].status /\ a.link = accounts[u].link
        /\ ~a.fresh /\ a.master = accounts[u].master /\ accounts' = [accounts EXCEPT ![u] = a]
    BY <1>0, <1>4, <2>1 DEF AccountRecord, Po!LinkExpires
  <2>3. Writes(u, a) /\ UNCHANGED <<used, leads, joined, desks>>
    BY <1>0, <1>4, <2>2 DEF Po!LinkExpires, Writes, AccountOK, Po!Exists
  <2> QED BY <2>2, <2>3, RowKeeps
<1> QED BY <1>1, <1>2, <1>3, <1>4

(* A handler that only reads keeps the invariant, and what it read is    *)
(* so.                                                                   *)
LEMMA AsksKeep ==
  ASSUME OpeningInv, NEW d \in Desks, NEW u \in Emails,
         \/ \E named \in 0 .. MaxMasters : Po!StartApprove(d, u, named)
         \/ \E named \in {0, 1}, withPassword \in BOOLEAN : Po!StartInvite(d, u, named, withPassword)
         \/ Po!StartSignup(d, u) \/ Po!StartSetPassword(d, u)
  PROVE  OpeningInv'
<1>0. masters \in Nat /\ links \in Nat /\ accounts[u] \in AccountRecord /\ AccountOK(u)
  BY DEF OpeningInv, AccountsOK
<1>a. desks[d] = Po!AtRest => desks[d].op # "link"
  BY DEF Po!AtRest
<1>1. ASSUME NEW named \in 0 .. MaxMasters, Po!StartApprove(d, u, named) PROVE OpeningInv'
  <2>1. PICK q : q = [op |-> "approve", for |-> u, master |-> IF named = 0 THEN masters + 1 ELSE named]
    OBVIOUS
  <2>2. /\ desks[d] = Po!AtRest /\ desks' = [desks EXCEPT ![d] = q] /\ masters' \in Nat
        /\ Class[u] = "Vendor" /\ UNCHANGED <<accounts, links, used, leads, joined>>
    BY <1>0, <1>1, <2>1 DEF Po!StartApprove
  <2>3. q.op = "approve" /\ q.for = u /\ q.master \in Nat \ {0}
    <3>1. (IF named = 0 THEN masters + 1 ELSE named) \in Nat \ {0}
      BY <1>0
    <3> QED BY <2>1, <3>1
  <2>4. DeskOK(q)
    BY <2>2, <2>3 DEF DeskOK
  <2> QED BY <1>a, <2>2, <2>4, AskKeeps
<1>2. ASSUME NEW named \in {0, 1}, NEW withPassword \in BOOLEAN, Po!StartInvite(d, u, named, withPassword)
      PROVE  OpeningInv'
  <2>1. PICK q : q = [op |-> "invite", for |-> u, known |-> Po!Exists(u), master |-> named,
                      password |-> withPassword]
    OBVIOUS
  <2>2. /\ desks[d] = Po!AtRest /\ desks' = [desks EXCEPT ![d] = q] /\ masters' \in Nat
        /\ Class[u] # "Vendor" /\ (named = 0 => Class[u] = "Customer")
        /\ UNCHANGED <<accounts, links, used, leads, joined>>
    BY <1>0, <1>2, <2>1 DEF Po!StartInvite
  <2>3. DeskOK(q)
    BY <2>1, <2>2 DEF DeskOK
  <2> QED BY <1>a, <2>2, <2>3, AskKeeps
<1>3. ASSUME Po!StartSignup(d, u) PROVE OpeningInv'
  <2>1. PICK q : q = [op |-> "signup", for |-> u]
    OBVIOUS
  <2>2. /\ desks[d] = Po!AtRest /\ desks' = [desks EXCEPT ![d] = q] /\ masters' \in Nat
        /\ Class[u] = "Customer" /\ UNCHANGED <<accounts, links, used, leads, joined>>
    BY <1>0, <1>3, <2>1 DEF Po!StartSignup
  <2>3. DeskOK(q)
    BY <2>1, <2>2 DEF DeskOK
  <2> QED BY <1>a, <2>2, <2>3, AskKeeps
<1>4. ASSUME Po!StartSetPassword(d, u) PROVE OpeningInv'
  <2>1. PICK q : q = [op |-> "set", for |-> u, link |-> accounts[u].link]
    OBVIOUS
  <2>2. /\ desks[d] = Po!AtRest /\ desks' = [desks EXCEPT ![d] = q] /\ masters' \in Nat
        /\ accounts[u].fresh /\ UNCHANGED <<accounts, links, used, leads, joined>>
    BY <1>0, <1>4, <2>1 DEF Po!StartSetPassword
  <2>3. accounts[u].link \in 1..links /\ Class[u] # "Vendor" /\ Po!Exists(u)
    BY <1>0, <2>2 DEF AccountOK, AccountRecord
  <2>4. \A v \in Emails : v # u => accounts[v].link # accounts[u].link
    BY <2>3 DEF OpeningInv, AccountsOK, LinksApart
  <2>5. DeskOK(q)
    BY <2>1, <2>3, <2>4 DEF DeskOK
  <2> QED BY <1>a, <2>2, <2>5, AskKeeps
<1> QED BY <1>1, <1>2, <1>3, <1>4

(* A desk at rest knows nothing that could become false. *)
LEMMA RestIsFine == /\ DeskOK(Po!AtRest) /\ DeskOK(Po!AtRest)' /\ Po!AtRest.op = "rest"
  BY DEF DeskOK, Po!AtRest

(* An approval writes the link with the active row. *)
LEMMA FinishApproveKeeps ==
  ASSUME OpeningInv, NEW d \in Desks, Po!FinishApprove(d) PROVE OpeningInv'
<1>1. PICK q : q = desks[d]
  OBVIOUS
<1>2. q.op = "approve" /\ q.for \in Emails /\ Class[q.for] = "Vendor" /\ q.master \in Nat \ {0}
  BY <1>1 DEF Po!FinishApprove, OpeningInv, DesksOK, DeskOK
<1>3. PICK u \in Emails : u = q.for
  BY <1>2
<1>4. accounts \in [Emails -> AccountRecord] /\ accounts[u] \in AccountRecord /\ AccountOK(u)
  BY DEF OpeningInv, AccountsOK
<1>5. PICK a : a = [accounts[u] EXCEPT !.status = "active", !.master = q.master]
  OBVIOUS
<1>6. /\ a \in AccountRecord /\ a.status = "active" /\ a.master # 0
      /\ a.link = accounts[u].link /\ a.fresh = accounts[u].fresh
  BY <1>2, <1>4, <1>5 DEF AccountRecord
<1>7. /\ accounts' = [accounts EXCEPT ![u] = a] /\ desks' = [desks EXCEPT ![d] = Po!AtRest]
      /\ UNCHANGED <<masters, links, used, leads, joined>>
  BY <1>1, <1>3, <1>4, <1>5 DEF Po!FinishApprove
<1>8. Writes(u, a)
  BY <1>2, <1>3, <1>4, <1>6, <1>7 DEF Writes, AccountOK
<1>9. AccountsOK' /\ DesksOK' /\ \A v \in Emails \ {u} : Awaits(v) => Awaits(v)'
  BY <1>1, <1>2, <1>6, <1>7, <1>8, RestIsFine, DeskWrites
<1>10. HistoryOK'
  BY <1>6, <1>7, <1>8, <1>9, HistoryKeeps DEF OpeningInv
<1> QED BY <1>9, <1>10 DEF OpeningInv

(* A sign-up stores its lead before its account. *)
LEMMA FinishSignupKeeps ==
  ASSUME OpeningInv, NEW d \in Desks, Po!FinishSignup(d) PROVE OpeningInv'
<1>1. PICK q : q = desks[d]
  OBVIOUS
<1>2. q.op = "signup" /\ q.for \in Emails /\ Class[q.for] = "Customer"
  BY <1>1 DEF Po!FinishSignup, OpeningInv, DesksOK, DeskOK
<1>3. PICK u \in Emails : u = q.for
  BY <1>2
<1>4. /\ accounts \in [Emails -> AccountRecord] /\ accounts[u] \in AccountRecord /\ AccountOK(u)
      /\ masters \in Nat
  BY DEF OpeningInv, AccountsOK
<1>5. CASE Po!Exists(u)
  <2>1. desks' = [desks EXCEPT ![d] = Po!AtRest] /\ UNCHANGED <<accounts, masters, links, used, leads, joined>>
    BY <1>1, <1>3, <1>5 DEF Po!FinishSignup
  <2> QED BY <1>1, <1>2, <1>4, <2>1, RestIsFine, AskKeeps
<1>6. CASE ~Po!Exists(u)
  <2>1. PICK a : a = [Po!NoAccount EXCEPT !.status = "active", !.password = TRUE]
    OBVIOUS
  <2>2. a \in AccountRecord /\ a.status = "active" /\ a.link = 0 /\ ~a.fresh
    BY <2>1 DEF Po!NoAccount, AccountRecord
  <2>3. /\ accounts' = [accounts EXCEPT ![u] = a] /\ desks' = [desks EXCEPT ![d] = Po!AtRest]
        /\ leads' = [leads EXCEPT ![u] = @ + 1] /\ joined' = joined \cup {u}
        /\ UNCHANGED <<masters, links, used>>
    BY <1>1, <1>3, <1>6, <2>1 DEF Po!FinishSignup
  <2>4. Writes(u, a)
    BY <1>2, <1>3, <1>4, <2>2, <2>3 DEF Writes
  <2>5. AccountsOK' /\ DesksOK' /\ \A v \in Emails \ {u} : Awaits(v) => Awaits(v)'
    BY <1>1, <1>2, <2>2, <2>3, <2>4, RestIsFine, DeskWrites
  <2>6. accounts'[u] = a /\ \A v \in Emails \ {u} : accounts'[v] = accounts[v]
    BY <2>4, RowWritten DEF OpeningInv
  <2>7. Po!SignupHasLead' /\ DOMAIN leads' = Emails
    <3>1. u \notin joined
      BY <1>4, <1>6 DEF AccountOK
    <3>2. leads[u] = 0 /\ DOMAIN leads = Emails /\ Po!SignupHasLead
      BY <3>1 DEF OpeningInv, HistoryOK, Po!SignupHasLead
    <3>3. leads'[u] = 1 /\ \A v \in Emails \ {u} : leads'[v] = leads[v]
      BY <2>3, <3>2
    <3> QED BY <2>3, <3>2, <3>3 DEF Po!SignupHasLead
  <2>8. Po!InvitedCanEnter'
    BY <2>2, <2>5, <2>6 DEF OpeningInv, HistoryOK, Po!InvitedCanEnter, Awaits
  <2>9. Po!LinkSingleUse' /\ used' \subseteq 1..links'
    <3>1. 0 \notin used /\ used \subseteq 1..links
      BY DEF OpeningInv, HistoryOK, AccountsOK
    <3> QED BY <2>2, <2>3, <2>6, <3>1 DEF OpeningInv, HistoryOK, Po!LinkSingleUse
  <2> QED BY <2>5, <2>7, <2>8, <2>9 DEF OpeningInv, HistoryOK
<1> QED BY <1>5, <1>6

(* The row of an invitation is stored with its own token. *)
LEMMA StoreInviteKeeps ==
  ASSUME OpeningInv, NEW d \in Desks, Po!StoreInvite(d) PROVE OpeningInv'
<1>1. PICK q : q = desks[d]
  OBVIOUS
<1>2. /\ q.op = "invite" /\ q.for \in Emails /\ Class[q.for] # "Vendor" /\ q.password \in BOOLEAN
      /\ q.master \in {0, 1} /\ (q.master = 0 => Class[q.for] = "Customer")
  BY <1>1 DEF Po!StoreInvite, OpeningInv, DesksOK, DeskOK
<1>3. PICK u \in Emails : u = q.for
  BY <1>2
<1>4. /\ accounts \in [Emails -> AccountRecord] /\ accounts[u] \in AccountRecord /\ AccountOK(u)
      /\ masters \in Nat /\ links \in Nat /\ DOMAIN desks = Desks
  BY DEF OpeningInv, AccountsOK, DesksOK
<1>5. CASE ~q.known /\ Po!Exists(u)
  <2>1. desks' = [desks EXCEPT ![d] = Po!AtRest] /\ UNCHANGED <<accounts, masters, links, used, leads, joined>>
    BY <1>1, <1>3, <1>5 DEF Po!StoreInvite
  <2> QED BY <1>1, <1>2, <1>4, <2>1, RestIsFine, AskKeeps
<1>6. CASE ~(~q.known /\ Po!Exists(u))
  <2>1. PICK a : a = Po!Invited(u, q.master, q.password)
    OBVIOUS
  <2>2. /\ a \in AccountRecord /\ a.status = (IF q.password THEN "active" ELSE "invited")
        /\ a.link = accounts[u].link /\ a.fresh = accounts[u].fresh
        /\ a.master = (IF q.master = 0 THEN accounts[u].master ELSE q.master)
    <3>1. PICK st : st = (IF q.password THEN "active" ELSE "invited")
      OBVIOUS
    <3>2. PICK m : m = (IF q.master = 0 THEN accounts[u].master ELSE q.master)
      OBVIOUS
    <3>3. PICK w : w = (accounts[u].password \/ q.password)
      OBVIOUS
    <3>4. w \in BOOLEAN
      BY <3>3, Zenon
    <3>5. a = [accounts[u] EXCEPT !.status = st, !.password = w, !.master = m]
      BY <1>4, <2>1, <3>1, <3>2, <3>3, Zenon DEF Po!Invited
    <3>6. m \in Nat /\ st \in {"active", "invited"}
      BY <1>2, <1>4, <3>1, <3>2 DEF AccountRecord
    <3> QED BY <1>4, <3>1, <3>2, <3>4, <3>5, <3>6 DEF AccountRecord
  <2>3. PICK p : p = IF q.password THEN Po!AtRest ELSE [op |-> "link", for |-> u]
    OBVIOUS
  <2>4. /\ accounts' = [accounts EXCEPT ![u] = a] /\ desks' = [desks EXCEPT ![d] = p]
        /\ UNCHANGED <<masters, links, used, leads, joined>>
    BY <1>1, <1>3, <1>6, <2>1, <2>3 DEF Po!StoreInvite
  <2>5. Writes(u, a)
    BY <1>2, <1>3, <1>4, <2>2, <2>4 DEF Writes, AccountOK
  <2>6. accounts'[u] = a
    BY <2>5, RowWritten DEF OpeningInv
  <2>7. DeskOK(p)'
    <3>1. CASE q.password
      BY <2>3, <3>1, RestIsFine
    <3>2. CASE ~q.password
      <4>1. p.op = "link" /\ p.for = u
        BY <2>3, <3>2
      <4>2. Po!Exists(u)'
        BY <2>2, <2>6, <3>2 DEF Po!Exists
      <4> QED BY <1>2, <1>3, <4>1, <4>2 DEF DeskOK
    <3> QED BY <3>1, <3>2
  <2>8. a.status = "invited" => Awaits(u)'
    <3>1. a.status = "invited" => desks'[d].op = "link" /\ desks'[d].for = u /\ d \in DOMAIN desks'
      BY <1>4, <2>2, <2>3, <2>4
    <3> QED BY <3>1 DEF Awaits
  <2>9. AccountsOK' /\ DesksOK' /\ \A v \in Emails \ {u} : Awaits(v) => Awaits(v)'
    BY <1>1, <1>2, <2>4, <2>5, <2>7, <2>8, DeskWrites
  <2>10. HistoryOK'
    BY <2>4, <2>5, <2>8, <2>9, HistoryKeeps DEF OpeningInv
  <2> QED BY <2>9, <2>10 DEF OpeningInv
<1> QED BY <1>5, <1>6

(* The link of a new invitation replaces the one before. *)
LEMMA StoreLinkKeeps ==
  ASSUME OpeningInv, NEW d \in Desks, Po!StoreLink(d) PROVE OpeningInv'
<1>1. PICK q : q = desks[d]
  OBVIOUS
<1>2. q.op = "link" /\ q.for \in Emails /\ Class[q.for] # "Vendor" /\ Po!Exists(q.for)
  BY <1>1 DEF Po!StoreLink, OpeningInv, DesksOK, DeskOK
<1>3. PICK u \in Emails : u = q.for
  BY <1>2
<1>4. /\ accounts \in [Emails -> AccountRecord] /\ accounts[u] \in AccountRecord /\ AccountOK(u)
      /\ links \in Nat
  BY DEF OpeningInv, AccountsOK
<1>5. PICK n \in Nat : n = links + 1 /\ n # 0
  BY <1>4
<1>6. PICK a : a = [accounts[u] EXCEPT !.link = n, !.fresh = TRUE]
  OBVIOUS
<1>7. /\ a \in AccountRecord /\ a.status = accounts[u].status /\ a.link = n
      /\ a.master = accounts[u].master
  BY <1>4, <1>6 DEF AccountRecord
<1>8. /\ accounts' = [accounts EXCEPT ![u] = a] /\ desks' = [desks EXCEPT ![d] = Po!AtRest]
      /\ links' = n /\ UNCHANGED <<masters, used, leads, joined>>
  BY <1>1, <1>3, <1>4, <1>5, <1>6 DEF Po!StoreLink
<1>9. Writes(u, a) /\ a.link # 0
  BY <1>2, <1>3, <1>4, <1>5, <1>7, <1>8 DEF Writes, AccountOK, Po!Exists
<1>10. AccountsOK' /\ DesksOK' /\ \A v \in Emails \ {u} : Awaits(v) => Awaits(v)'
  BY <1>1, <1>2, <1>3, <1>8, <1>9, RestIsFine, DeskWrites
<1>11. HistoryOK'
  BY <1>8, <1>9, <1>10, HistoryKeeps DEF OpeningInv
<1> QED BY <1>10, <1>11 DEF OpeningInv

(* A password is set by a link that is used up with it. *)
LEMMA FinishSetPasswordKeeps ==
  ASSUME OpeningInv, NEW d \in Desks, Po!FinishSetPassword(d) PROVE OpeningInv'
<1>1. PICK q : q = desks[d]
  OBVIOUS
<1>2. /\ q.op = "set" /\ q.for \in Emails /\ Class[q.for] # "Vendor" /\ Po!Exists(q.for)
      /\ q.link \in 1..links /\ \A v \in Emails : v # q.for => accounts[v].link # q.link
  BY <1>1 DEF Po!FinishSetPassword, OpeningInv, DesksOK, DeskOK
<1>3. PICK u \in Emails : u = q.for
  BY <1>2
<1>4. accounts \in [Emails -> AccountRecord] /\ accounts[u] \in AccountRecord /\ AccountOK(u)
  BY DEF OpeningInv, AccountsOK
<1>5. PICK a : a = Po!WithPassword(u)
  OBVIOUS
<1>6. /\ a \in AccountRecord /\ a.status = "active" /\ a.link = 0 /\ ~a.fresh
      /\ a.master = accounts[u].master
  BY <1>4, <1>5 DEF Po!WithPassword, AccountRecord
<1>7. /\ accounts' = [accounts EXCEPT ![u] = a] /\ desks' = [desks EXCEPT ![d] = Po!AtRest]
      /\ used' = used \cup {q.link} /\ UNCHANGED <<masters, links, leads, joined>>
  BY <1>1, <1>3, <1>5 DEF Po!FinishSetPassword
<1>8. Writes(u, a)
  BY <1>2, <1>3, <1>4, <1>6, <1>7 DEF Writes, AccountOK
<1>9. AccountsOK' /\ DesksOK' /\ \A v \in Emails \ {u} : Awaits(v) => Awaits(v)'
  BY <1>1, <1>2, <1>6, <1>7, <1>8, RestIsFine, DeskWrites
<1>10. HistoryOK'
  BY <1>2, <1>3, <1>6, <1>7, <1>8, <1>9, HistoryKeeps DEF OpeningInv
<1> QED BY <1>9, <1>10 DEF OpeningInv

(* Every step about accounts keeps their invariant. *)
LEMMA OpeningStep ==
  ASSUME OpeningInv, NEW u \in Emails, Po!Opening(u) PROVE OpeningInv'
  BY PlainStepsKeep, AsksKeep, FinishApproveKeeps, FinishSignupKeeps, StoreInviteKeeps,
     StoreLinkKeeps, FinishSetPasswordKeeps DEF Po!Opening

(* What the handlers of accounts promise follows from their invariant. *)
LEMMA OpeningImplies ==
  ASSUME OpeningInv
  PROVE  Po!InvitedCanEnter /\ Po!LinkSingleUse /\ Po!SignupHasLead /\ Po!ActiveIsLinked
<1>1. ASSUME NEW u \in Emails, accounts[u].status = "active", Class[u] # "Customer"
      PROVE  accounts[u].master # 0
  <2>1. AccountOK(u)
    BY DEF OpeningInv, AccountsOK
  <2> QED BY <1>1, <2>1 DEF AccountOK, Po!Exists
<1> QED BY <1>1 DEF OpeningInv, HistoryOK, Po!ActiveIsLinked

-----------------------------------------------------------------------------
(* Sessions *)

SessionRecord == [account: SUBSET Emails, revoked: BOOLEAN, origin: Nat]
BrowserRecord == [cookie: Nat, badge: SUBSET Emails, op: {"rest", "open", "rotate"},
                  for: SUBSET Emails, origin: Nat]

VisitsTyped == /\ begun \in Nat /\ sessions \in Seq(SessionRecord)
               /\ browsers \in [Browsers -> BrowserRecord]
               /\ \A t \in DOMAIN sessions : sessions[t].origin =< begun

(* A cookie is a token of the table, and no two browsers have the same. *)
CookiesApart ==
    /\ \A b \in Browsers : browsers[b].cookie # 0 => browsers[b].cookie \in DOMAIN sessions
    /\ \A b, c \in Browsers : browsers[b].cookie = browsers[c].cookie /\ browsers[b].cookie # 0 => b = c

(* A login is in the hands of one browser: while that rotates, its token   *)
(* is the usable one, and while it opens the next, there is none.          *)
InHand ==
    /\ \A b \in Browsers : browsers[b].op # "rest" => browsers[b].origin =< begun
    /\ \A b, c \in Browsers : /\ browsers[b].op # "rest" /\ browsers[c].op # "rest"
                              /\ browsers[b].origin = browsers[c].origin
                              => b = c
    /\ \A b \in Browsers : browsers[b].op = "open" =>
          \A t \in DOMAIN sessions : sessions[t].origin = browsers[b].origin => sessions[t].revoked
    /\ \A b \in Browsers : browsers[b].op = "rotate" =>
          /\ browsers[b].cookie # 0 /\ ~sessions[browsers[b].cookie].revoked
          /\ sessions[browsers[b].cookie].origin = browsers[b].origin

VisitInv == VisitsTyped /\ CookiesApart /\ InHand /\ Po!OneSessionPerLogin /\ Po!ServedWhileActive

(* Nobody is logged in before the first request. *)
LEMMA VisitStart ==
  ASSUME Po!Init PROVE VisitInv
<1> USE DEF Po!Init, Po!NewBrowser
<1>1. VisitsTyped
  BY DEF VisitsTyped, BrowserRecord
<1>2. CookiesApart /\ InHand /\ Po!OneSessionPerLogin /\ Po!ServedWhileActive
  BY DEF CookiesApart, InHand, Po!OneSessionPerLogin, Po!ServedWhileActive
<1> QED BY <1>1, <1>2 DEF VisitInv

(* Requests that touch no session leave the invariant of visits. *)
LEMMA VisitRests ==
  ASSUME VisitInv, UNCHANGED Po!visiting PROVE VisitInv'
<1>0. UNCHANGED <<sessions, browsers, begun, served>>
  BY DEF Po!visiting
<1> QED BY <1>0 DEF VisitInv, VisitsTyped, CookiesApart, InHand, Po!OneSessionPerLogin, Po!Live,
                    Po!ServedWhileActive

(* One browser moves. *)
LEMMA BrowserMoves ==
  ASSUME VisitsTyped, NEW b \in Browsers, NEW n \in BrowserRecord,
         browsers' = [browsers EXCEPT ![b] = n]
  PROVE  /\ browsers' \in [Browsers -> BrowserRecord] /\ browsers'[b] = n
         /\ \A c \in Browsers \ {b} : browsers'[c] = browsers[c]
  BY DEF VisitsTyped

(* Checking a password opens no session yet. *)
LEMMA StartLoginKeeps ==
  ASSUME VisitInv, NEW b \in Browsers, NEW u \in Emails, Po!StartLogin(b, u) PROVE VisitInv'
<1> USE DEF VisitInv
<1>0. PICK g \in Nat : g = begun + 1 /\ browsers[b] \in BrowserRecord /\ begun \in Nat
  BY DEF VisitsTyped
<1>1. PICK n : n = [browsers[b] EXCEPT !.op = "open", !.for = {u}, !.origin = g]
  OBVIOUS
<1>2. n \in BrowserRecord /\ n.op = "open" /\ n.origin = g /\ n.cookie = browsers[b].cookie
  BY <1>0, <1>1 DEF BrowserRecord
<1>3. /\ browsers' = [browsers EXCEPT ![b] = n] /\ begun' = g /\ UNCHANGED <<sessions, served>>
      /\ browsers[b].op = "rest"
  BY <1>0, <1>1 DEF Po!StartLogin, VisitsTyped
<1>4. /\ browsers' \in [Browsers -> BrowserRecord] /\ browsers'[b] = n
      /\ \A c \in Browsers \ {b} : browsers'[c] = browsers[c]
  BY <1>2, <1>3, BrowserMoves
<1>a. /\ \A t \in DOMAIN sessions : sessions[t].origin \in Nat /\ sessions[t].origin =< begun
      /\ \A c \in Browsers : browsers[c].origin \in Nat
  <2>1. \A t \in DOMAIN sessions : sessions[t] \in SessionRecord /\ sessions[t].origin =< begun
    BY DEF VisitsTyped
  <2>2. \A c \in Browsers : browsers[c] \in BrowserRecord
    BY DEF VisitsTyped
  <2> QED BY <2>1, <2>2 DEF SessionRecord, BrowserRecord
<1>5. VisitsTyped'
  BY <1>0, <1>3, <1>4, <1>a DEF VisitsTyped
<1>6. CookiesApart'
  BY <1>2, <1>3, <1>4 DEF CookiesApart
<1>7. InHand'
  BY <1>0, <1>2, <1>3, <1>4, <1>a DEF InHand
<1>8. Po!OneSessionPerLogin' /\ Po!ServedWhileActive'
  BY <1>3 DEF Po!OneSessionPerLogin, Po!Live, Po!ServedWhileActive
<1> QED BY <1>5, <1>6, <1>7, <1>8

(* A login adds the only session of its chain. *)
LEMMA OpenSessionKeeps ==
  ASSUME VisitInv, NEW b \in Browsers, Po!OpenSession(b) PROVE VisitInv'
<1> USE DEF VisitInv
<1>0. /\ browsers[b] \in BrowserRecord /\ begun \in Nat /\ sessions \in Seq(SessionRecord)
      /\ browsers[b].op = "open"
  BY DEF VisitsTyped, Po!OpenSession
<1>1. PICK t \in Nat : t = Len(sessions) + 1 /\ t # 0 /\ DOMAIN sessions = 1..(t - 1)
  BY <1>0
<1>2. PICK n : n = [Po!NewBrowser EXCEPT !.cookie = t, !.badge = browsers[b].for]
  OBVIOUS
<1>3. n \in BrowserRecord /\ n.op = "rest" /\ n.cookie = t
  BY <1>0, <1>2 DEF Po!NewBrowser, BrowserRecord
<1>4. PICK s : s = [account |-> browsers[b].for, revoked |-> FALSE, origin |-> browsers[b].origin]
  OBVIOUS
<1>5. s \in SessionRecord /\ ~s.revoked /\ s.origin = browsers[b].origin
  BY <1>0, <1>4 DEF SessionRecord, BrowserRecord
<1>6. /\ browsers' = [browsers EXCEPT ![b] = n] /\ sessions' = Append(sessions, s)
      /\ UNCHANGED <<begun, served>>
  BY <1>1, <1>2, <1>4 DEF Po!OpenSession
<1>7. /\ sessions' \in Seq(SessionRecord) /\ DOMAIN sessions' = DOMAIN sessions \cup {t}
      /\ sessions'[t] = s /\ t \notin DOMAIN sessions
      /\ \A r \in DOMAIN sessions : sessions'[r] = sessions[r]
  BY <1>0, <1>1, <1>5, <1>6
<1>8. /\ browsers' \in [Browsers -> BrowserRecord] /\ browsers'[b] = n
      /\ \A c \in Browsers \ {b} : browsers'[c] = browsers[c]
  BY <1>3, <1>6, BrowserMoves
<1>9. VisitsTyped'
  BY <1>0, <1>5, <1>6, <1>7, <1>8 DEF VisitsTyped, InHand
<1>10. CookiesApart'
  BY <1>1, <1>3, <1>7, <1>8 DEF CookiesApart
<1>11. InHand'
  BY <1>0, <1>3, <1>5, <1>6, <1>7, <1>8 DEF InHand, CookiesApart
<1>12. Po!OneSessionPerLogin'
  <2>1. \A r \in DOMAIN sessions : sessions[r].origin = s.origin => sessions[r].revoked
    BY <1>0, <1>5 DEF InHand
  <2> QED BY <1>5, <1>7, <2>1 DEF Po!OneSessionPerLogin, Po!Live
<1>13. Po!ServedWhileActive'
  BY <1>6 DEF Po!ServedWhileActive
<1> QED BY <1>9, <1>10, <1>11, <1>12, <1>13

(* Looking a refresh token up changes no session. *)
LEMMA StartRefreshKeeps ==
  ASSUME VisitInv, NEW b \in Browsers, Po!StartRefresh(b) PROVE VisitInv'
<1> USE DEF VisitInv
<1>0. /\ browsers[b] \in BrowserRecord /\ sessions \in Seq(SessionRecord)
      /\ browsers[b].op = "rest" /\ Po!Live(browsers[b].cookie)
  BY DEF VisitsTyped, Po!StartRefresh
<1>1. PICK t : t = browsers[b].cookie /\ t \in DOMAIN sessions /\ t # 0 /\ ~sessions[t].revoked
  BY <1>0 DEF CookiesApart, Po!Live
<1>2. sessions[t] \in SessionRecord
  BY <1>0, <1>1
<1>3. PICK n : n = [browsers[b] EXCEPT !.op = "rotate", !.for = sessions[t].account,
                                       !.origin = sessions[t].origin]
  OBVIOUS
<1>4. n \in BrowserRecord /\ n.op = "rotate" /\ n.origin = sessions[t].origin /\ n.cookie = t
  BY <1>0, <1>1, <1>2, <1>3 DEF BrowserRecord, SessionRecord
<1>5. browsers' = [browsers EXCEPT ![b] = n] /\ UNCHANGED <<sessions, begun, served>>
  BY <1>0, <1>1, <1>3 DEF Po!StartRefresh, VisitsTyped
<1>6. /\ browsers' \in [Browsers -> BrowserRecord] /\ browsers'[b] = n
      /\ \A c \in Browsers \ {b} : browsers'[c] = browsers[c]
  BY <1>4, <1>5, BrowserMoves
<1>7. VisitsTyped'
  BY <1>5, <1>6 DEF VisitsTyped
<1>8. CookiesApart'
  BY <1>1, <1>4, <1>5, <1>6 DEF CookiesApart
<1>9. \A c \in Browsers \ {b} : browsers[c].op # "rest" => browsers[c].origin # sessions[t].origin
  <2> SUFFICES ASSUME NEW c \in Browsers \ {b}, browsers[c].op # "rest",
                      browsers[c].origin = sessions[t].origin
               PROVE  FALSE
    OBVIOUS
  <2>1. browsers[c].op # "open"
    BY <1>1 DEF InHand
  <2>2. browsers[c].op = "rotate"
    BY <2>1 DEF VisitsTyped, BrowserRecord
  <2>3. PICK r : r = browsers[c].cookie /\ r # 0 /\ r \in DOMAIN sessions /\ ~sessions[r].revoked
                 /\ sessions[r].origin = sessions[t].origin
    BY <2>2 DEF InHand, CookiesApart
  <2>4. r = t
    BY <1>1, <2>3 DEF Po!OneSessionPerLogin, Po!Live
  <2> QED BY <1>1, <2>3, <2>4 DEF CookiesApart
<1>10. InHand'
  <2>1. sessions[t].origin =< begun
    BY <1>1 DEF VisitsTyped
  <2> QED BY <1>1, <1>4, <1>5, <1>6, <1>9, <2>1 DEF InHand
<1>11. Po!OneSessionPerLogin' /\ Po!ServedWhileActive'
  BY <1>5 DEF Po!OneSessionPerLogin, Po!Live, Po!ServedWhileActive
<1> QED BY <1>7, <1>8, <1>10, <1>11

(* A token is revoked. *)
LEMMA TokenRevoked ==
  ASSUME sessions \in Seq(SessionRecord), NEW t \in DOMAIN sessions, t # 0, sessions' = Po!Revoked(t)
  PROVE  /\ sessions' \in Seq(SessionRecord) /\ DOMAIN sessions' = DOMAIN sessions
         /\ \A r \in DOMAIN sessions : /\ sessions'[r].origin = sessions[r].origin
                                       /\ r # t => sessions'[r] = sessions[r]
         /\ sessions'[t].revoked
<1>1. sessions[t] \in SessionRecord
  OBVIOUS
<1>2. PICK s : s = [sessions[t] EXCEPT !.revoked = TRUE]
  OBVIOUS
<1>3. s \in SessionRecord /\ s.revoked /\ s.origin = sessions[t].origin
  BY <1>1, <1>2 DEF SessionRecord
<1>4. sessions' = [sessions EXCEPT ![t] = s]
  BY <1>2 DEF Po!Revoked
<1> QED BY <1>3, <1>4

(* A rotation revokes the session it read before the next one is opened. *)
LEMMA RotateKeeps ==
  ASSUME VisitInv, NEW b \in Browsers, Po!Rotate(b) PROVE VisitInv'
<1> USE DEF VisitInv
<1>0. /\ browsers[b] \in BrowserRecord /\ sessions \in Seq(SessionRecord)
      /\ browsers[b].op = "rotate"
  BY DEF VisitsTyped, Po!Rotate
<1>1. PICK t : /\ t = browsers[b].cookie /\ t \in DOMAIN sessions /\ t # 0 /\ ~sessions[t].revoked
               /\ sessions[t].origin = browsers[b].origin
  BY <1>0 DEF CookiesApart, InHand
<1>2. PICK n : n = [browsers[b] EXCEPT !.op = "open"]
  OBVIOUS
<1>3. n \in BrowserRecord /\ n.op = "open" /\ n.origin = browsers[b].origin /\ n.cookie = t
  BY <1>0, <1>1, <1>2 DEF BrowserRecord
<1>4. browsers' = [browsers EXCEPT ![b] = n] /\ sessions' = Po!Revoked(t) /\ UNCHANGED <<begun, served>>
  BY <1>1, <1>2 DEF Po!Rotate
<1>5. /\ browsers' \in [Browsers -> BrowserRecord] /\ browsers'[b] = n
      /\ \A c \in Browsers \ {b} : browsers'[c] = browsers[c]
  BY <1>3, <1>4, BrowserMoves
<1>6. /\ sessions' \in Seq(SessionRecord) /\ DOMAIN sessions' = DOMAIN sessions
      /\ \A r \in DOMAIN sessions : /\ sessions'[r].origin = sessions[r].origin
                                    /\ r # t => sessions'[r] = sessions[r]
      /\ sessions'[t].revoked
  BY <1>0, <1>1, <1>4, TokenRevoked
<1>7. VisitsTyped'
  BY <1>4, <1>5, <1>6 DEF VisitsTyped
<1>8. CookiesApart'
  BY <1>1, <1>3, <1>5, <1>6 DEF CookiesApart
<1>9. InHand'
  <2>1. \A r \in DOMAIN sessions : sessions[r].origin = browsers[b].origin => sessions'[r].revoked
    BY <1>1, <1>6 DEF Po!OneSessionPerLogin, Po!Live, CookiesApart
  <2>2. \A c \in Browsers : browsers'[c].op # "rest" =>
           browsers[c].op # "rest" /\ browsers'[c].origin = browsers[c].origin
    BY <1>0, <1>3, <1>5
  <2>3. /\ \A c \in Browsers : browsers'[c].op # "rest" => browsers'[c].origin =< begun'
        /\ \A c, e \in Browsers : /\ browsers'[c].op # "rest" /\ browsers'[e].op # "rest"
                                  /\ browsers'[c].origin = browsers'[e].origin
                                  => c = e
    BY <1>4, <2>2 DEF InHand
  <2>4. ASSUME NEW c \in Browsers, browsers'[c].op = "open", NEW r \in DOMAIN sessions,
               sessions'[r].origin = browsers'[c].origin
        PROVE  sessions'[r].revoked
    <3>1. CASE c = b
      BY <1>3, <1>5, <1>6, <2>1, <2>4, <3>1
    <3>2. CASE c # b
      BY <1>5, <1>6, <2>4, <3>2 DEF InHand
    <3> QED BY <3>1, <3>2
  <2>5. ASSUME NEW c \in Browsers, browsers'[c].op = "rotate"
        PROVE  /\ browsers'[c].cookie # 0 /\ ~sessions'[browsers'[c].cookie].revoked
               /\ sessions'[browsers'[c].cookie].origin = browsers'[c].origin
    <3>1. c # b
      BY <1>3, <1>5, <2>5
    <3>2. PICK r : /\ r = browsers[c].cookie /\ r # 0 /\ r \in DOMAIN sessions /\ ~sessions[r].revoked
                   /\ sessions[r].origin = browsers[c].origin /\ r # t
      BY <1>1, <1>5, <2>5, <3>1 DEF InHand, CookiesApart
    <3> QED BY <1>5, <1>6, <3>1, <3>2
  <2> QED BY <1>6, <2>3, <2>4, <2>5 DEF InHand
<1>10. Po!OneSessionPerLogin' /\ Po!ServedWhileActive'
  BY <1>4, <1>6 DEF Po!OneSessionPerLogin, Po!Live, Po!ServedWhileActive
<1> QED BY <1>7, <1>8, <1>9, <1>10

(* Logging out closes the session. *)
LEMMA LogoutKeeps ==
  ASSUME VisitInv, NEW b \in Browsers, Po!Logout(b) PROVE VisitInv'
<1> USE DEF VisitInv
<1>1. PICK t : t = browsers[b].cookie /\ t \in DOMAIN sessions /\ t # 0
  BY DEF CookiesApart, Po!Logout
<1>2. PICK n : n = Po!NewBrowser
  OBVIOUS
<1>3. n \in BrowserRecord /\ n.op = "rest" /\ n.cookie = 0
  BY <1>2 DEF BrowserRecord, Po!NewBrowser
<1>4. /\ browsers' = [browsers EXCEPT ![b] = n] /\ sessions' = Po!Revoked(t)
      /\ UNCHANGED <<begun, served>> /\ sessions \in Seq(SessionRecord)
  BY <1>1, <1>2 DEF Po!Logout, VisitsTyped
<1>5. /\ browsers' \in [Browsers -> BrowserRecord] /\ browsers'[b] = n
      /\ \A c \in Browsers \ {b} : browsers'[c] = browsers[c]
  BY <1>3, <1>4, BrowserMoves
<1>6. /\ sessions' \in Seq(SessionRecord) /\ DOMAIN sessions' = DOMAIN sessions
      /\ \A r \in DOMAIN sessions : /\ sessions'[r].origin = sessions[r].origin
                                    /\ r # t => sessions'[r] = sessions[r]
      /\ sessions'[t].revoked
  BY <1>1, <1>4, TokenRevoked
<1>7. VisitsTyped'
  BY <1>4, <1>5, <1>6 DEF VisitsTyped
<1>8. CookiesApart'
  BY <1>3, <1>5, <1>6 DEF CookiesApart
<1>9. InHand'
  <2>1. \A c \in Browsers : browsers'[c].op # "rest" => c # b /\ browsers'[c] = browsers[c]
    BY <1>3, <1>5
  <2>2. \A c \in Browsers \ {b} : browsers[c].cookie # t
    BY <1>1 DEF CookiesApart
  <2>3. ASSUME NEW c \in Browsers, browsers'[c].op = "open", NEW r \in DOMAIN sessions,
               sessions'[r].origin = browsers'[c].origin
        PROVE  sessions'[r].revoked
    BY <1>6, <2>1, <2>3 DEF InHand
  <2>4. ASSUME NEW c \in Browsers, browsers'[c].op = "rotate"
        PROVE  /\ browsers'[c].cookie # 0 /\ ~sessions'[browsers'[c].cookie].revoked
               /\ sessions'[browsers'[c].cookie].origin = browsers'[c].origin
    BY <1>6, <2>1, <2>2, <2>4 DEF InHand, CookiesApart
  <2> QED BY <1>4, <1>6, <2>1, <2>3, <2>4 DEF InHand
<1>10. Po!OneSessionPerLogin' /\ Po!ServedWhileActive'
  BY <1>4, <1>6 DEF Po!OneSessionPerLogin, Po!Live, Po!ServedWhileActive
<1> QED BY <1>7, <1>8, <1>9, <1>10

(* A request is served for a row that is active at this moment. *)
LEMMA ServeKeeps ==
  ASSUME VisitInv, NEW b \in Browsers, Po!Serve(b) PROVE VisitInv'
<1>1. UNCHANGED <<sessions, browsers, begun>>
  BY DEF Po!Serve
<1>2. Po!ServedWhileActive'
  <2>1. PICK u \in browsers[b].badge :
           /\ Po!Admitted(u)
           /\ served' = [account |-> u, as |-> accounts[u].master, status |-> accounts[u].status]
    BY DEF Po!Serve
  <2> QED BY <2>1 DEF Po!Admitted, Po!ServedWhileActive
<1> QED BY <1>1, <1>2 DEF VisitInv, VisitsTyped, CookiesApart, InHand, Po!OneSessionPerLogin,
           Po!Live

(* Every step of a browser keeps the invariant of visits. *)
LEMMA VisitStep ==
  ASSUME VisitInv, NEW u \in Emails, Po!Visiting(u) PROVE VisitInv'
  BY StartLoginKeeps, OpenSessionKeeps, StartRefreshKeeps, RotateKeeps, LogoutKeeps, ServeKeeps
     DEF Po!Visiting

-----------------------------------------------------------------------------
(* Theorems *)

PortalInv == OpeningInv /\ VisitInv

(* Both invariants hold of a portal nobody has used. *)
LEMMA PortalStart == Po!Init => PortalInv
  BY OpeningStart, VisitStart DEF PortalInv

(* They hold while nothing changes. *)
LEMMA PortalRests == ASSUME PortalInv, UNCHANGED Po!vars PROVE PortalInv'
<1>1. UNCHANGED Po!opening /\ UNCHANGED Po!visiting
  BY DEF Po!vars, Po!opening, Po!visiting
<1> QED BY <1>1, OpeningRests, VisitRests DEF PortalInv

(* Attending to any class of account keeps both. *)
LEMMA PortalStep ==
  ASSUME PortalInv, NEW class, Po!Attending(class) PROVE PortalInv'
<1>1. PICK u \in Emails : Po!Opening(u) \/ Po!Visiting(u)
  BY DEF Po!Attending
<1>2. CASE Po!Opening(u)
  <2>1. UNCHANGED Po!visiting
    BY <1>2 DEF Po!Opening
  <2> QED BY <1>2, <2>1, OpeningStep, VisitRests DEF PortalInv
<1>3. CASE Po!Visiting(u)
  <2>1. UNCHANGED Po!opening
    BY <1>3 DEF Po!Visiting
  <2> QED BY <1>3, <2>1, VisitStep, OpeningRests DEF PortalInv
<1> QED BY <1>1, <1>2, <1>3

(* What the portals promise follows from both invariants. *)
LEMMA PortalImplies ==
  ASSUME PortalInv
  PROVE  /\ Po!InvitedCanEnter /\ Po!LinkSingleUse /\ Po!SignupHasLead
         /\ Po!OneSessionPerLogin /\ Po!ActiveIsLinked /\ Po!ServedWhileActive
  BY OpeningImplies DEF PortalInv, VisitInv

(* However invitations, resets, approvals, sign-ups and logins interleave: *)
(* who is invited has a way in, a used link is stored nowhere, a sign-up   *)
(* is one lead, rotation leaves one usable token of a login, and an active *)
(* account is linked and alone is served.                                  *)
THEOREM AccountsSound ==
  Po!Spec => [](/\ Po!InvitedCanEnter /\ Po!LinkSingleUse /\ Po!SignupHasLead
                /\ Po!OneSessionPerLogin /\ Po!ActiveIsLinked /\ Po!ServedWhileActive)
<1>1. PortalInv /\ [Po!Next]_Po!vars => PortalInv'
  BY PortalStep, PortalRests DEF Po!Next, Po!Supplying, Po!Staffing, Po!Hosting
<1>2. PortalInv => /\ Po!InvitedCanEnter /\ Po!LinkSingleUse /\ Po!SignupHasLead
                   /\ Po!OneSessionPerLogin /\ Po!ActiveIsLinked /\ Po!ServedWhileActive
  BY PortalImplies
<1> QED BY PortalStart, <1>1, <1>2, PTL DEF Po!Spec

(* No step unlinks an account that is linked. *)
LEMMA StepKeepsLink ==
  ASSUME PortalInv, NEW class, Po!Attending(class), NEW u \in Emails, accounts[u].master # 0
  PROVE  accounts'[u].master # 0
<1>0. /\ accounts \in [Emails -> AccountRecord] /\ AccountOK(u) /\ Po!Exists(u)
      /\ DOMAIN desks = Desks /\ \A d \in Desks : DeskOK(desks[d])
  BY DEF PortalInv, OpeningInv, AccountsOK, DesksOK, AccountOK, Po!NoAccount
<1>1. PICK v \in Emails : Po!Opening(v) \/ Po!Visiting(v)
  BY DEF Po!Attending
<1>2. CASE UNCHANGED accounts
  BY <1>2
<1>3. CASE Po!Register(v)
  BY <1>0, <1>3 DEF Po!Register
<1>4. CASE Po!Reject(v) \/ Po!ForgotPassword(v) \/ Po!LinkExpires(v)
  BY <1>0, <1>4 DEF Po!Reject, Po!ForgotPassword, Po!LinkExpires, AccountRecord
<1>5. ASSUME NEW d \in Desks, Po!FinishApprove(d) PROVE accounts'[u].master # 0
  BY <1>0, <1>5 DEF Po!FinishApprove, DeskOK, AccountRecord
<1>6. ASSUME NEW d \in Desks, Po!FinishSignup(d) PROVE accounts'[u].master # 0
  BY <1>0, <1>6 DEF Po!FinishSignup, DeskOK
<1>7. ASSUME NEW d \in Desks, Po!StoreInvite(d) PROVE accounts'[u].master # 0
  BY <1>0, <1>7 DEF Po!StoreInvite, Po!Invited, DeskOK, AccountRecord
<1>8. ASSUME NEW d \in Desks, Po!StoreLink(d) PROVE accounts'[u].master # 0
  BY <1>0, <1>8 DEF Po!StoreLink, DeskOK, AccountRecord
<1>9. ASSUME NEW d \in Desks, Po!FinishSetPassword(d) PROVE accounts'[u].master # 0
  BY <1>0, <1>9 DEF Po!FinishSetPassword, Po!WithPassword, DeskOK, AccountRecord
<1>10. ASSUME NEW d \in Desks,
              \/ \E named \in 0 .. MaxMasters : Po!StartApprove(d, v, named)
              \/ \E named \in {0, 1}, withPassword \in BOOLEAN : Po!StartInvite(d, v, named, withPassword)
              \/ Po!StartSignup(d, v) \/ Po!StartSetPassword(d, v)
       PROVE  UNCHANGED accounts
  BY <1>10 DEF Po!StartApprove, Po!StartInvite, Po!StartSignup, Po!StartSetPassword
<1>11. Po!Visiting(v) => UNCHANGED accounts
  BY DEF Po!Visiting, Po!opening
<1> QED BY <1>1, <1>2, <1>3, <1>4, <1>5, <1>6, <1>7, <1>8, <1>9, <1>10, <1>11 DEF Po!Opening

(* Inviting an account again, approving it twice or resetting its password *)
(* never unlinks it from its record.                                       *)
THEOREM LinksKept == Po!Spec => Po!LinkKept
<1>1. PortalInv /\ [Po!Next]_Po!vars => PortalInv'
  BY PortalStep, PortalRests DEF Po!Next, Po!Supplying, Po!Staffing, Po!Hosting
<1>2. PortalInv /\ [Po!Next]_Po!vars =>
         [\A u \in Emails : accounts[u].master # 0 => accounts'[u].master # 0]_Po!vars
  BY StepKeepsLink DEF Po!Next, Po!Supplying, Po!Staffing, Po!Hosting
<1> QED BY PortalStart, <1>1, <1>2, PTL DEF Po!Spec, Po!LinkKept

=============================================================================
