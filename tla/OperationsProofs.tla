------------------------- MODULE OperationsProofs --------------------------
(***************************************************************************)
(* What the proofs about trade and about those who act from outside give   *)
(* for the composition that the operations run checks: a component in      *)
(* focus takes its own steps only, one that is not rests in its initial    *)
(* state.  The proofs are taken for three settings of the parameters of    *)
(* the portals and for two of those of trade.                              *)
(***************************************************************************)
EXTENDS MCOperations, Sequences, TLAPS, FiniteSetTheorems

-----------------------------------------------------------------------------
(* The assistant, one of its four parts at a time. *)
FrontA == INSTANCE FrontProofs
    WITH Calls <- {"c1", "c2"},
         Principals <- {[user |-> "u", entity |-> "ours", role |-> "Accountant", fresh |-> TRUE],
                        [user |-> "u", entity |-> "ours", role |-> "Editor", fresh |-> TRUE],
                        [user |-> "v", entity |-> "ours", role |-> "Accountant", fresh |-> TRUE],
                        [user |-> "w", entity |-> "theirs", role |-> "Owner", fresh |-> TRUE],
                        [user |-> "x", entity |-> "ours", role |-> "Vendor", fresh |-> TRUE],
                        [user |-> "u", entity |-> "ours", role |-> "Owner", fresh |-> FALSE]},
         ServedEntity <- "ours", MaxNudges <- 3, Cron <- [brief |-> {1, 2}], LastMinute <- 2,
         MaxRuns <- 2, MaxDowns <- 1, Texts <- {"a", "b"}, Skills <- {"s"}, SearchLimit <- 2,
         MaxMemories <- 4, Emails <- {"v", "e", "c"},
         Class <- [v |-> "Vendor", e |-> "Employee", c |-> "Customer"], Desks <- {"d1", "d2"},
         Browsers <- {}, MaxMasters <- 2, MaxLinks <- 3, MaxSessions <- 0

(* The users, routines and limits of the runs are ones the proofs speak  *)
(* of.                                                                   *)
LEMMA AmosSettings == FrontA!SettingsOK
<1>1. DOMAIN [brief |-> {1, 2}] = {"brief"} /\ [brief |-> {1, 2}]["brief"] = {1, 2}
  OBVIOUS
<1> QED BY <1>1 DEF FrontA!SettingsOK, FrontA!Ag!Routines

(* The assistant of the composition starts as the one of the proofs. *)
LEMMA AmosInit == Amos!Init <=> FrontA!Ag!Init
  BY DEF Amos!Init, Amos!Vacant, Amos!Still, Amos!Nothing, Amos!Routines, FrontA!Ag!Init,
         FrontA!Ag!Vacant, FrontA!Ag!Still, FrontA!Ag!Nothing, FrontA!Ag!Routines

(* They take the same steps in a conversation, *)
LEMMA AmosConversing == Amos!Conversing <=> FrontA!Ag!Conversing
  BY DEF Amos!Conversing, Amos!Connect, Amos!Context, Amos!Expire, Amos!Close, Amos!Dispatch,
         Amos!Resolve, Amos!Answered, Amos!Unanswered, Amos!Perform, Amos!Deadline,
         Amos!Verified, Amos!ExternalPortalRoles, Amos!Scopes, Amos!RequiredScopes, Amos!Tools,
         Amos!Vacant, Amos!Ended, Amos!Record, Amos!work, Amos!ops, Amos!recall,
         FrontA!Ag!Conversing, FrontA!Ag!Connect, FrontA!Ag!Context, FrontA!Ag!Expire,
         FrontA!Ag!Close, FrontA!Ag!Dispatch, FrontA!Ag!Resolve, FrontA!Ag!Answered,
         FrontA!Ag!Unanswered, FrontA!Ag!Perform, FrontA!Ag!Deadline, FrontA!Ag!Verified,
         FrontA!Ag!ExternalPortalRoles, FrontA!Ag!Scopes, FrontA!Ag!RequiredScopes, FrontA!Ag!Tools,
         FrontA!Ag!Vacant, FrontA!Ag!Ended, FrontA!Ag!Record, FrontA!Ag!work, FrontA!Ag!ops,
         FrontA!Ag!recall

(* in planning, *)
LEMMA AmosPlanning == Amos!Planning <=> FrontA!Ag!Planning
  BY DEF Amos!Planning, Amos!PlanTasks, Amos!UpdateTask, Amos!TurnDone, Amos!Nudge,
         Amos!Unfinished, Amos!gate, Amos!ops, Amos!recall, FrontA!Ag!Planning,
         FrontA!Ag!PlanTasks, FrontA!Ag!UpdateTask, FrontA!Ag!TurnDone, FrontA!Ag!Nudge,
         FrontA!Ag!Unfinished, FrontA!Ag!gate, FrontA!Ag!ops, FrontA!Ag!recall

(* in the background, *)
LEMMA AmosAmbient == Amos!Ambient <=> FrontA!Ag!Ambient
  BY DEF Amos!Ambient, Amos!RunNow, Amos!Launch, Amos!Begin, Amos!Finish, Amos!Report,
         Amos!SetPaused, Amos!Tick, Amos!Fire, Amos!TickEnds, Amos!Passes, Amos!Restart,
         Amos!DueIn, Amos!Routines, Amos!Still, Amos!gate, Amos!work, Amos!recall,
         FrontA!Ag!Ambient, FrontA!Ag!RunNow, FrontA!Ag!Launch, FrontA!Ag!Begin, FrontA!Ag!Finish,
         FrontA!Ag!Report, FrontA!Ag!SetPaused, FrontA!Ag!Tick, FrontA!Ag!Fire, FrontA!Ag!TickEnds,
         FrontA!Ag!Passes, FrontA!Ag!Restart, FrontA!Ag!DueIn, FrontA!Ag!Routines, FrontA!Ag!Still,
         FrontA!Ag!gate, FrontA!Ag!work, FrontA!Ag!recall

(* count alike, *)
LEMMA AmosCardinality == \A S : Amos!Cardinality(S) = FrontA!Ag!Cardinality(S)
  BY DEF Amos!Cardinality, FrontA!Ag!Cardinality, Amos!IsFiniteSet, FrontA!Ag!IsFiniteSet

(* and remember and forget alike. *)
LEMMA AmosLearning == Amos!Learning <=> FrontA!Ag!Learning
<1>1. ASSUME NEW text, NEW skill
      PROVE  Amos!Matching(text, skill) = FrontA!Ag!Matching(text, skill)
  BY DEF Amos!Matching, FrontA!Ag!Matching
<1>2. ASSUME NEW which, NEW skill
      PROVE  Amos!ProjectOf(which, skill) = FrontA!Ag!ProjectOf(which, skill)
  BY DEF Amos!ProjectOf, FrontA!Ag!ProjectOf
<1>3. Amos!Nothing = FrontA!Ag!Nothing
  BY DEF Amos!Nothing, FrontA!Ag!Nothing
<1>4. Amos!gate = FrontA!Ag!gate /\ Amos!work = FrontA!Ag!work /\ Amos!ops = FrontA!Ag!ops
  BY DEF Amos!gate, Amos!work, Amos!ops, FrontA!Ag!gate, FrontA!Ag!work, FrontA!Ag!ops
<1>5. ASSUME NEW which, NEW text, NEW skill
      PROVE  Amos!StartRemember(which, text, skill) <=> FrontA!Ag!StartRemember(which, text, skill)
  BY <1>1, <1>2, <1>3, AmosCardinality
     DEF Amos!StartRemember, FrontA!Ag!StartRemember, Amos!gate, Amos!work, Amos!ops,
         FrontA!Ag!gate, FrontA!Ag!work, FrontA!Ag!ops
<1>6. Amos!FinishRemember <=> FrontA!Ag!FinishRemember
  BY <1>3 DEF Amos!FinishRemember, FrontA!Ag!FinishRemember, Amos!gate, Amos!work, Amos!ops,
              FrontA!Ag!gate, FrontA!Ag!work, FrontA!Ag!ops
<1>7. ASSUME NEW text, NEW project
      PROVE  Amos!Forget(text, project) <=> FrontA!Ag!Forget(text, project)
  BY <1>3 DEF Amos!Forget, FrontA!Ag!Forget, Amos!gate, Amos!work, Amos!ops,
              FrontA!Ag!gate, FrontA!Ag!work, FrontA!Ag!ops
<1> QED BY <1>5, <1>6, <1>7 DEF Amos!Learning, FrontA!Ag!Learning

(* The assistant is supervised in the composition. *)
THEOREM AssistantIsSupervised == Spec => []AssistantSupervised
<1> DEFINE Inv == /\ focus = "conversing" => FrontA!GateInv
                  /\ focus = "planning" => FrontA!PlanInv
<1>1. Init => Inv
  <2>1. Init /\ focus \in {"conversing", "planning"} => Amos!Init
    BY DEF Init
  <2> QED BY <2>1, AmosInit, AmosSettings, FrontA!GateStart, FrontA!PlanStart
<1>2. Inv /\ [Next]_vars => Inv'
  <2>1. ASSUME focus' = "conversing", [Next]_vars
        PROVE  focus = "conversing" /\ (Amos!Conversing \/ UNCHANGED agent)
    BY <2>1 DEF Next, OthersStay, vars
  <2>2. ASSUME focus' = "planning", [Next]_vars
        PROVE  focus = "planning" /\ (Amos!Planning \/ UNCHANGED agent)
    BY <2>2 DEF Next, OthersStay, vars
  <2>3. UNCHANGED agent => UNCHANGED FrontA!Ag!gate /\ UNCHANGED FrontA!Ag!work
    BY DEF agent, FrontA!Ag!gate, FrontA!Ag!work
  <2>4. ASSUME Inv, [Next]_vars, focus' = "conversing" PROVE FrontA!GateInv'
    BY <2>1, <2>3, <2>4, AmosSettings, AmosConversing, FrontA!GateStep, FrontA!GateRests
  <2>5. ASSUME Inv, [Next]_vars, focus' = "planning" PROVE FrontA!PlanInv'
    BY <2>2, <2>3, <2>5, AmosSettings, AmosPlanning, FrontA!PlanStep, FrontA!OthersRest
  <2> QED BY <2>4, <2>5
<1>3. Inv => AssistantSupervised
  <2>1. FrontA!GateInv => /\ FrontA!Ag!PostsOnlyApproved /\ FrontA!Ag!RefusedStaysUndone
                            /\ FrontA!Ag!ActsAsItsUser /\ FrontA!Ag!Audited
    BY FrontA!GateImplies
  <2>2. FrontA!PlanInv => FrontA!Ag!NudgesSpent
    BY DEF FrontA!PlanInv
  <2> QED
    BY <2>1, <2>2 DEF AssistantSupervised, Amos!PostsOnlyApproved, Amos!RefusedStaysUndone,
       Amos!ActsAsItsUser,
           Amos!Audited, Amos!NudgesSpent, Amos!Scopes, FrontA!Ag!PostsOnlyApproved,
           FrontA!Ag!RefusedStaysUndone, FrontA!Ag!ActsAsItsUser, FrontA!Ag!Audited,
           FrontA!Ag!NudgesSpent, FrontA!Ag!Scopes
<1> QED BY <1>1, <1>2, <1>3, PTL DEF Spec

(* Its background work is done once in the composition. *)
THEOREM RoutinesRunOnce == Spec => []RoutinesOnce
<1> DEFINE Inv == /\ focus = "ambient" => FrontA!AmbientInv
                  /\ focus = "learning" => FrontA!LearnInv
<1>1. Init => Inv
  <2>1. Init /\ focus \in {"ambient", "learning"} => Amos!Init
    BY DEF Init
  <2> QED BY <2>1, AmosInit, AmosSettings, FrontA!AmbientStart, FrontA!LearnStart
<1>2. Inv /\ [Next]_vars => Inv'
  <2>1. ASSUME focus' = "ambient", [Next]_vars
        PROVE  focus = "ambient" /\ (Amos!Ambient \/ UNCHANGED agent)
    BY <2>1 DEF Next, OthersStay, vars
  <2>2. ASSUME focus' = "learning", [Next]_vars
        PROVE  focus = "learning" /\ (Amos!Learning \/ UNCHANGED agent)
    BY <2>2 DEF Next, OthersStay, vars
  <2>3. UNCHANGED agent => UNCHANGED FrontA!Ag!ops /\ UNCHANGED FrontA!Ag!recall
    BY DEF agent, FrontA!Ag!ops, FrontA!Ag!recall
  <2>4. ASSUME Inv, [Next]_vars, focus' = "ambient" PROVE FrontA!AmbientInv'
    BY <2>1, <2>3, <2>4, AmosSettings, AmosAmbient, FrontA!AmbientStep, FrontA!OthersRest
  <2>5. ASSUME Inv, [Next]_vars, focus' = "learning" PROVE FrontA!LearnInv'
    BY <2>2, <2>3, <2>5, AmosSettings, AmosLearning, FrontA!LearnStep, FrontA!OthersRest
  <2> QED BY <2>4, <2>5
<1>3. Inv => RoutinesOnce
  <2>1. FrontA!AmbientInv => /\ FrontA!Ag!OneAtATime /\ FrontA!Ag!LedgerTruthful
                               /\ FrontA!Ag!OccurrencesOnce
    BY AmosSettings, FrontA!AmbientImplies
  <2>2. FrontA!LearnInv => FrontA!Ag!StoredOnce
    BY DEF FrontA!LearnInv
  <2> QED
    BY <2>1, <2>2, AmosCardinality DEF RoutinesOnce, Amos!OneAtATime, Amos!LedgerTruthful,
           Amos!OccurrencesOnce, Amos!StoredOnce, Amos!Routines, Amos!Still,
           FrontA!Ag!OneAtATime, FrontA!Ag!LedgerTruthful, FrontA!Ag!OccurrencesOnce,
           FrontA!Ag!StoredOnce, FrontA!Ag!Routines, FrontA!Ag!Still
<1> QED BY <1>1, <1>2, <1>3, PTL DEF Spec

-----------------------------------------------------------------------------
(* The portals: two requests about accounts, and visits of two browsers    *)
(* and of one.                                                             *)
FrontB == INSTANCE FrontProofs
    WITH Calls <- {"c1", "c2"},
         Principals <- {[user |-> "u", entity |-> "ours", role |-> "Accountant", fresh |-> TRUE],
                        [user |-> "u", entity |-> "ours", role |-> "Editor", fresh |-> TRUE],
                        [user |-> "v", entity |-> "ours", role |-> "Accountant", fresh |-> TRUE],
                        [user |-> "w", entity |-> "theirs", role |-> "Owner", fresh |-> TRUE],
                        [user |-> "x", entity |-> "ours", role |-> "Vendor", fresh |-> TRUE],
                        [user |-> "u", entity |-> "ours", role |-> "Owner", fresh |-> FALSE]},
         ServedEntity <- "ours", MaxNudges <- 3, Cron <- [brief |-> {1, 2}], LastMinute <- 2,
         MaxRuns <- 2, MaxDowns <- 1, Texts <- {"a", "b"}, Skills <- {"s"}, SearchLimit <- 2,
         MaxMemories <- 4, Emails <- {"v", "e", "c"},
         Class <- [v |-> "Vendor", e |-> "Employee", c |-> "Customer"], Desks <- {"d1"},
         Browsers <- {"b1", "b2"}, MaxMasters <- 1, MaxLinks <- 1, MaxSessions <- 3

FrontC == INSTANCE FrontProofs
    WITH Calls <- {"c1", "c2"},
         Principals <- {[user |-> "u", entity |-> "ours", role |-> "Accountant", fresh |-> TRUE],
                        [user |-> "u", entity |-> "ours", role |-> "Editor", fresh |-> TRUE],
                        [user |-> "v", entity |-> "ours", role |-> "Accountant", fresh |-> TRUE],
                        [user |-> "w", entity |-> "theirs", role |-> "Owner", fresh |-> TRUE],
                        [user |-> "x", entity |-> "ours", role |-> "Vendor", fresh |-> TRUE],
                        [user |-> "u", entity |-> "ours", role |-> "Owner", fresh |-> FALSE]},
         ServedEntity <- "ours", MaxNudges <- 3, Cron <- [brief |-> {1, 2}], LastMinute <- 2,
         MaxRuns <- 2, MaxDowns <- 1, Texts <- {"a", "b"}, Skills <- {"s"}, SearchLimit <- 2,
         MaxMemories <- 4, Emails <- {"v", "e", "c"},
         Class <- [v |-> "Vendor", e |-> "Employee", c |-> "Customer"], Desks <- {"d1"},
         Browsers <- {"b1"}, MaxMasters <- 1, MaxLinks <- 1, MaxSessions <- 2

(* The portals of the composition and of the proofs are the same, for    *)
(* requests about accounts,                                              *)
LEMMA PortalSame ==
  /\ Portal!Init <=> FrontA!Po!Init
  /\ \A u : Portal!Opening(u) <=> FrontA!Po!Opening(u)
  /\ \A u : Portal!Visiting(u) <=> FrontA!Po!Visiting(u)
<1>1. Portal!Init <=> FrontA!Po!Init
  BY DEF Portal!Init, Portal!NoAccount, Portal!AtRest, Portal!NewBrowser, FrontA!Po!Init,
         FrontA!Po!NoAccount, FrontA!Po!AtRest, FrontA!Po!NewBrowser
<1>2. ASSUME NEW u PROVE Portal!Opening(u) <=> FrontA!Po!Opening(u)
  BY DEF Portal!Opening, Portal!Register, Portal!Reject, Portal!ForgotPassword,
         Portal!LinkExpires, Portal!StartApprove, Portal!StartInvite, Portal!FinishApprove,
         Portal!StartSignup, Portal!FinishSignup, Portal!StoreInvite, Portal!StoreLink,
         Portal!StartSetPassword, Portal!FinishSetPassword, Portal!Exists, Portal!NoAccount,
         Portal!AtRest, Portal!Invited, Portal!WithPassword, Portal!visiting,
         FrontA!Po!Opening, FrontA!Po!Register, FrontA!Po!Reject, FrontA!Po!ForgotPassword,
         FrontA!Po!LinkExpires, FrontA!Po!StartApprove, FrontA!Po!StartInvite,
         FrontA!Po!FinishApprove, FrontA!Po!StartSignup, FrontA!Po!FinishSignup,
         FrontA!Po!StoreInvite, FrontA!Po!StoreLink, FrontA!Po!StartSetPassword,
         FrontA!Po!FinishSetPassword, FrontA!Po!Exists, FrontA!Po!NoAccount,
         FrontA!Po!AtRest, FrontA!Po!Invited, FrontA!Po!WithPassword, FrontA!Po!visiting
<1>3. ASSUME NEW u PROVE Portal!Visiting(u) <=> FrontA!Po!Visiting(u)
  BY DEF Portal!Visiting, Portal!StartLogin, Portal!OpenSession, Portal!StartRefresh,
         Portal!Rotate, Portal!Logout, Portal!Serve, Portal!LoginAllowed, Portal!Live,
         Portal!Revoked, Portal!Admitted, Portal!NewBrowser, Portal!opening,
         FrontA!Po!Visiting, FrontA!Po!StartLogin, FrontA!Po!OpenSession,
         FrontA!Po!StartRefresh, FrontA!Po!Rotate, FrontA!Po!Logout, FrontA!Po!Serve,
         FrontA!Po!LoginAllowed, FrontA!Po!Live, FrontA!Po!Revoked, FrontA!Po!Admitted,
         FrontA!Po!NewBrowser, FrontA!Po!opening
<1> QED BY <1>1, <1>2, <1>3

(* for visits from two browsers, *)
LEMMA VisitorsSame ==
  /\ Visitors!Init <=> FrontB!Po!Init
  /\ \A u : Visitors!Opening(u) <=> FrontB!Po!Opening(u)
  /\ \A u : Visitors!Visiting(u) <=> FrontB!Po!Visiting(u)
<1>1. Visitors!Init <=> FrontB!Po!Init
  BY DEF Visitors!Init, Visitors!NoAccount, Visitors!AtRest, Visitors!NewBrowser,
         FrontB!Po!Init, FrontB!Po!NoAccount, FrontB!Po!AtRest, FrontB!Po!NewBrowser
<1>2. ASSUME NEW u PROVE Visitors!Opening(u) <=> FrontB!Po!Opening(u)
  BY DEF Visitors!Opening, Visitors!Register, Visitors!Reject, Visitors!ForgotPassword,
         Visitors!LinkExpires, Visitors!StartApprove, Visitors!StartInvite,
         Visitors!FinishApprove, Visitors!StartSignup, Visitors!FinishSignup,
         Visitors!StoreInvite, Visitors!StoreLink, Visitors!StartSetPassword,
         Visitors!FinishSetPassword, Visitors!Exists, Visitors!NoAccount, Visitors!AtRest,
         Visitors!Invited, Visitors!WithPassword, Visitors!visiting, FrontB!Po!Opening,
         FrontB!Po!Register, FrontB!Po!Reject, FrontB!Po!ForgotPassword,
         FrontB!Po!LinkExpires, FrontB!Po!StartApprove, FrontB!Po!StartInvite,
         FrontB!Po!FinishApprove, FrontB!Po!StartSignup, FrontB!Po!FinishSignup,
         FrontB!Po!StoreInvite, FrontB!Po!StoreLink, FrontB!Po!StartSetPassword,
         FrontB!Po!FinishSetPassword, FrontB!Po!Exists, FrontB!Po!NoAccount,
         FrontB!Po!AtRest, FrontB!Po!Invited, FrontB!Po!WithPassword,
         FrontB!Po!visiting
<1>3. ASSUME NEW u PROVE Visitors!Visiting(u) <=> FrontB!Po!Visiting(u)
  BY DEF Visitors!Visiting, Visitors!StartLogin, Visitors!OpenSession, Visitors!StartRefresh,
         Visitors!Rotate, Visitors!Logout, Visitors!Serve, Visitors!LoginAllowed, Visitors!Live,
         Visitors!Revoked, Visitors!Admitted, Visitors!NewBrowser, Visitors!opening,
         FrontB!Po!Visiting, FrontB!Po!StartLogin, FrontB!Po!OpenSession,
         FrontB!Po!StartRefresh, FrontB!Po!Rotate, FrontB!Po!Logout,
         FrontB!Po!Serve, FrontB!Po!LoginAllowed, FrontB!Po!Live, FrontB!Po!Revoked,
         FrontB!Po!Admitted, FrontB!Po!NewBrowser, FrontB!Po!opening
<1> QED BY <1>1, <1>2, <1>3

(* and for visits from one. *)
LEMMA GuestSame ==
  /\ Guest!Init <=> FrontC!Po!Init
  /\ \A u : Guest!Opening(u) <=> FrontC!Po!Opening(u)
  /\ \A u : Guest!Visiting(u) <=> FrontC!Po!Visiting(u)
<1>1. Guest!Init <=> FrontC!Po!Init
  BY DEF Guest!Init, Guest!NoAccount, Guest!AtRest, Guest!NewBrowser, FrontC!Po!Init,
         FrontC!Po!NoAccount, FrontC!Po!AtRest, FrontC!Po!NewBrowser
<1>2. ASSUME NEW u PROVE Guest!Opening(u) <=> FrontC!Po!Opening(u)
  BY DEF Guest!Opening, Guest!Register, Guest!Reject, Guest!ForgotPassword, Guest!LinkExpires,
         Guest!StartApprove, Guest!StartInvite, Guest!FinishApprove, Guest!StartSignup,
         Guest!FinishSignup, Guest!StoreInvite, Guest!StoreLink, Guest!StartSetPassword,
         Guest!FinishSetPassword, Guest!Exists, Guest!NoAccount, Guest!AtRest, Guest!Invited,
         Guest!WithPassword, Guest!visiting, FrontC!Po!Opening, FrontC!Po!Register,
         FrontC!Po!Reject, FrontC!Po!ForgotPassword, FrontC!Po!LinkExpires,
         FrontC!Po!StartApprove, FrontC!Po!StartInvite, FrontC!Po!FinishApprove,
         FrontC!Po!StartSignup, FrontC!Po!FinishSignup, FrontC!Po!StoreInvite,
         FrontC!Po!StoreLink, FrontC!Po!StartSetPassword, FrontC!Po!FinishSetPassword,
         FrontC!Po!Exists, FrontC!Po!NoAccount, FrontC!Po!AtRest, FrontC!Po!Invited,
         FrontC!Po!WithPassword, FrontC!Po!visiting
<1>3. ASSUME NEW u PROVE Guest!Visiting(u) <=> FrontC!Po!Visiting(u)
  BY DEF Guest!Visiting, Guest!StartLogin, Guest!OpenSession, Guest!StartRefresh, Guest!Rotate,
         Guest!Logout, Guest!Serve, Guest!LoginAllowed, Guest!Live, Guest!Revoked,
         Guest!Admitted, Guest!NewBrowser, Guest!opening, FrontC!Po!Visiting,
         FrontC!Po!StartLogin, FrontC!Po!OpenSession, FrontC!Po!StartRefresh, FrontC!Po!Rotate,
         FrontC!Po!Logout, FrontC!Po!Serve, FrontC!Po!LoginAllowed, FrontC!Po!Live,
         FrontC!Po!Revoked, FrontC!Po!Admitted, FrontC!Po!NewBrowser, FrontC!Po!opening
<1> QED BY <1>1, <1>2, <1>3

(* Whichever class of account the portals serve, it takes the steps of the *)
(* proofs' instance.                                                       *)
LEMMA PortalAttended ==
  /\ Portal!Supplying => FrontA!Po!Attending("Vendor")
  /\ Portal!Staffing => FrontA!Po!Attending("Employee")
  /\ Portal!Hosting => FrontA!Po!Attending("Customer")
  /\ Visitors!Supplying => FrontB!Po!Attending("Vendor")
  /\ Guest!Staffing => FrontC!Po!Attending("Employee")
  /\ Guest!Hosting => FrontC!Po!Attending("Customer")
  BY PortalSame, VisitorsSame, GuestSame DEF FrontA!Po!Attending, FrontB!Po!Attending,
         FrontC!Po!Attending, Portal!Supplying, Portal!Staffing, Portal!Hosting,
         Portal!Attending, Visitors!Supplying, Visitors!Staffing, Visitors!Hosting,
         Visitors!Attending, Guest!Supplying, Guest!Staffing, Guest!Hosting, Guest!Attending

(* Whichever class of account is in focus, the portals keep the invariant  *)
(* of their proofs.                                                        *)
PortalsInv == /\ focus \in {"supplying", "staffing", "hosting"} => FrontA!PortalInv
              /\ focus = "calling" => FrontB!PortalInv
              /\ focus \in {"logging", "shopping"} => FrontC!PortalInv

(* The composition starts with portals nobody has used. *)
LEMMA PortalsStart == ASSUME Init PROVE PortalsInv
<1>1. Init => /\ focus \in {"supplying", "staffing", "hosting"} => Portal!Init
              /\ focus = "calling" => Visitors!Init
              /\ focus \in {"logging", "shopping"} => Guest!Init
  BY DEF Init
<1> QED BY <1>1, PortalSame, VisitorsSame, GuestSame, FrontA!PortalStart,
           FrontB!PortalStart, FrontC!PortalStart DEF PortalsInv

(* Its steps attend to the class in focus and leave the portals alone    *)
(* otherwise.                                                            *)
LEMMA PortalsStep == ASSUME PortalsInv, [Next]_vars PROVE PortalsInv'
<1>1. ASSUME focus' \in {"supplying", "staffing", "hosting"}
      PROVE  /\ focus \in {"supplying", "staffing", "hosting"}
             /\ Portal!Supplying \/ Portal!Staffing \/ Portal!Hosting \/ UNCHANGED portal
  BY <1>1 DEF Next, OthersStay, vars
<1>2. ASSUME focus' = "calling"
      PROVE  focus = "calling" /\ (Visitors!Supplying \/ UNCHANGED portal)
  BY <1>2 DEF Next, OthersStay, vars
<1>3. ASSUME focus' \in {"logging", "shopping"}
      PROVE  /\ focus \in {"logging", "shopping"}
             /\ Guest!Staffing \/ Guest!Hosting \/ UNCHANGED portal
  BY <1>3 DEF Next, OthersStay, vars
<1>4. UNCHANGED portal => /\ UNCHANGED FrontA!Po!vars /\ UNCHANGED FrontB!Po!vars
                          /\ UNCHANGED FrontC!Po!vars
  BY DEF portal, FrontA!Po!vars, FrontB!Po!vars, FrontC!Po!vars
<1>5. ASSUME focus' \in {"supplying", "staffing", "hosting"}
      PROVE  FrontA!PortalInv'
  BY <1>1, <1>4, <1>5, PortalAttended, FrontA!PortalStep, FrontA!PortalRests DEF PortalsInv
<1>6. ASSUME focus' = "calling" PROVE FrontB!PortalInv'
  BY <1>2, <1>4, <1>6, PortalAttended, FrontB!PortalStep, FrontB!PortalRests DEF PortalsInv
<1>7. ASSUME focus' \in {"logging", "shopping"} PROVE FrontC!PortalInv'
  BY <1>3, <1>4, <1>7, PortalAttended, FrontC!PortalStep, FrontC!PortalRests DEF PortalsInv
<1> QED BY <1>5, <1>6, <1>7 DEF PortalsInv

(* Portal accounts are sound in the composition. *)
THEOREM PortalsSound == Spec => []PortalAccountsSound
<1>1. Init => PortalsInv
  BY PortalsStart
<1>2. PortalsInv /\ [Next]_vars => PortalsInv'
  BY PortalsStep
<1>3. PortalsInv => PortalAccountsSound
  <2>1. FrontA!PortalInv =>
            /\ Portal!InvitedCanEnter /\ Portal!LinkSingleUse /\ Portal!SignupHasLead
            /\ Portal!OneSessionPerLogin /\ Portal!ActiveIsLinked /\ Portal!ServedWhileActive
    BY FrontA!PortalImplies DEF FrontA!Po!InvitedCanEnter, FrontA!Po!LinkSingleUse,
           FrontA!Po!SignupHasLead, FrontA!Po!OneSessionPerLogin, FrontA!Po!ActiveIsLinked,
           FrontA!Po!ServedWhileActive, FrontA!Po!Live, Portal!InvitedCanEnter,
           Portal!LinkSingleUse, Portal!SignupHasLead, Portal!OneSessionPerLogin,
           Portal!ActiveIsLinked, Portal!ServedWhileActive, Portal!Live
  <2>2. FrontB!PortalInv =>
            /\ Portal!InvitedCanEnter /\ Portal!LinkSingleUse /\ Portal!SignupHasLead
            /\ Portal!OneSessionPerLogin /\ Portal!ActiveIsLinked /\ Portal!ServedWhileActive
    BY FrontB!PortalImplies DEF FrontB!Po!InvitedCanEnter, FrontB!Po!LinkSingleUse,
           FrontB!Po!SignupHasLead, FrontB!Po!OneSessionPerLogin,
           FrontB!Po!ActiveIsLinked, FrontB!Po!ServedWhileActive, FrontB!Po!Live,
           Portal!InvitedCanEnter, Portal!LinkSingleUse, Portal!SignupHasLead,
           Portal!OneSessionPerLogin, Portal!ActiveIsLinked, Portal!ServedWhileActive,
           Portal!Live
  <2>3. FrontC!PortalInv =>
            /\ Portal!InvitedCanEnter /\ Portal!LinkSingleUse /\ Portal!SignupHasLead
            /\ Portal!OneSessionPerLogin /\ Portal!ActiveIsLinked /\ Portal!ServedWhileActive
    BY FrontC!PortalImplies DEF FrontC!Po!InvitedCanEnter, FrontC!Po!LinkSingleUse,
           FrontC!Po!SignupHasLead, FrontC!Po!OneSessionPerLogin, FrontC!Po!ActiveIsLinked,
           FrontC!Po!ServedWhileActive, FrontC!Po!Live, Portal!InvitedCanEnter,
           Portal!LinkSingleUse, Portal!SignupHasLead, Portal!OneSessionPerLogin,
           Portal!ActiveIsLinked, Portal!ServedWhileActive, Portal!Live
  <2> QED BY <2>1, <2>2, <2>3 DEF PortalAccountsSound, PortalsInv
<1> QED BY <1>1, <1>2, <1>3, PTL DEF Spec

-----------------------------------------------------------------------------
(* Sets of at most three elements are finite. *)
LEMMA Few == \A a, b, c : /\ IsFiniteSet({}) /\ IsFiniteSet({a})
                         /\ IsFiniteSet({a, b}) /\ IsFiniteSet({a, b, c})
<1> TAKE a, b, c
<1>1. IsFiniteSet({} \cup {a})
  BY FS_EmptySet, FS_AddElement
<1>2. IsFiniteSet(({} \cup {a}) \cup {b})
  BY <1>1, FS_AddElement
<1>3. IsFiniteSet((({} \cup {a}) \cup {b}) \cup {c})
  BY <1>2, FS_AddElement
<1>4. /\ {} \cup {a} = {a} /\ ({} \cup {a}) \cup {b} = {a, b}
      /\ (({} \cup {a}) \cup {b}) \cup {c} = {a, b, c}
  OBVIOUS
<1> QED BY <1>1, <1>2, <1>3, <1>4, FS_EmptySet

TradeA == INSTANCE TradeProofs
    WITH Papers <- {"i", "j", "c"}, CorrectedBy <- [c |-> "i"], Products <- {"x"},
         Senders <- {"s1"}, Switches <- BOOLEAN, MaxSlips <- 1, MaxReceipts <- 4,
         Clerks <- {c1}, Flows <- {"bill"}, MaxLapses <- 1, MaxDocs <- 2, Staff <- {s1},
         Areas <- {"shelf", "count", "making", "till"}, Lots <- {<<1, 150>>, <<2, 101>>},
         MaxStops <- 1

TradeB == INSTANCE TradeProofs
    WITH Papers <- {"i", "c"}, CorrectedBy <- [c |-> "i"], Products <- {},
         Senders <- {"s1", "s2"}, Switches <- {TRUE}, MaxSlips <- 1, MaxReceipts <- 3,
         Clerks <- {c1, c2}, Flows <- {"requisition", "tender", "claim", "note"},
         MaxLapses <- 0, MaxDocs <- 2, Staff <- {s1, s2},
         Areas <- {"shelf", "making", "till"}, Lots <- {<<1, 150>>}, MaxStops <- 0

-----------------------------------------------------------------------------
(* Transmission to the tax authority, by one request at a time and by two. *)
LEMMA PapersFinite == TradeA!PapersOK /\ TradeB!PapersOK
<1>1. DOMAIN [c |-> "i"] = {"c"} /\ [c |-> "i"]["c"] = "i"
  OBVIOUS
<1>2. \A S : IsFiniteSet(S) => TradeA!IsFiniteSet(S) /\ TradeB!IsFiniteSet(S)
  BY DEF IsFiniteSet, TradeA!IsFiniteSet, TradeB!IsFiniteSet
<1>3. TradeA!IsFiniteSet({"i", "j", "c"}) /\ TradeB!IsFiniteSet({"i", "c"})
  BY <1>2, Few
<1> QED BY <1>1, <1>3 DEF TradeA!PapersOK, TradeB!PapersOK, TradeA!E!IsCredit, TradeB!E!IsCredit

(* Transmission starts as in the proofs, with one sender and with two. *)
LEMMA EtimsInits == /\ Transmitting!Init <=> TradeA!E!Init
                    /\ Racing!Init <=> TradeB!E!Init
  BY DEF Transmitting!Init, Transmitting!Resting, TradeA!E!Init,
         TradeA!E!Resting, Racing!Init, Racing!Resting, TradeB!E!Init,
         TradeB!E!Resting

(* One sender takes the steps of the proofs, *)
LEMMA TransmittingNext == Transmitting!Next <=> TradeA!E!Next
  BY DEF Transmitting!Next, Transmitting!SaveConfig, Transmitting!InitializeDevice,
         Transmitting!Ready, Transmitting!RegisterItem, Transmitting!Post,
         Transmitting!IsCredit, Transmitting!Original, Transmitting!MayTransmit,
         Transmitting!StartTransmit, Transmitting!EnsureItemsRegistered, Transmitting!Receipt,
         Transmitting!Accepted, Transmitting!Refused, Transmitting!AnswerLost,
         Transmitting!RecordReceipt, Transmitting!AdvanceCounter, Transmitting!RecordFailure,
         Transmitting!Stop, Transmitting!Resting, TradeA!E!Next,
         TradeA!E!SaveConfig, TradeA!E!InitializeDevice, TradeA!E!Ready,
         TradeA!E!RegisterItem, TradeA!E!Post, TradeA!E!IsCredit,
         TradeA!E!Original, TradeA!E!MayTransmit,
         TradeA!E!StartTransmit, TradeA!E!EnsureItemsRegistered,
         TradeA!E!Receipt, TradeA!E!Accepted, TradeA!E!Refused,
         TradeA!E!AnswerLost, TradeA!E!RecordReceipt,
         TradeA!E!AdvanceCounter, TradeA!E!RecordFailure, TradeA!E!Stop,
         TradeA!E!Resting

(* and so do two. *)
LEMMA RacingNext == Racing!Next <=> TradeB!E!Next
  BY DEF Racing!Next, Racing!SaveConfig, Racing!InitializeDevice, Racing!Ready,
         Racing!RegisterItem, Racing!Post, Racing!IsCredit, Racing!Original, Racing!MayTransmit,
         Racing!StartTransmit, Racing!EnsureItemsRegistered, Racing!Receipt, Racing!Accepted,
         Racing!Refused, Racing!AnswerLost, Racing!RecordReceipt, Racing!AdvanceCounter,
         Racing!RecordFailure, Racing!Stop, Racing!Resting, TradeB!E!Next,
         TradeB!E!SaveConfig, TradeB!E!InitializeDevice, TradeB!E!Ready,
         TradeB!E!RegisterItem, TradeB!E!Post, TradeB!E!IsCredit, TradeB!E!Original,
         TradeB!E!MayTransmit, TradeB!E!StartTransmit, TradeB!E!EnsureItemsRegistered,
         TradeB!E!Receipt, TradeB!E!Accepted, TradeB!E!Refused, TradeB!E!AnswerLost,
         TradeB!E!RecordReceipt, TradeB!E!AdvanceCounter, TradeB!E!RecordFailure,
         TradeB!E!Stop, TradeB!E!Resting

(* Receipts are in order in the composition, and given once while requests *)
(* do not overlap.                                                         *)
THEOREM ReceiptsSound == Spec => []ReceiptsTransmitted
<1> DEFINE Inv == /\ focus = "transmitting" => TradeA!EtimsInv /\ TradeA!AloneInv
                  /\ focus = "racing" => TradeB!EtimsInv
<1>a. TradeA!Alone
  BY DEF TradeA!Alone
<1>1. Init => Inv
  <2>1. Init => /\ focus = "transmitting" => Transmitting!Init
                /\ focus = "racing" => Racing!Init
    BY DEF Init
  <2> QED BY <2>1, EtimsInits, TradeA!EtimsStart, TradeA!AloneStart,
             TradeB!EtimsStart
<1>2. Inv /\ [Next]_vars => Inv'
  <2>1. ASSUME focus' = "transmitting", [Next]_vars
        PROVE  focus = "transmitting" /\ (Transmitting!Next \/ UNCHANGED etims)
    BY <2>1 DEF Next, OthersStay, vars
  <2>2. ASSUME focus' = "racing", [Next]_vars
        PROVE  focus = "racing" /\ (Racing!Next \/ UNCHANGED etims)
    BY <2>2 DEF Next, OthersStay, vars
  <2>3. UNCHANGED etims => UNCHANGED TradeA!E!vars /\ UNCHANGED TradeB!E!vars
    BY DEF etims, TradeA!E!vars, TradeB!E!vars
  <2>4. ASSUME Inv, [Next]_vars, focus' = "transmitting"
        PROVE  TradeA!EtimsInv' /\ TradeA!AloneInv'
    BY <1>a, <2>1, <2>3, <2>4, PapersFinite, TransmittingNext, TradeA!EtimsStep,
       TradeA!AloneStep
  <2>5. ASSUME Inv, [Next]_vars, focus' = "racing" PROVE TradeB!EtimsInv'
    BY <2>2, <2>3, <2>5, PapersFinite, RacingNext, TradeB!EtimsStep
  <2> QED BY <2>4, <2>5
<1>3. Inv => ReceiptsTransmitted
  <2>1. TradeA!EtimsInv /\ TradeA!AloneInv =>
           TradeA!E!NumbersDistinct /\ TradeA!E!HeldOnce
    BY PapersFinite, TradeA!AloneImplies
  <2>c. \A S : TradeA!E!Cardinality(S) = Transmitting!Cardinality(S)
    BY DEF TradeA!E!Cardinality, Transmitting!Cardinality, TradeA!E!IsFiniteSet,
       Transmitting!IsFiniteSet
  <2>2. (TradeA!E!NumbersDistinct => Transmitting!NumbersDistinct)
        /\ (TradeA!E!HeldOnce => Transmitting!HeldOnce)
    BY <2>c DEF Transmitting!NumbersDistinct, Transmitting!HeldOnce, Transmitting!Transmitted,
         TradeA!E!NumbersDistinct, TradeA!E!HeldOnce,
         TradeA!E!Transmitted
  <2>3. TradeB!EtimsInv => Racing!ReceiptsFollow
    BY DEF TradeB!EtimsInv, TradeB!E!ReceiptsFollow, Racing!ReceiptsFollow,
           TradeB!E!IsCredit, Racing!IsCredit
  <2>4. TradeA!EtimsInv => Racing!ReceiptsFollow
    BY DEF TradeA!EtimsInv, TradeA!E!ReceiptsFollow, Racing!ReceiptsFollow,
           TradeA!E!IsCredit, Racing!IsCredit
  <2> QED BY <2>1, <2>2, <2>3, <2>4 DEF ReceiptsTransmitted
<1> QED BY <1>1, <1>2, <1>3, PTL DEF Spec

-----------------------------------------------------------------------------
(* Purchases: one clerk, and two whose requests overlap. *)
LEMMA BuyingSame ==
  /\ Buying!Init <=> TradeA!Pu!Init
  /\ Buying!Next <=> TradeA!Pu!Next
<1>1. Buying!Init <=> TradeA!Pu!Init
  BY DEF Buying!Init, Buying!BillIds, Buying!NoBill, Buying!Idle, Buying!Bill,
         TradeA!Pu!Init, TradeA!Pu!BillIds, TradeA!Pu!NoBill, TradeA!Pu!Idle, TradeA!Pu!Bill
<1>2. Buying!Next <=> TradeA!Pu!Next
  BY DEF Buying!Next, Buying!CreateRequisition, Buying!CreateClaim,
         Buying!SubmitRequisition, Buying!RejectRequisition, Buying!CreateTender,
         Buying!PublishTender, Buying!CreatePurchaseOrder, Buying!CreateGoodsReceipt,
         Buying!CreateBill, Buying!SubmitClaim, Buying!RejectClaim, Buying!Requisitions,
         Buying!Tenders, Buying!Bills, Buying!Claims, Buying!Notes, Buying!Lapse,
         Buying!tendering, Buying!billing, Buying!SetClaim, Buying!SetRequisition,
         Buying!sourcing, Buying!Unused, Buying!SetBill, Buying!Bill,
         Buying!StartApproveRequisition, Buying!ApproveRequisition, Buying!StartConvert,
         Buying!ConvertToDocument, Buying!MarkConverted, Buying!StartBid, Buying!StartAward,
         Buying!DeleteBid, Buying!InsertBid, Buying!AwardOrder, Buying!Award,
         Buying!RejectOthers, Buying!CloseTender, Buying!StartLodge, Buying!LodgeBill,
         Buying!LinkBill, Buying!MarkInvoiced, Buying!BillIds, Buying!StartApproveBill,
         Buying!StartApproveUnmatched, Buying!StartPostBill, Buying!StartDeleteBill,
         Buying!StartPayBill, Buying!StartEditBill, Buying!ApproveBill, Buying!EditBill,
         Buying!DeleteBill, Buying!PostBill, Buying!PayBill, Buying!StartApproveClaim,
         Buying!PostClaim, Buying!MarkClaim, Buying!StoreDebitNote, Buying!PostDebitNote,
         Buying!CreateSupplierCreditNote, Buying!Finish, Buying!documents, Buying!NoBill,
         Buying!SetBills, Buying!WithinLimit, Buying!Begin, Buying!Request, Buying!At,
         Buying!Go, Buying!SetBids, Buying!Mark, Buying!Won, Buying!UpdateBill,
         Buying!Matches, Buying!OnBill, Buying!SetNotes, Buying!Idle, Buying!Billed,
         Buying!Min, Buying!MapThenSumSet, Buying!MapThenFoldSet, TradeA!Pu!Next,
         TradeA!Pu!CreateRequisition, TradeA!Pu!CreateClaim, TradeA!Pu!SubmitRequisition,
         TradeA!Pu!RejectRequisition, TradeA!Pu!CreateTender, TradeA!Pu!PublishTender,
         TradeA!Pu!CreatePurchaseOrder, TradeA!Pu!CreateGoodsReceipt, TradeA!Pu!CreateBill,
         TradeA!Pu!SubmitClaim, TradeA!Pu!RejectClaim, TradeA!Pu!Requisitions,
         TradeA!Pu!Tenders, TradeA!Pu!Bills, TradeA!Pu!Claims, TradeA!Pu!Notes,
         TradeA!Pu!Lapse, TradeA!Pu!tendering, TradeA!Pu!billing, TradeA!Pu!SetClaim,
         TradeA!Pu!SetRequisition, TradeA!Pu!sourcing, TradeA!Pu!Unused, TradeA!Pu!SetBill,
         TradeA!Pu!Bill, TradeA!Pu!StartApproveRequisition, TradeA!Pu!ApproveRequisition,
         TradeA!Pu!StartConvert, TradeA!Pu!ConvertToDocument, TradeA!Pu!MarkConverted,
         TradeA!Pu!StartBid, TradeA!Pu!StartAward, TradeA!Pu!DeleteBid, TradeA!Pu!InsertBid,
         TradeA!Pu!AwardOrder, TradeA!Pu!Award, TradeA!Pu!RejectOthers,
         TradeA!Pu!CloseTender, TradeA!Pu!StartLodge, TradeA!Pu!LodgeBill,
         TradeA!Pu!LinkBill, TradeA!Pu!MarkInvoiced, TradeA!Pu!BillIds,
         TradeA!Pu!StartApproveBill, TradeA!Pu!StartApproveUnmatched,
         TradeA!Pu!StartPostBill, TradeA!Pu!StartDeleteBill, TradeA!Pu!StartPayBill,
         TradeA!Pu!StartEditBill, TradeA!Pu!ApproveBill, TradeA!Pu!EditBill,
         TradeA!Pu!DeleteBill, TradeA!Pu!PostBill, TradeA!Pu!PayBill,
         TradeA!Pu!StartApproveClaim, TradeA!Pu!PostClaim, TradeA!Pu!MarkClaim,
         TradeA!Pu!StoreDebitNote, TradeA!Pu!PostDebitNote,
         TradeA!Pu!CreateSupplierCreditNote, TradeA!Pu!Finish, TradeA!Pu!documents,
         TradeA!Pu!NoBill, TradeA!Pu!SetBills, TradeA!Pu!WithinLimit, TradeA!Pu!Begin,
         TradeA!Pu!Request, TradeA!Pu!At, TradeA!Pu!Go, TradeA!Pu!SetBids, TradeA!Pu!Mark,
         TradeA!Pu!Won, TradeA!Pu!UpdateBill, TradeA!Pu!Matches, TradeA!Pu!OnBill,
         TradeA!Pu!SetNotes, TradeA!Pu!Idle, TradeA!Pu!Billed, TradeA!Pu!Min,
         TradeA!Pu!MapThenSumSet, TradeA!Pu!MapThenFoldSet
<1> QED BY <1>1, <1>2

(* Purchasing with two clerks is that of the proofs. *)
LEMMA OverlapSame ==
  /\ Overlap!Init <=> TradeB!Pu!Init
  /\ Overlap!Next <=> TradeB!Pu!Next
<1>1. Overlap!Init <=> TradeB!Pu!Init
  BY DEF Overlap!Init, Overlap!BillIds, Overlap!NoBill, Overlap!Idle, Overlap!Bill,
         TradeB!Pu!Init, TradeB!Pu!BillIds, TradeB!Pu!NoBill, TradeB!Pu!Idle, TradeB!Pu!Bill
<1>2. Overlap!Next <=> TradeB!Pu!Next
  BY DEF Overlap!Next, Overlap!CreateRequisition, Overlap!CreateClaim,
         Overlap!SubmitRequisition, Overlap!RejectRequisition, Overlap!CreateTender,
         Overlap!PublishTender, Overlap!CreatePurchaseOrder, Overlap!CreateGoodsReceipt,
         Overlap!CreateBill, Overlap!SubmitClaim, Overlap!RejectClaim, Overlap!Requisitions,
         Overlap!Tenders, Overlap!Bills, Overlap!Claims, Overlap!Notes, Overlap!Lapse,
         Overlap!tendering, Overlap!billing, Overlap!SetClaim, Overlap!SetRequisition,
         Overlap!sourcing, Overlap!Unused, Overlap!SetBill, Overlap!Bill,
         Overlap!StartApproveRequisition, Overlap!ApproveRequisition, Overlap!StartConvert,
         Overlap!ConvertToDocument, Overlap!MarkConverted, Overlap!StartBid,
         Overlap!StartAward, Overlap!DeleteBid, Overlap!InsertBid, Overlap!AwardOrder,
         Overlap!Award, Overlap!RejectOthers, Overlap!CloseTender, Overlap!StartLodge,
         Overlap!LodgeBill, Overlap!LinkBill, Overlap!MarkInvoiced, Overlap!BillIds,
         Overlap!StartApproveBill, Overlap!StartApproveUnmatched, Overlap!StartPostBill,
         Overlap!StartDeleteBill, Overlap!StartPayBill, Overlap!StartEditBill,
         Overlap!ApproveBill, Overlap!EditBill, Overlap!DeleteBill, Overlap!PostBill,
         Overlap!PayBill, Overlap!StartApproveClaim, Overlap!PostClaim, Overlap!MarkClaim,
         Overlap!StoreDebitNote, Overlap!PostDebitNote, Overlap!CreateSupplierCreditNote,
         Overlap!Finish, Overlap!documents, Overlap!NoBill, Overlap!SetBills,
         Overlap!WithinLimit, Overlap!Begin, Overlap!Request, Overlap!At, Overlap!Go,
         Overlap!SetBids, Overlap!Mark, Overlap!Won, Overlap!UpdateBill, Overlap!Matches,
         Overlap!OnBill, Overlap!SetNotes, Overlap!Idle, Overlap!Billed, Overlap!Min,
         Overlap!MapThenSumSet, Overlap!MapThenFoldSet, TradeB!Pu!Next,
         TradeB!Pu!CreateRequisition, TradeB!Pu!CreateClaim, TradeB!Pu!SubmitRequisition,
         TradeB!Pu!RejectRequisition, TradeB!Pu!CreateTender, TradeB!Pu!PublishTender,
         TradeB!Pu!CreatePurchaseOrder, TradeB!Pu!CreateGoodsReceipt, TradeB!Pu!CreateBill,
         TradeB!Pu!SubmitClaim, TradeB!Pu!RejectClaim, TradeB!Pu!Requisitions,
         TradeB!Pu!Tenders, TradeB!Pu!Bills, TradeB!Pu!Claims, TradeB!Pu!Notes,
         TradeB!Pu!Lapse, TradeB!Pu!tendering, TradeB!Pu!billing, TradeB!Pu!SetClaim,
         TradeB!Pu!SetRequisition, TradeB!Pu!sourcing, TradeB!Pu!Unused, TradeB!Pu!SetBill,
         TradeB!Pu!Bill, TradeB!Pu!StartApproveRequisition, TradeB!Pu!ApproveRequisition,
         TradeB!Pu!StartConvert, TradeB!Pu!ConvertToDocument, TradeB!Pu!MarkConverted,
         TradeB!Pu!StartBid, TradeB!Pu!StartAward, TradeB!Pu!DeleteBid, TradeB!Pu!InsertBid,
         TradeB!Pu!AwardOrder, TradeB!Pu!Award, TradeB!Pu!RejectOthers,
         TradeB!Pu!CloseTender, TradeB!Pu!StartLodge, TradeB!Pu!LodgeBill,
         TradeB!Pu!LinkBill, TradeB!Pu!MarkInvoiced, TradeB!Pu!BillIds,
         TradeB!Pu!StartApproveBill, TradeB!Pu!StartApproveUnmatched,
         TradeB!Pu!StartPostBill, TradeB!Pu!StartDeleteBill, TradeB!Pu!StartPayBill,
         TradeB!Pu!StartEditBill, TradeB!Pu!ApproveBill, TradeB!Pu!EditBill,
         TradeB!Pu!DeleteBill, TradeB!Pu!PostBill, TradeB!Pu!PayBill,
         TradeB!Pu!StartApproveClaim, TradeB!Pu!PostClaim, TradeB!Pu!MarkClaim,
         TradeB!Pu!StoreDebitNote, TradeB!Pu!PostDebitNote,
         TradeB!Pu!CreateSupplierCreditNote, TradeB!Pu!Finish, TradeB!Pu!documents,
         TradeB!Pu!NoBill, TradeB!Pu!SetBills, TradeB!Pu!WithinLimit, TradeB!Pu!Begin,
         TradeB!Pu!Request, TradeB!Pu!At, TradeB!Pu!Go, TradeB!Pu!SetBids, TradeB!Pu!Mark,
         TradeB!Pu!Won, TradeB!Pu!UpdateBill, TradeB!Pu!Matches, TradeB!Pu!OnBill,
         TradeB!Pu!SetNotes, TradeB!Pu!Idle, TradeB!Pu!Billed, TradeB!Pu!Min,
         TradeB!Pu!MapThenSumSet, TradeB!Pu!MapThenFoldSet
<1> QED BY <1>1, <1>2

(* What is ordered and the bills are counted. *)
OrdersGiven == Ordered \in Nat /\ MaxBills \in Nat

(* The quantities of a purchase are as the proofs assume, and the run    *)
(* with one clerk has one.                                               *)
LEMMA OrdersFit == ASSUME OrdersGiven PROVE TradeA!UnitsOK /\ TradeB!UnitsOK /\ TradeA!OneClerk
  BY DEF OrdersGiven, TradeA!UnitsOK, TradeB!UnitsOK, TradeA!OneClerk

(* With one clerk purchasing keeps the invariant of requests that do not   *)
(* overlap, with two the one of overlapping requests.                      *)
PurchasesInv == /\ focus = "buying" => TradeA!ClerkInv
                /\ focus = "overlap" => TradeB!PurchaseInv

(* The composition starts with nothing bought, *)
LEMMA PurchasesStart == ASSUME OrdersGiven, Init PROVE PurchasesInv
<1>1. /\ focus = "buying" => Buying!Init
      /\ focus = "overlap" => Overlap!Init
  BY DEF Init
<1> QED BY <1>1, OrdersFit, BuyingSame, OverlapSame, TradeA!ClerkStart, TradeB!PurchaseStart
           DEF PurchasesInv

(* and its steps keep the invariant of purchasing. *)
LEMMA PurchasesStep == ASSUME OrdersGiven, PurchasesInv, [Next]_vars PROVE PurchasesInv'
<1>1. ASSUME focus' = "buying" PROVE TradeA!ClerkInv'
  <2>1. focus = "buying" /\ (Buying!Next \/ UNCHANGED purchasing)
    BY <1>1 DEF Next, OthersStay, vars
  <2>2. UNCHANGED purchasing => UNCHANGED TradeA!Pu!vars
    BY DEF purchasing, TradeA!Pu!vars
  <2> QED BY <2>1, <2>2, OrdersFit, BuyingSame, TradeA!ClerkStep DEF PurchasesInv
<1>2. ASSUME focus' = "overlap" PROVE TradeB!PurchaseInv'
  <2>1. focus = "overlap" /\ (Overlap!Next \/ UNCHANGED purchasing)
    BY <1>2 DEF Next, OthersStay, vars
  <2>2. UNCHANGED purchasing => UNCHANGED TradeB!Pu!vars
    BY DEF purchasing, TradeB!Pu!vars
  <2> QED BY <2>1, <2>2, OrdersFit, OverlapSame, TradeB!PurchaseStep DEF PurchasesInv
<1> QED BY <1>1, <1>2 DEF PurchasesInv

(* Purchases end as they should in the composition, for every quantity     *)
(* ordered and every number of bills.                                      *)
THEOREM PurchasesAreBooked == OrdersGiven => (Spec => []PurchasesBooked)
<1> SUFFICES ASSUME OrdersGiven PROVE Spec => []PurchasesBooked
  OBVIOUS
<1>1. Init => PurchasesInv
  BY PurchasesStart
<1>2. PurchasesInv /\ [Next]_vars => PurchasesInv'
  BY PurchasesStep
<1>3. PurchasesInv => PurchasesBooked
  <2>1. TradeA!ClerkInv =>
         /\ Buying!BookedBeforeMarked
         /\ Buying!ReceiptsCoverApprovals
         /\ Buying!BillConserved
    <3>1. TradeA!ClerkInv => /\ TradeA!Pu!BookedBeforeMarked
                             /\ TradeA!Pu!ReceiptsCoverApprovals
                             /\ TradeA!Pu!BillConserved
      BY OrdersFit, TradeA!ClerkHolds DEF TradeA!ClerkInv, TradeA!PurchaseInv
    <3>2. TradeA!Pu!BookedBeforeMarked => Buying!BookedBeforeMarked
      BY DEF Buying!BookedBeforeMarked, Buying!BillIds, TradeA!Pu!BookedBeforeMarked,
         TradeA!Pu!BillIds
    <3>3. TradeA!Pu!ReceiptsCoverApprovals => Buying!ReceiptsCoverApprovals
      BY DEF Buying!ReceiptsCoverApprovals, Buying!Approved, TradeA!Pu!Approved, Buying!BillIds, Buying!MapThenSumSet,
         Buying!MapThenFoldSet, TradeA!Pu!ReceiptsCoverApprovals, TradeA!Pu!BillIds,
         TradeA!Pu!MapThenSumSet, TradeA!Pu!MapThenFoldSet
    <3>4. TradeA!Pu!BillConserved => Buying!BillConserved
      BY DEF Buying!BillConserved, Buying!BillIds, TradeA!Pu!BillConserved, TradeA!Pu!BillIds
    <3> QED BY <3>1, <3>2, <3>3, <3>4
  <2>2. TradeB!PurchaseInv =>
         /\ Buying!BookedBeforeMarked
         /\ Overlap!OneWinner
    <3>1. TradeB!PurchaseInv => /\ TradeB!Pu!BookedBeforeMarked
                                /\ TradeB!Pu!OneWinner
      BY OrdersFit, TradeB!OneWinnerHolds DEF TradeB!PurchaseInv
    <3>2. TradeB!Pu!BookedBeforeMarked => Buying!BookedBeforeMarked
      BY DEF Buying!BookedBeforeMarked, Buying!BillIds, TradeB!Pu!BookedBeforeMarked,
         TradeB!Pu!BillIds
    <3>3. TradeB!Pu!OneWinner => Overlap!OneWinner
      BY DEF Overlap!OneWinner, Overlap!Cardinality, Overlap!IsFiniteSet, TradeB!Pu!OneWinner,
         TradeB!Pu!Cardinality, TradeB!Pu!IsFiniteSet
    <3> QED BY <3>1, <3>2, <3>3
  <2> QED BY <2>1, <2>2 DEF PurchasesBooked, PurchasesInv
<1> QED BY <1>1, <1>2, <1>3, PTL DEF Spec

-----------------------------------------------------------------------------
(* Stock, production and the till: one request at a time, and two. *)
LEMMA CounterSame ==
  /\ Counter!Init <=> TradeA!St!Init
  /\ Counter!Next <=> TradeA!St!Next
<1>1. Counter!Init <=> TradeA!St!Init
  BY DEF Counter!Init, Counter!Items, Counter!Sites, Counter!Tenders, Counter!Free,
         TradeA!St!Init, TradeA!St!Items, TradeA!St!Sites, TradeA!St!Tenders, TradeA!St!Free
<1>2. Counter!Next <=> TradeA!St!Next
  BY DEF Counter!Next, Counter!CreateWorkOrder, Counter!OpenSession, Counter!Work,
         Counter!SetOrder, Counter!stock, Counter!houses, Counter!Named, Counter!Sites,
         Counter!Receive, Counter!Bought, Counter!CheckIssue, Counter!StartIssue,
         Counter!StartAdjust, Counter!Known, Counter!StartTransfer, Counter!Transfer,
         Counter!StartWarehouse, Counter!InsertWarehouse, Counter!Issue, Counter!Adjust,
         Counter!StartWorkOrder, Counter!CompleteWorkOrder, Counter!PostSale,
         Counter!StartStart, Counter!StartComplete, Counter!StartCancel,
         Counter!CancelWorkOrder, Counter!Tenders, Counter!StartSale, Counter!PaySale,
         Counter!TagSale, Counter!StartClose, Counter!CloseSession, Counter!Stop,
         Counter!till, Counter!Place, Counter!Move, Counter!Received, Counter!Post,
         Counter!Cents, Counter!Enough, Counter!End, Counter!Begin, Counter!Request,
         Counter!At, Counter!Take, Counter!IssuedCost, Counter!Home, Counter!UnitCost,
         Counter!Goto, Counter!ExpectedCash, Counter!Averaged, Counter!RoundDiv,
         Counter!Fine, Counter!Free, Counter!Tagged, TradeA!St!Next,
         TradeA!St!CreateWorkOrder, TradeA!St!OpenSession, TradeA!St!Work,
         TradeA!St!SetOrder, TradeA!St!stock, TradeA!St!houses, TradeA!St!Named,
         TradeA!St!Sites, TradeA!St!Receive, TradeA!St!Bought, TradeA!St!CheckIssue,
         TradeA!St!StartIssue, TradeA!St!StartAdjust, TradeA!St!Known,
         TradeA!St!StartTransfer, TradeA!St!Transfer, TradeA!St!StartWarehouse,
         TradeA!St!InsertWarehouse, TradeA!St!Issue, TradeA!St!Adjust,
         TradeA!St!StartWorkOrder, TradeA!St!CompleteWorkOrder, TradeA!St!PostSale,
         TradeA!St!StartStart, TradeA!St!StartComplete, TradeA!St!StartCancel,
         TradeA!St!CancelWorkOrder, TradeA!St!Tenders, TradeA!St!StartSale,
         TradeA!St!PaySale, TradeA!St!TagSale, TradeA!St!StartClose, TradeA!St!CloseSession,
         TradeA!St!Stop, TradeA!St!till, TradeA!St!Place, TradeA!St!Move,
         TradeA!St!Received, TradeA!St!Post, TradeA!St!Cents, TradeA!St!Enough,
         TradeA!St!End, TradeA!St!Begin, TradeA!St!Request, TradeA!St!At, TradeA!St!Take,
         TradeA!St!IssuedCost, TradeA!St!Home, TradeA!St!UnitCost, TradeA!St!Goto,
         TradeA!St!ExpectedCash, TradeA!St!Averaged, TradeA!St!RoundDiv, TradeA!St!Fine,
         TradeA!St!Free, TradeA!St!Tagged
<1> QED BY <1>1, <1>2

(* The stock with two people on the floor is that of the proofs. *)
LEMMA FloorSame ==
  /\ Floor!Init <=> TradeB!St!Init
  /\ Floor!Next <=> TradeB!St!Next
<1>1. Floor!Init <=> TradeB!St!Init
  BY DEF Floor!Init, Floor!Items, Floor!Sites, Floor!Tenders, Floor!Free, TradeB!St!Init,
         TradeB!St!Items, TradeB!St!Sites, TradeB!St!Tenders, TradeB!St!Free
<1>2. Floor!Next <=> TradeB!St!Next
  BY DEF Floor!Next, Floor!CreateWorkOrder, Floor!OpenSession, Floor!Work, Floor!SetOrder,
         Floor!stock, Floor!houses, Floor!Named, Floor!Sites, Floor!Receive, Floor!Bought,
         Floor!CheckIssue, Floor!StartIssue, Floor!StartAdjust, Floor!Known,
         Floor!StartTransfer, Floor!Transfer, Floor!StartWarehouse, Floor!InsertWarehouse,
         Floor!Issue, Floor!Adjust, Floor!StartWorkOrder, Floor!CompleteWorkOrder,
         Floor!PostSale, Floor!StartStart, Floor!StartComplete, Floor!StartCancel,
         Floor!CancelWorkOrder, Floor!Tenders, Floor!StartSale, Floor!PaySale,
         Floor!TagSale, Floor!StartClose, Floor!CloseSession, Floor!Stop, Floor!till,
         Floor!Place, Floor!Move, Floor!Received, Floor!Post, Floor!Cents, Floor!Enough,
         Floor!End, Floor!Begin, Floor!Request, Floor!At, Floor!Take, Floor!IssuedCost,
         Floor!Home, Floor!UnitCost, Floor!Goto, Floor!ExpectedCash, Floor!Averaged,
         Floor!RoundDiv, Floor!Fine, Floor!Free, Floor!Tagged, TradeB!St!Next,
         TradeB!St!CreateWorkOrder, TradeB!St!OpenSession, TradeB!St!Work,
         TradeB!St!SetOrder, TradeB!St!stock, TradeB!St!houses, TradeB!St!Named,
         TradeB!St!Sites, TradeB!St!Receive, TradeB!St!Bought, TradeB!St!CheckIssue,
         TradeB!St!StartIssue, TradeB!St!StartAdjust, TradeB!St!Known,
         TradeB!St!StartTransfer, TradeB!St!Transfer, TradeB!St!StartWarehouse,
         TradeB!St!InsertWarehouse, TradeB!St!Issue, TradeB!St!Adjust,
         TradeB!St!StartWorkOrder, TradeB!St!CompleteWorkOrder, TradeB!St!PostSale,
         TradeB!St!StartStart, TradeB!St!StartComplete, TradeB!St!StartCancel,
         TradeB!St!CancelWorkOrder, TradeB!St!Tenders, TradeB!St!StartSale,
         TradeB!St!PaySale, TradeB!St!TagSale, TradeB!St!StartClose, TradeB!St!CloseSession,
         TradeB!St!Stop, TradeB!St!till, TradeB!St!Place, TradeB!St!Move,
         TradeB!St!Received, TradeB!St!Post, TradeB!St!Cents, TradeB!St!Enough,
         TradeB!St!End, TradeB!St!Begin, TradeB!St!Request, TradeB!St!At, TradeB!St!Take,
         TradeB!St!IssuedCost, TradeB!St!Home, TradeB!St!UnitCost, TradeB!St!Goto,
         TradeB!St!ExpectedCash, TradeB!St!Averaged, TradeB!St!RoundDiv, TradeB!St!Fine,
         TradeB!St!Free, TradeB!St!Tagged
<1> QED BY <1>1, <1>2

(* A batch has products, made of parts; money is counted in whole units. *)
ShopGiven == /\ Output \in Nat \ {0} /\ PartsPer \in Nat \ {0}
             /\ Overhead \in Nat /\ Price \in Nat /\ Float \in Nat

(* The quantities, places and people of the runs are as the proofs       *)
(* assume.                                                               *)
LEMMA ShopFits ==
  ASSUME ShopGiven
  PROVE  TradeA!LotsOK /\ TradeA!OneStaff /\ TradeB!LotsOK /\ TradeB!CountedAlone
<1>1. \A S : IsFiniteSet(S) => TradeA!IsFiniteSet(S) /\ TradeB!IsFiniteSet(S)
  BY DEF IsFiniteSet, TradeA!IsFiniteSet, TradeB!IsFiniteSet
<1>2. TradeA!IsFiniteSet({s1}) /\ TradeB!IsFiniteSet({s1, s2})
  BY <1>1, Few
<1> QED BY <1>2 DEF ShopGiven, TradeA!LotsOK, TradeB!LotsOK, TradeA!OneStaff, TradeB!CountedAlone

(* One request at a time keeps the books of the stock as well; two that    *)
(* overlap keep the shelves and the till.                                  *)
ShopInv == /\ focus = "counter" => TradeA!SoloInv
           /\ focus = "floor" => TradeB!StockInv

(* The composition starts with a stock as in the proofs, *)
LEMMA ShopStart == ASSUME ShopGiven, Init PROVE ShopInv
<1>1. /\ focus = "counter" => Counter!Init
      /\ focus = "floor" => Floor!Init
  BY DEF Init
<1> QED BY <1>1, ShopFits, CounterSame, FloorSame, TradeA!SoloStart, TradeB!StockStart DEF
           ShopInv

(* and its steps keep the invariant of the stock. *)
LEMMA ShopStep == ASSUME ShopGiven, ShopInv, [Next]_vars PROVE ShopInv'
<1>1. ASSUME focus' = "counter" PROVE TradeA!SoloInv'
  <2>1. focus = "counter" /\ (Counter!Next \/ UNCHANGED stocking)
    BY <1>1 DEF Next, OthersStay, vars
  <2>2. UNCHANGED stocking => UNCHANGED TradeA!St!vars
    BY DEF stocking, TradeA!St!vars
  <2> QED BY <2>1, <2>2, ShopFits, CounterSame, TradeA!SoloStep DEF ShopInv
<1>2. ASSUME focus' = "floor" PROVE TradeB!StockInv'
  <2>1. focus = "floor" /\ (Floor!Next \/ UNCHANGED stocking)
    BY <1>2 DEF Next, OthersStay, vars
  <2>2. UNCHANGED stocking => UNCHANGED TradeB!St!vars
    BY DEF stocking, TradeB!St!vars
  <2> QED BY <2>1, <2>2, ShopFits, FloorSame, TradeB!StockStep DEF ShopInv
<1> QED BY <1>1, <1>2 DEF ShopInv

(* Stock and till are accounted for in the composition, for every size of  *)
(* batch, parts list, overhead, price and float.                           *)
THEOREM StockIsAccounted == ShopGiven => (Spec => []StockAccounted)
<1> SUFFICES ASSUME ShopGiven PROVE Spec => []StockAccounted
  OBVIOUS
<1>1. Init => ShopInv
  BY ShopStart
<1>2. ShopInv /\ [Next]_vars => ShopInv'
  BY ShopStep
<1>3. ShopInv => StockAccounted
  <2>1. TradeA!SoloInv =>
         /\ Counter!ShelvesAddUp
         /\ Counter!TakingsDeposited
         /\ Counter!StockCovered
         /\ Counter!WipNetsToZero
    <3>1. TradeA!SoloInv => /\ TradeA!St!ShelvesAddUp
                            /\ TradeA!St!TakingsDeposited
                            /\ TradeA!St!StockCovered
                            /\ TradeA!St!WipNetsToZero
      BY ShopFits, TradeA!StockHolds DEF TradeA!SoloInv
    <3>2. TradeA!St!ShelvesAddUp => Counter!ShelvesAddUp
      BY DEF Counter!ShelvesAddUp, Counter!Items, Counter!MapThenSumSet, Counter!Sites,
         Counter!MapThenFoldSet, TradeA!St!ShelvesAddUp, TradeA!St!Items,
         TradeA!St!MapThenSumSet, TradeA!St!Sites, TradeA!St!MapThenFoldSet
    <3>3. TradeA!St!TakingsDeposited => Counter!TakingsDeposited
      BY DEF Counter!TakingsDeposited, Counter!Tenders, Counter!Tagged, Counter!MapThenSumSet,
         Counter!MapThenFoldSet, TradeA!St!TakingsDeposited, TradeA!St!Tenders,
         TradeA!St!Tagged, TradeA!St!MapThenSumSet, TradeA!St!MapThenFoldSet
    <3>4. TradeA!St!StockCovered => Counter!StockCovered
      BY DEF Counter!StockCovered, Counter!Items, TradeA!St!StockCovered, TradeA!St!Items
    <3>5. TradeA!St!WipNetsToZero => Counter!WipNetsToZero
      BY DEF Counter!WipNetsToZero, TradeA!St!WipNetsToZero
    <3> QED BY <3>1, <3>2, <3>3, <3>4, <3>5
  <2>2. TradeB!StockInv =>
         /\ Counter!ShelvesAddUp
         /\ Counter!TakingsDeposited
    <3>1. TradeB!StockInv => /\ TradeB!St!ShelvesAddUp
                             /\ TradeB!St!TakingsDeposited
      BY ShopFits, TradeB!StockHolds
    <3>2. TradeB!St!ShelvesAddUp => Counter!ShelvesAddUp
      BY DEF Counter!ShelvesAddUp, Counter!Items, Counter!MapThenSumSet, Counter!Sites,
         Counter!MapThenFoldSet, TradeB!St!ShelvesAddUp, TradeB!St!Items,
         TradeB!St!MapThenSumSet, TradeB!St!Sites, TradeB!St!MapThenFoldSet
    <3>3. TradeB!St!TakingsDeposited => Counter!TakingsDeposited
      BY DEF Counter!TakingsDeposited, Counter!Tenders, Counter!Tagged, Counter!MapThenSumSet,
         Counter!MapThenFoldSet, TradeB!St!TakingsDeposited, TradeB!St!Tenders,
         TradeB!St!Tagged, TradeB!St!MapThenSumSet, TradeB!St!MapThenFoldSet
    <3> QED BY <3>1, <3>2, <3>3
  <2> QED BY <2>1, <2>2 DEF StockAccounted, ShopInv
<1> QED BY <1>1, <1>2, <1>3, PTL DEF Spec

-----------------------------------------------------------------------------
(* What was decided stands, whatever is in focus. *)
LEMMA RequisitionStands ==
  ASSUME OrdersGiven, PurchasesInv, [Next]_vars
  PROVE  UNCHANGED Overlap!vars \/
         (/\ requisition.status \in {"rejected", "converted"} => requisition' = requisition
          /\ requisition.status = "approved" => requisition'.status \in {"approved", "converted"})
<1>1. UNCHANGED purchasing =>
        UNCHANGED Overlap!vars /\ UNCHANGED TradeA!Pu!vars /\ UNCHANGED TradeB!Pu!vars
  BY DEF purchasing, Overlap!vars, TradeA!Pu!vars, TradeB!Pu!vars
<1>2. CASE focus = "buying"
  <2>1. Buying!Next \/ UNCHANGED purchasing
    BY <1>2 DEF Next, OthersStay, vars
  <2>2. TradeA!PurchaseInv
    BY <1>2 DEF PurchasesInv, TradeA!ClerkInv
  <2> QED BY <1>1, <2>1, <2>2, BuyingSame, TradeA!StepDecides
<1>3. CASE focus = "overlap"
  <2>1. Overlap!Next \/ UNCHANGED purchasing
    BY <1>3 DEF Next, OthersStay, vars
  <2> QED BY <1>1, <1>3, <2>1, OverlapSame, TradeB!StepDecides DEF PurchasesInv
<1>4. CASE focus \notin {"buying", "overlap"}
  BY <1>1, <1>4 DEF Next, OthersStay, PurchasingStays, vars
<1> QED BY <1>2, <1>3, <1>4

(* A closed shift stays as it was counted, whatever is in focus. *)
LEMMA ShiftStands ==
  ASSUME [Next]_vars
  PROVE  UNCHANGED Floor!vars \/ (session.status = "closed" => session' = session)
<1>1. UNCHANGED stocking =>
        UNCHANGED Floor!vars /\ UNCHANGED TradeA!St!vars /\ UNCHANGED TradeB!St!vars
  BY DEF stocking, Floor!vars, TradeA!St!vars, TradeB!St!vars
<1>2. CASE focus = "counter"
  <2>1. Counter!Next \/ UNCHANGED stocking
    BY <1>2 DEF Next, OthersStay, vars
  <2> QED BY <1>1, <2>1, CounterSame, TradeA!StepKeepsShift
<1>3. CASE focus = "floor"
  <2>1. Floor!Next \/ UNCHANGED stocking
    BY <1>3 DEF Next, OthersStay, vars
  <2> QED BY <1>1, <2>1, FloorSame, TradeB!StepKeepsShift
<1>4. CASE focus \notin {"counter", "floor"}
  BY <1>1, <1>4 DEF Next, OthersStay, StockStays, vars
<1> QED BY <1>2, <1>3, <1>4

(* Providers are edited in one of the instances only; the proofs about the *)
(* services are taken for its parameters.                                  *)
Mail == INSTANCE PlatformProofs
    WITH Prices <- [free |-> 0, starter |-> 25], PeriodDays <- 1, Reusable <- TRUE,
         LastBilled <- 3, MaxClaims <- 1, MaxFaults <- 1, Persons <- {"p"},
         Tenants <- {"t", "u", "w"}, Operators <- {}, Visits <- {"v"}, SignupRateMax <- 2,
         Mishaps <- TRUE, MaxWindows <- 2, People <- {"o", "a"}, Custom <- {}, Grants <- {},
         Assigned <- {"Viewer", "Editor"}, Requests <- {"q"}, Scope <- {}, AccessTtl <- 1,
         RefreshTtl <- 2, InviteTtl <- 2, ResetTtl <- 1, LastHour <- 2, MaxTokens <- 3,
         Emitted <- {"InvoicePaid"}, External <- {"email"}, Editors <- {"e1"},
         Edits <- {[enabled |-> TRUE, settings |-> TRUE, secret |-> "s"],
                   [enabled |-> FALSE, settings |-> TRUE, secret |-> ""]},
         Deployed <- {"email"}, BatchSize <- 10, MAX_RETRIES <- 3, Bills <- {},
         InvoiceTotal <- 0, DueDay <- 1, Offsets <- {}, RuleChannels <- <<"email">>,
         Payers <- {}, LastDay <- 1, MaxLetters <- 1, MaxOutages <- 1

(* The edits of the instance are as the proofs assume, *)
LEMMA EditsFit == Mail!MailOK
<1>1. "InvoicePaid" \in Mail!N!Configurable /\ "email" \in Mail!Channels
  BY DEF Mail!N!Configurable, Mail!N!Defaults, Mail!Channels
<1>2. \A S : "email" \in S => <<"email">> \in Seq(S)
  OBVIOUS
<1>3. \A e \in {[enabled |-> TRUE, settings |-> TRUE, secret |-> "s"],
              [enabled |-> FALSE, settings |-> TRUE, secret |-> ""]} : "secret" \in DOMAIN e
  <2>1. "secret" \in DOMAIN [enabled |-> TRUE, settings |-> TRUE, secret |-> "s"]
    OBVIOUS
  <2>2. "secret" \in DOMAIN [enabled |-> FALSE, settings |-> TRUE, secret |-> ""]
    OBVIOUS
  <2> QED BY <2>1, <2>2, Zenon
<1> QED BY <1>1, <1>2, <1>3 DEF Mail!MailOK

(* and it takes the steps of the proofs. *)
LEMMA ConfiguringSame ==
  /\ Configuring!Init <=> Mail!N!Init
  /\ Configuring!Next <=> Mail!N!Next
<1>1. Configuring!Init <=> Mail!N!Init
  BY DEF Configuring!Init, Configuring!Waiting, Configuring!NoEdit, Configuring!NoPayment,
         Mail!N!Init, Mail!N!Waiting, Mail!N!NoEdit, Mail!N!NoPayment
<1>2. Configuring!Next <=> Mail!N!Next
  BY DEF Configuring!Next, Configuring!Emit, Configuring!UpsertPreference,
         Configuring!SaveSecret, Configuring!StartEdit, Configuring!UpsertProvider,
         Configuring!ReadStream, Configuring!InsertRow, Configuring!SkipPair,
         Configuring!Deliver, Configuring!UpdateRow, Configuring!Ack, Configuring!Halt,
         Configuring!MarkRead, Configuring!MarkAllRead, Configuring!StartTick,
         Configuring!Remind, Configuring!MarkOverdue, Configuring!NextDay, Configuring!Pay,
         Configuring!FetchBalance, Configuring!CancelReminders, Configuring!ReadBalance,
         Configuring!EffectiveChannels, Configuring!Send, Configuring!providers,
         Configuring!billVars, Configuring!Configurable, Configuring!mailVars,
         Configuring!Write, Configuring!Overtaken, Configuring!StoredSecret,
         Configuring!NoEdit, Configuring!Waiting, Configuring!MorePairs, Configuring!Letter,
         Configuring!StoredEvent, Configuring!Channel, Configuring!Fault,
         Configuring!Attempted, Configuring!AfterAttempt, Configuring!Route,
         Configuring!Unpaid, Configuring!BecomesOverdue, Configuring!NoPayment,
         Configuring!PaidStatus, Configuring!Cancelled, Configuring!Defaults,
         Configuring!TenantUsable, Configuring!Resolve, Mail!N!Next,
         Mail!N!Emit, Mail!N!UpsertPreference, Mail!N!SaveSecret, Mail!N!StartEdit,
         Mail!N!UpsertProvider, Mail!N!ReadStream, Mail!N!InsertRow, Mail!N!SkipPair,
         Mail!N!Deliver, Mail!N!UpdateRow, Mail!N!Ack, Mail!N!Halt, Mail!N!MarkRead,
         Mail!N!MarkAllRead, Mail!N!StartTick, Mail!N!Remind, Mail!N!MarkOverdue,
         Mail!N!NextDay, Mail!N!Pay, Mail!N!FetchBalance, Mail!N!CancelReminders,
         Mail!N!ReadBalance, Mail!N!EffectiveChannels, Mail!N!Send, Mail!N!providers,
         Mail!N!billVars, Mail!N!Configurable, Mail!N!mailVars, Mail!N!Write,
         Mail!N!Overtaken, Mail!N!StoredSecret, Mail!N!NoEdit, Mail!N!Waiting,
         Mail!N!MorePairs, Mail!N!Letter, Mail!N!StoredEvent, Mail!N!Channel, Mail!N!Fault,
         Mail!N!Attempted, Mail!N!AfterAttempt, Mail!N!Route, Mail!N!Unpaid,
         Mail!N!BecomesOverdue, Mail!N!NoPayment, Mail!N!PaidStatus, Mail!N!Cancelled,
         Mail!N!Defaults, Mail!N!TenantUsable, Mail!N!Resolve
<1> QED BY <1>1, <1>2

(* Sending a message changes no provider, *)
LEMMA SendingSecret == ASSUME [Sending!Next]_Sending!vars PROVE carriers' = carriers
  BY DEF Sending!Next, Sending!Emit, Sending!UpsertPreference, Sending!ReadStream,
         Sending!InsertRow, Sending!SkipPair, Sending!Deliver, Sending!UpdateRow, Sending!Ack,
         Sending!Halt, Sending!MarkRead, Sending!MarkAllRead, Sending!StartTick,
         Sending!Remind, Sending!MarkOverdue, Sending!NextDay, Sending!FetchBalance,
         Sending!CancelReminders, Sending!Pay, Sending!ReadBalance, Sending!providers,
         Sending!vars

(* and neither does a reminder. *)
LEMMA RemindingSecret == ASSUME [Reminding!Next]_Reminding!vars PROVE carriers' = carriers
  BY DEF Reminding!Next, Reminding!Emit, Reminding!UpsertPreference, Reminding!ReadStream,
         Reminding!InsertRow, Reminding!SkipPair, Reminding!Deliver, Reminding!UpdateRow,
         Reminding!Ack, Reminding!Halt, Reminding!MarkRead, Reminding!MarkAllRead,
         Reminding!StartTick, Reminding!Remind, Reminding!MarkOverdue, Reminding!NextDay,
         Reminding!FetchBalance, Reminding!CancelReminders, Reminding!Pay,
         Reminding!ReadBalance, Reminding!providers, Reminding!vars

(* What the saves under way carry, while providers are configured *)
EditsInv == focus = "configuring" => Mail!EditInv

(* There is none at first, *)
LEMMA EditsStart == ASSUME Init PROVE EditsInv
<1>1. focus = "configuring" => Configuring!Init
  BY DEF Init
<1> QED BY <1>1, ConfiguringSame, Mail!EditStart DEF EditsInv

(* and a stored secret is lost only to a save that was overtaken, whatever *)
(* is in focus.                                                            *)
LEMMA SecretStands ==
  ASSUME EditsInv, [Next]_vars
  PROVE  /\ EditsInv'
         /\ UNCHANGED Configuring!vars \/
            \A c \in DOMAIN carriers :
               carriers[c].secret # "" /\ carriers'[c].secret = "" =>
                   \E k \in {"e1"} : /\ editing[k].channel = c /\ editing[k].stale
                                     /\ editing'[k] # editing[k]
<1>1. UNCHANGED notify => /\ UNCHANGED Sending!vars /\ UNCHANGED Configuring!vars
                          /\ UNCHANGED Reminding!vars /\ UNCHANGED Mail!N!vars
  BY DEF notify, Sending!vars, Configuring!vars, Reminding!vars, Mail!N!vars
<1>2. CASE focus = "sending"
  <2>1. Sending!Next \/ UNCHANGED notify
    BY <1>2 DEF Next, OthersStay, vars
  <2>2. focus' = "sending"
    BY <1>2 DEF Next, OthersStay, vars
  <2> QED BY <1>1, <2>1, <2>2, SendingSecret DEF EditsInv
<1>3. CASE focus = "configuring"
  <2>1. Configuring!Next \/ UNCHANGED notify
    BY <1>3 DEF Next, OthersStay, vars
  <2>2. [Mail!N!Next]_Mail!N!vars
    BY <1>1, <2>1, ConfiguringSame
  <2> QED BY <1>1, <1>3, <2>2, EditsFit, Mail!SecretStep DEF EditsInv
<1>4. CASE focus = "reminding"
  <2>1. Reminding!Next \/ UNCHANGED notify
    BY <1>4 DEF Next, OthersStay, vars
  <2>2. focus' = "reminding"
    BY <1>4 DEF Next, OthersStay, vars
  <2> QED BY <1>1, <2>1, <2>2, RemindingSecret DEF EditsInv
<1>5. CASE focus \notin {"sending", "configuring", "reminding"}
  <2>1. UNCHANGED notify /\ focus' # "configuring"
    BY <1>5 DEF Next, OthersStay, NotifyStays, vars
  <2> QED BY <1>1, <2>1 DEF EditsInv
<1> QED BY <1>2, <1>3, <1>4, <1>5

(* A linked account stays linked, whatever is in focus. *)
LEMMA LinkStands ==
  ASSUME PortalsInv, [Next]_vars
  PROVE  UNCHANGED Portal!vars \/
         \A u \in {"v", "e", "c"} : accounts[u].master # 0 => accounts'[u].master # 0
<1>1. UNCHANGED portal => UNCHANGED Portal!vars
  BY DEF portal, Portal!vars
<1>2. CASE focus \in {"supplying", "staffing", "hosting"}
  <2>1. Portal!Supplying \/ Portal!Staffing \/ Portal!Hosting \/ UNCHANGED portal
    BY <1>2 DEF Next, OthersStay, vars
  <2> QED BY <1>1, <1>2, <2>1, PortalAttended, FrontA!StepKeepsLink DEF PortalsInv
<1>3. CASE focus = "calling"
  <2>1. Visitors!Supplying \/ UNCHANGED portal
    BY <1>3 DEF Next, OthersStay, vars
  <2> QED BY <1>1, <1>3, <2>1, PortalAttended, FrontB!StepKeepsLink DEF PortalsInv
<1>4. CASE focus \in {"logging", "shopping"}
  <2>1. Guest!Staffing \/ Guest!Hosting \/ UNCHANGED portal
    BY <1>4 DEF Next, OthersStay, vars
  <2> QED BY <1>1, <1>4, <2>1, PortalAttended, FrontC!StepKeepsLink DEF PortalsInv
<1>5. CASE focus \notin {"supplying", "staffing", "hosting", "calling", "logging", "shopping"}
  BY <1>1, <1>5 DEF Next, OthersStay, PortalStays, vars
<1> QED BY <1>2, <1>3, <1>4, <1>5

(* No step of the composition takes back what was decided, and a stored    *)
(* provider secret is lost only to a save that another one overtook.       *)
THEOREM DecisionsHold == OrdersGiven => (Spec => DecisionsStand)
<1> SUFFICES ASSUME OrdersGiven PROVE Spec => DecisionsStand
  OBVIOUS
<1> DEFINE Inv == PurchasesInv /\ PortalsInv /\ EditsInv
<1>1. Init => Inv
  BY PurchasesStart, PortalsStart, EditsStart
<1>2. Inv /\ [Next]_vars => Inv'
  BY PurchasesStep, PortalsStep, SecretStands
<1>3. Inv /\ [Next]_vars =>
        [/\ requisition.status \in {"rejected", "converted"} => requisition' = requisition
         /\ requisition.status = "approved" => requisition'.status \in {"approved", "converted"}]_(Overlap!vars)
  BY RequisitionStands
<1>4. [Next]_vars => [session.status = "closed" => session' = session]_(Floor!vars)
  BY ShiftStands
<1>5. Inv /\ [Next]_vars =>
        [\A c \in DOMAIN carriers :
            carriers[c].secret # "" /\ carriers'[c].secret = "" =>
                \E k \in {"e1"} : /\ editing[k].channel = c /\ editing[k].stale
                                  /\ editing'[k] # editing[k]]_(Configuring!vars)
  BY SecretStands
<1>6. Inv /\ [Next]_vars =>
        [\A u \in {"v", "e", "c"} : accounts[u].master # 0 => accounts'[u].master # 0]_(Portal!vars)
  BY LinkStands
<1> QED BY <1>1, <1>2, <1>3, <1>4, <1>5, <1>6, PTL DEF Spec, DecisionsStand,
           Overlap!RequisitionDecided, Floor!ShiftFinal, Configuring!SecretKept, Portal!LinkKept

=============================================================================
