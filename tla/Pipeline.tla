------------------------------ MODULE Pipeline ------------------------------
(***************************************************************************)
(* Work before and beside the ledger: quotes and their conversion into     *)
(* invoices, the CRM pipeline from lead to closed opportunity, and the     *)
(* projects whose actuals come from tagged journal lines.                  *)
(*                                                                         *)
(* Each request reads rows and writes in later statements: the record in   *)
(* quoter or seller is what it has read so far.                            *)
(***************************************************************************)
EXTENDS Integers, FiniteSets, Sequences, FiniteSetsExt

CONSTANTS
    Quotes, Contents,   \* estimates; what a header or a set of lines may say
    Clerks,             \* requests about estimates in progress at once
    MaxDrawn,           \* bound: invoices created from estimates
    Leads, Sellers,     \* crm_leads; CRM requests in progress at once
    OpenAt, Aims,       \* stages opportunities are created in and moved to
    MaxDeals, MaxPipes, MaxPassages,  \* bounds: opportunities, pipelines, events
    MaxDrops,           \* bound: processes that stop in the middle of a request
    Projects, Accounts, Kind,   \* projects; accounts and their account_type
    Budgets, MaxTagged  \* budget lines offered; bound: journal lines

VARIABLES
    quotes,     \* estimates: [status, party, lines, to]
    drawn,      \* invoices created from estimates: [party, lines, source, alive, of]
    quoter,     \* requests about estimates
    cut,        \* history: conversions of a quote cut off after the invoice was created
    switch,     \* crm_settings.enabled
    pipes,      \* number of pipelines, the first of which is the default
    prospects,  \* crm_leads: [status, to]
    deals,      \* crm_opportunities: [pipe, stage, status, closed, amount, lead, first]
    passages,   \* crm_opportunity_events of each opportunity: <<from, to>>
    seller,     \* CRM requests
    drops,      \* requests that stopped
    jobs,       \* projects: [amount, lines]
    tagged      \* journal lines: [project, account, net, status, undoes]

vars == <<quotes, drawn, quoter, cut, switch, pipes, prospects, deals, passages, seller, drops,
          jobs, tagged>>
quoting == <<quotes, drawn, quoter, cut>>
selling == <<switch, pipes, prospects, deals, passages, seller>>
costing == <<jobs, tagged>>

NoQuote == [status |-> "none", party |-> 0, lines |-> 0, to |-> 0]
Ready == [op |-> "idle"]

-----------------------------------------------------------------------------
(* Estimates *)

Ask(c, task) == quoter[c] = Ready /\ quoter' = [quoter EXCEPT ![c] = task]
Done(c) == quoter' = [quoter EXCEPT ![c] = Ready]
Stored(q) == quotes[q].status \notin {"none", "gone"}

(* create_estimate: header and lines in one transaction *)
CreateEstimate(q, v) ==
    /\ quotes[q].status = "none"
    /\ quotes' = [quotes EXCEPT ![q] = [status |-> "draft", party |-> v, lines |-> v, to |-> 0]]
    /\ UNCHANGED <<drawn, quoter, cut>>

(* send, accept and decline: the status they may leave *)
AllowedFrom(to) ==
    IF to = "declined" THEN {"draft", "sent", "accepted"} ELSE {"draft", "sent"}

(* transition_estimate reads the status and writes the next one *)
StartTransition(c, q, to) ==
    /\ quotes[q].status \in AllowedFrom(to)
    /\ Ask(c, [op |-> "move", quote |-> q, to |-> to])
    /\ UNCHANGED <<quotes, drawn, cut>>

FinishTransition(c) ==
    /\ quoter[c].op = "move"
    /\ LET q == quoter[c].quote
       IN  quotes' = IF Stored(q) THEN [quotes EXCEPT ![q].status = quoter[c].to] ELSE quotes
    /\ Done(c) /\ UNCHANGED <<drawn, cut>>

(* update_estimate_draft checks that it is a draft and replaces header and *)
(* lines; once the quote is gone the lines violate their foreign key       *)
StartEdit(c, q, v) ==
    /\ quotes[q].status = "draft"
    /\ Ask(c, [op |-> "edit", quote |-> q, content |-> v])
    /\ UNCHANGED <<quotes, drawn, cut>>

FinishEdit(c) ==
    /\ quoter[c].op = "edit"
    /\ LET q == quoter[c].quote  v == quoter[c].content
       IN  quotes' = IF Stored(q) THEN [quotes EXCEPT ![q].party = v, ![q].lines = v] ELSE quotes
    /\ Done(c) /\ UNCHANGED <<drawn, cut>>

(* delete_estimate_draft *)
StartDelete(c, q) ==
    /\ quotes[q].status = "draft"
    /\ Ask(c, [op |-> "delete", quote |-> q])
    /\ UNCHANGED <<quotes, drawn, cut>>

FinishDelete(c) ==
    /\ quoter[c].op = "delete"
    /\ quotes' = [quotes EXCEPT ![quoter[c].quote] = [NoQuote EXCEPT !.status = "gone"]]
    /\ Done(c) /\ UNCHANGED <<drawn, cut>>

(* convert_estimate_to_invoice reads the header, unless converted or declined; *)
StartConvert(c, q) ==
    /\ Stored(q) /\ quotes[q].status \notin {"converted", "declined"}
    /\ Ask(c, [op |-> "lines", quote |-> q, party |-> quotes[q].party])
    /\ UNCHANGED <<quotes, drawn, cut>>

(* it reads the lines, *)
ReadLines(c) ==
    /\ quoter[c].op = "lines"
    /\ quoter' = [quoter EXCEPT ![c] = [op |-> "create", quote |-> @.quote, party |-> @.party,
                                        lines |-> quotes[@.quote].lines]]
    /\ UNCHANGED <<quotes, drawn, cut>>

(* create_invoice commits a draft, *)
DrawInvoice(c) ==
    /\ quoter[c].op = "create" /\ Len(drawn) < MaxDrawn
    /\ drawn' = Append(drawn, [party |-> quoter[c].party, lines |-> quoter[c].lines,
                               source |-> "none", alive |-> TRUE, of |-> quoter[c].quote])
    /\ quoter' = [quoter EXCEPT ![c] = [op |-> "link", quote |-> @.quote, invoice |-> Len(drawn) + 1]]
    /\ UNCHANGED <<quotes, cut>>

(* then source_estimate is set, *)
Link(c) ==
    /\ quoter[c].op = "link"
    /\ drawn' = [drawn EXCEPT ![quoter[c].invoice].source = quoter[c].quote]
    /\ quoter' = [quoter EXCEPT ![c].op = "mark"]
    /\ UNCHANGED <<quotes, cut>>

(* Mutation: the status is left to the caller. *)
MarkOnlyLinks(c) ==
    /\ quoter[c].op = "mark"
    /\ LET q == quoter[c].quote
       IN  quotes' = IF Stored(q) THEN [quotes EXCEPT ![q].to = quoter[c].invoice] ELSE quotes
    /\ Done(c) /\ UNCHANGED <<drawn, cut>>

(* and the estimate is marked, each in a commit of its own. *)
Mark(c) ==
    /\ quoter[c].op = "mark"
    /\ LET q == quoter[c].quote
       IN  quotes' = IF Stored(q)
                     THEN [quotes EXCEPT ![q].status = "converted", ![q].to = quoter[c].invoice]
                     ELSE quotes
    /\ Done(c) /\ UNCHANGED <<drawn, cut>>

(* delete_invoice_draft of an invoice drawn from a quote: see Receivables *)
DropInvoice(i) ==
    /\ drawn[i].alive
    /\ drawn' = [drawn EXCEPT ![i].alive = FALSE]
    /\ UNCHANGED <<quotes, quoter, cut>>

(* The process stops: what was committed stays *)
StopQuoter(c) ==
    /\ quoter[c] # Ready /\ drops < MaxDrops
    /\ drops' = drops + 1
    /\ cut' = IF quoter[c].op \in {"link", "mark"}
              THEN [cut EXCEPT ![quoter[c].quote] = @ + 1] ELSE cut
    /\ Done(c) /\ UNCHANGED <<quotes, drawn>>

ClerkStep(c) ==
    \/ FinishTransition(c) \/ FinishEdit(c) \/ FinishDelete(c)
    \/ ReadLines(c) \/ DrawInvoice(c) \/ Link(c) \/ Mark(c)
    \/ \E q \in Quotes :
         \/ \E to \in {"sent", "accepted", "declined"} : StartTransition(c, q, to)
         \/ \E v \in Contents : StartEdit(c, q, v)
         \/ StartDelete(c, q) \/ StartConvert(c, q)

Quoting ==
    /\ \/ /\ UNCHANGED drops
          /\ \/ \E c \in Clerks : ClerkStep(c)
             \/ \E q \in Quotes, v \in Contents : CreateEstimate(q, v)
             \/ \E i \in DOMAIN drawn : DropInvoice(i)
       \/ \E c \in Clerks : StopQuoter(c)
    /\ UNCHANGED <<selling, costing>>

-----------------------------------------------------------------------------
(* CRM.  The open stages of the default pipeline are cut down to two. *)

Stages == <<"open", "open", "won", "lost">>
Entry == 1
StageStatus(s) == CASE Stages[s] = "won" -> "Won" [] Stages[s] = "lost" -> "Lost" [] OTHER -> "Open"

Call(s, task) == seller[s] = Ready /\ seller' = [seller EXCEPT ![s] = task]
HangUp(s) == seller' = [seller EXCEPT ![s] = Ready]

(* ensure_default_pipeline looks for one, and seeds it if there is none *)
DefaultPipe(task) ==
    [op |-> IF pipes = 0 THEN "seed" ELSE task.op, pipe |-> IF pipes = 0 THEN 0 ELSE 1, task |-> task]

(* set_enabled stores the flag that gates every CRM route, and ensures the *)
(* pipeline when it is set                                                 *)
Enable(s) ==
    /\ Call(s, DefaultPipe([op |-> "enabled"]))
    /\ switch' = TRUE /\ UNCHANGED <<pipes, prospects, deals, passages>>

Disable ==
    /\ switch' = FALSE
    /\ UNCHANGED <<pipes, prospects, deals, passages, seller>>

(* convert_lead and create_opportunity find the pipeline first *)
ConvertLead(s, l) ==
    /\ switch
    /\ Call(s, DefaultPipe([op |-> "open", lead |-> l, stage |-> Entry, amount |-> 1]))
    /\ UNCHANGED <<switch, pipes, prospects, deals, passages>>

CreateOpportunity(s, stage) ==
    /\ switch
    /\ Call(s, DefaultPipe([op |-> "open", lead |-> "none", stage |-> stage, amount |-> 2]))
    /\ UNCHANGED <<switch, pipes, prospects, deals, passages>>

Seed(s) ==
    /\ seller[s].op = "seed" /\ pipes < MaxPipes
    /\ pipes' = pipes + 1
    /\ seller' = [seller EXCEPT ![s] = [op |-> @.task.op, pipe |-> pipes + 1, task |-> @.task]]
    /\ UNCHANGED <<switch, prospects, deals, passages>>

Enabled(s) ==
    /\ seller[s].op = "enabled"
    /\ HangUp(s) /\ UNCHANGED <<switch, pipes, prospects, deals, passages>>

(* The opportunity is inserted with the status Open, whatever its stage *)
OpenDeal(s) ==
    /\ seller[s].op = "open" /\ Len(deals) < MaxDeals
    /\ LET t == seller[s].task
       IN  /\ deals' = Append(deals, [pipe |-> seller[s].pipe, stage |-> t.stage, status |-> "Open",
                                      closed |-> FALSE, amount |-> t.amount, lead |-> t.lead,
                                      first |-> t.stage])
           /\ seller' = [seller EXCEPT ![s] =
                            IF t.lead = "none" THEN Ready
                            ELSE [op |-> "lead", lead |-> t.lead, deal |-> Len(deals) + 1]]
    /\ passages' = Append(passages, <<>>)
    /\ UNCHANGED <<switch, pipes, prospects>>

(* convert_lead then marks the lead, in another commit *)
MarkLead(s) ==
    /\ seller[s].op = "lead"
    /\ prospects' = [prospects EXCEPT ![seller[s].lead] =
                        [status |-> "Converted", to |-> seller[s].deal]]
    /\ HangUp(s) /\ UNCHANGED <<switch, pipes, deals, passages>>

(* update_lead sets any status *)
UpdateLead(l) ==
    /\ switch /\ prospects[l].status = "Converted"
    /\ prospects' = [prospects EXCEPT ![l].status = "New"]
    /\ UNCHANGED <<switch, pipes, deals, passages, seller>>

(* move_opportunity and close_opportunity read the stage, *)
StartMove(s, d, stage) ==
    /\ switch /\ Len(passages[d]) < MaxPassages
    /\ Call(s, [op |-> "move", deal |-> d, from |-> deals[d].stage, to |-> stage])
    /\ UNCHANGED <<switch, pipes, prospects, deals, passages>>

StartClose(s, d, won) ==
    /\ switch /\ Len(passages[d]) < MaxPassages
    /\ Call(s, [op |-> "close", deal |-> d, from |-> deals[d].stage, to |-> IF won THEN 3 ELSE 4])
    /\ UNCHANGED <<switch, pipes, prospects, deals, passages>>

(* the stage decides the status and closed_at, *)
Moved(d, to) ==
    [deals[d] EXCEPT !.stage = to, !.status = StageStatus(to), !.closed = StageStatus(to) # "Open"]

(* and the event is written with it. *)
Move(s) ==
    /\ seller[s].op = "move"
    /\ LET d == seller[s].deal
       IN  /\ deals' = [deals EXCEPT ![d] = Moved(d, seller[s].to)]
           /\ passages' = [passages EXCEPT ![d] = Append(@, <<seller[s].from, seller[s].to>>)]
    /\ HangUp(s) /\ UNCHANGED <<switch, pipes, prospects>>

Close(s) ==
    /\ seller[s].op = "close"
    /\ LET d == seller[s].deal  to == seller[s].to
       IN  /\ deals' = [deals EXCEPT ![d].stage = to, ![d].status = StageStatus(to), ![d].closed = TRUE]
           /\ passages' = [passages EXCEPT ![d] = Append(@, <<seller[s].from, to>>)]
    /\ HangUp(s) /\ UNCHANGED <<switch, pipes, prospects>>

StopSeller(s) ==
    /\ seller[s] # Ready /\ drops < MaxDrops
    /\ drops' = drops + 1
    /\ HangUp(s) /\ UNCHANGED <<switch, pipes, prospects, deals, passages>>

SellerStep(s) ==
    \/ Enable(s) \/ Enabled(s) \/ Seed(s) \/ OpenDeal(s) \/ MarkLead(s) \/ Move(s) \/ Close(s)
    \/ \E l \in Leads : ConvertLead(s, l)
    \/ \E stage \in OpenAt : CreateOpportunity(s, stage)
    \/ \E d \in DOMAIN deals : \/ \E stage \in Aims : StartMove(s, d, stage)
                               \/ \E won \in BOOLEAN : StartClose(s, d, won)

Selling ==
    /\ \/ UNCHANGED drops /\ (\/ \E s \in Sellers : SellerStep(s)
                              \/ Disable \/ \E l \in Leads : UpdateLead(l))
       \/ \E s \in Sellers : StopSeller(s)
    /\ UNCHANGED <<quoting, costing>>

(* analytics: open opportunities by open stage, and all open opportunities *)
ValueOf(ds) == FoldSet(LAMBDA d, sum : sum + deals[d].amount, 0, ds)
StageValue(stage) == ValueOf({d \in DOMAIN deals : deals[d].stage = stage /\ deals[d].status = "Open"})
OpenValue == ValueOf({d \in DOMAIN deals : deals[d].status = "Open"})

-----------------------------------------------------------------------------
(* Projects *)

NoJob == [amount |-> 0, lines |-> {}, live |-> FALSE]

(* create_project and update_project replace the budget with the header *)
SaveProject(p, amount, budget) ==
    /\ jobs' = [jobs EXCEPT ![p] = [amount |-> amount, lines |-> budget, live |-> TRUE]]
    /\ UNCHANGED tagged

(* A posting that carries the project: see Ledger *)
PostTagged(p, a, net) ==
    /\ jobs[p].live /\ Len(tagged) < MaxTagged
    /\ tagged' = Append(tagged, [project |-> p, account |-> a, net |-> net,
                                 status |-> "posted", undoes |-> 0])
    /\ UNCHANGED jobs

(* reverse_journal_entry: the lines are swapped and lose their dimensions *)
ReverseTagged(n) ==
    /\ tagged[n].status = "posted" /\ tagged[n].undoes = 0 /\ Len(tagged) < MaxTagged
    /\ tagged' = Append([tagged EXCEPT ![n].status = "reversed"],
                        [project |-> "none", account |-> tagged[n].account,
                         net |-> -tagged[n].net, status |-> "posted", undoes |-> n])
    /\ UNCHANGED jobs

Costing ==
    /\ \/ \E p \in Projects, amount \in {0, 3}, b \in Budgets : SaveProject(p, amount, b)
       \/ \E p \in Projects, a \in Accounts, net \in {-1, 2} : PostTagged(p, a, net)
       \/ \E n \in DOMAIN tagged : ReverseTagged(n)
    /\ UNCHANGED <<quoting, selling, drops>>

(* project_summary: net movement of each account over posted entries *)
NetOf(ns) == FoldSet(LAMBDA n, sum : sum + tagged[n].net, 0, ns)
Actual(p, a) ==
    NetOf({n \in DOMAIN tagged : /\ tagged[n].project = p /\ tagged[n].account = a
                                 /\ tagged[n].status = "posted"})
OfKind(p, kinds) ==
    FoldSet(LAMBDA a, sum : sum + Actual(p, a), 0, {a \in Accounts : Kind[a] \in kinds})
Revenue(p) == -OfKind(p, {"Revenue", "ContraRevenue"})
Cost(p) == OfKind(p, {"Expense", "ContraExpense"})

(* budget_total: the lines if there are any, else the amount of the header *)
BudgetTotal(p) ==
    IF jobs[p].lines = {} THEN jobs[p].amount
    ELSE FoldSet(LAMBDA l, sum : sum + l.amount, 0, jobs[p].lines)

(* budget_vs_actual: a line has the cost of its account, none if it has none *)
Variance(p, l) ==
    l.amount - (IF l.account \in Accounts /\ Kind[l.account] \in {"Expense", "ContraExpense"}
                THEN Actual(p, l.account) ELSE 0)

-----------------------------------------------------------------------------
Init ==
    /\ quotes = [q \in Quotes |-> NoQuote] /\ drawn = <<>>
    /\ quoter = [c \in Clerks |-> Ready] /\ cut = [q \in Quotes |-> 0]
    /\ switch = FALSE /\ pipes = 0 /\ prospects = [l \in Leads |-> [status |-> "New", to |-> 0]]
    /\ deals = <<>> /\ passages = <<>> /\ seller = [s \in Sellers |-> Ready] /\ drops = 0
    /\ jobs = [p \in Projects |-> NoJob] /\ tagged = <<>>

Next == Quoting \/ Selling \/ Costing

Spec == Init /\ [][Next]_vars

-----------------------------------------------------------------------------
(* Properties *)

(* A quote is billed once: a further invoice needs a conversion that was   *)
(* cut off between creating the invoice and marking the quote, so long as  *)
(* conversions do not overlap (convert_estimate_to_invoice).               *)
QuoteBilledOnce ==
    \A q \in Quotes : Cardinality({i \in DOMAIN drawn : drawn[i].of = q}) <= 1 + cut[q]

(* The invoice of a converted quote was created with what the quote still  *)
(* says: nothing edits a quote after its conversion (update_estimate_draft *)
(* and convert_estimate_to_invoice, for requests that do not overlap).     *)
ConvertedIsFrozen ==
    \A q \in Quotes : quotes[q].status = "converted" =>
        /\ drawn[quotes[q].to].party = quotes[q].party
        /\ drawn[quotes[q].to].lines = quotes[q].lines

(* The invoice a quote points to points back at it, however requests       *)
(* overlap or stop: the link is committed before the mark.                 *)
LinkedBack ==
    \A q \in Quotes : quotes[q].to # 0 => drawn[quotes[q].to].source = q

(* A converted lead names an opportunity that came from it, however        *)
(* conversions overlap or stop (convert_lead).                             *)
LeadLinked ==
    \A l \in Leads : prospects[l].to # 0 => deals[prospects[l].to].lead = l

(* closed_at is set exactly while an opportunity is won or lost, and its   *)
(* status is that of its stage once it was moved or closed                 *)
(* (move_opportunity, close_opportunity).                                  *)
ClosedIffDecided ==
    \A d \in DOMAIN deals :
        /\ deals[d].closed <=> deals[d].status # "Open"
        /\ passages[d] # <<>> => deals[d].status = StageStatus(deals[d].stage)

(* The events of an opportunity lead from its first stage to its present   *)
(* one without a gap, when requests do not overlap.                        *)
EventsChain ==
    \A d \in DOMAIN deals :
        LET path == passages[d]
        IN  /\ deals[d].stage = IF path = <<>> THEN deals[d].first ELSE path[Len(path)][2]
            /\ \A n \in DOMAIN path :
                 path[n][1] = IF n = 1 THEN deals[d].first ELSE path[n - 1][2]

(* The value by stage of the analytics adds up to the open value, except   *)
(* for opportunities created directly in a won or lost stage and not moved *)
(* since, which no stage shows (analytics, create_opportunity).            *)
StagesAddUp ==
    LET placed == {d \in DOMAIN deals : passages[d] = <<>> /\ StageStatus(deals[d].stage) # "Open"}
    IN  OpenValue = StageValue(1) + StageValue(2) + ValueOf(placed)

(* A workspace has at most one default pipeline, when requests do not      *)
(* overlap (ensure_default_pipeline).                                      *)
OnePipeline == pipes <= 1

(* A project's revenue and cost are those of its postings that were not    *)
(* reversed: the reversed entry leaves the sum and its reversal, which     *)
(* carries no dimensions, never enters it (project_summary,                *)
(* reverse_journal_entry).                                                 *)
CostIsLive ==
    \A p \in Projects :
        LET Live(kinds) ==
              NetOf({n \in DOMAIN tagged :
                        /\ tagged[n].project = p /\ tagged[n].undoes = 0
                        /\ Kind[tagged[n].account] \in kinds
                        /\ \A m \in DOMAIN tagged : tagged[m].undoes # n})
        IN  Cost(p) = Live({"Expense", "ContraExpense"})
            /\ Revenue(p) = -Live({"Revenue", "ContraRevenue"})

(* Where the budget has one line for each cost account, the variances of   *)
(* the lines add up to the budget less the cost (project_summary).         *)
VariancesAddUp ==
    \A p \in Projects :
        LET costs == {a \in Accounts : Kind[a] \in {"Expense", "ContraExpense"}}
            lines == jobs[p].lines
        IN  (/\ lines # {}
             /\ \A a \in costs : Cardinality({l \in lines : l.account = a}) = 1)
            => FoldSet(LAMBDA l, sum : sum + Variance(p, l), 0, lines) = BudgetTotal(p) - Cost(p)
=============================================================================
