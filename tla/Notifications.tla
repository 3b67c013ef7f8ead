--------------------------- MODULE Notifications ---------------------------
(***************************************************************************)
(* Messages to customers and staff: the requests put on one stream, the    *)
(* worker that reads them once and delivers each over the tenant's or the  *)
(* deployment's providers with retries, the inbox, the settings, and the   *)
(* hourly reminders of unpaid invoices with their cancellation on payment. *)
(*                                                                         *)
(* A message has one recipient, so a row of it is named by its channel.    *)
(* Payments, ticks, the worker and the inbox interleave statement by       *)
(* statement; the worker may stop at any point.  All invoices fall due on  *)
(* day DueDay.                                                             *)
(***************************************************************************)
EXTENDS Integers, FiniteSets, Sequences

CONSTANTS
    Emitted,        \* the configurable events services emit
    External,       \* channels with a provider: subset of {"email", "sms", "whatsapp"}
    Edits,          \* what a provider may be set to: [enabled, settings, secret]
    Editors,        \* saves of providers that may be under way at once
    Deployed,       \* the external channels the deployment itself is configured for
    BatchSize,      \* messages of one read of the stream
    MAX_RETRIES,
    Bills,          \* invoices
    InvoiceTotal,
    DueDay,
    Offsets,        \* of the reminder rules, in days from DueDay
    RuleChannels,   \* sequence of the channels of a reminder
    Payers,         \* concurrent payments
    LastDay,        \* bound: the last day of the calendar
    MaxLetters,     \* bound: messages sent
    MaxOutages      \* bound: failed statements, refused or unanswered deliveries and stops

VARIABLES
    letters,        \* the stream erp:notifications: [event, about, channels]
    cursor,         \* last message handed to the consumer group
    acked,          \* messages acknowledged
    courier,        \* what the worker has in hand
    notices,        \* rows of notifications, by id
    carriers,       \* notification_providers: channel -> [enabled, settings, secret]
    editing,        \* saves that read the stored secret and have not written yet
    wishes,         \* notification_settings: event -> the channels of an override
    dues,           \* invoices: [status, balance]
    payer,          \* what each payment is doing
    ticker,         \* the reminder tick
    calendar,
    skipped,        \* <<message, channel>> whose row could not be inserted
    outages

vars == <<letters, cursor, acked, courier, notices, carriers, editing, wishes, dues, payer,
          ticker, calendar, skipped, outages>>
mailVars == <<letters, cursor, acked, courier, skipped>>
providers == <<carriers, editing>>
billVars == <<dues, payer, ticker, calendar>>

Waiting == [batch |-> <<>>, at |-> 1, row |-> 0, tries |-> 0, op |-> "read"]

Fault == outages < MaxOutages /\ outages' = outages + 1

-----------------------------------------------------------------------------
(* Settings *)

(* configurable_defaults; reminders follow the customer's policy instead. *)
Defaults == [InvoicePaid |-> <<"in_app", "email">>, InvoiceSent |-> <<"email">>]
Configurable == DOMAIN Defaults

(* effective_channels: the override, or the default when there is none or  *)
(* the settings cannot be read.  A disabled event has no channels.         *)
EffectiveChannels(event) ==
    {Defaults[event]} \cup (IF event \in DOMAIN wishes THEN {wishes[event]} ELSE {})

UpsertPreference(event, channels) ==
    /\ event \in Configurable
    /\ wishes' = [e \in DOMAIN wishes \cup {event} |-> IF e = event THEN channels ELSE wishes[e]]
    /\ UNCHANGED <<mailVars, notices, providers, billVars, outages>>

NoEdit == [op |-> "idle", channel |-> "none", row |-> <<>>, stale |-> FALSE]

(* What is stored for a channel: nothing, if it has no row *)
StoredSecret(channel) == IF channel \in DOMAIN carriers THEN carriers[channel].secret ELSE ""

(* The INSERT ... ON CONFLICT writes the whole row. *)
Write(channel, row) ==
    carriers' = [c \in DOMAIN carriers \cup {channel} |->
                    IF c # channel THEN carriers[c]
                    ELSE [enabled |-> row.enabled, settings |-> row.settings, secret |-> row.secret]]

(* Saves of the channel that are under way hold what they read before. *)
Overtaken(channel) ==
    [k \in Editors |-> IF editing[k].op = "write" /\ editing[k].channel = channel
                       THEN [editing[k] EXCEPT !.stale = TRUE] ELSE editing[k]]

(* upsert with a secret: one statement *)
SaveSecret(channel, edit) ==
    /\ edit.secret # ""
    /\ Write(channel, edit)
    /\ editing' = Overtaken(channel)
    /\ UNCHANGED <<mailVars, notices, wishes, billVars, outages>>

(* upsert with a blank one: the stored secret is read, *)
StartEdit(k, channel, edit) ==
    /\ editing[k].op = "idle" /\ edit.secret = ""
    /\ editing' = [editing EXCEPT ![k] = [op |-> "write", channel |-> channel, stale |-> FALSE,
                                         row |-> [edit EXCEPT !.secret = StoredSecret(channel)]]]
    /\ UNCHANGED <<mailVars, notices, carriers, wishes, billVars, outages>>

(* and a second statement, in no transaction with the first, writes it     *)
(* back.                                                                   *)
UpsertProvider(k) ==
    /\ editing[k].op = "write"
    /\ Write(editing[k].channel, editing[k].row)
    /\ editing' = [Overtaken(editing[k].channel) EXCEPT ![k] = NoEdit]
    /\ UNCHANGED <<mailVars, notices, wishes, billVars, outages>>

(* resolve: a provider that is not enabled is none. *)
Resolve(channel) ==
    IF channel \in DOMAIN carriers /\ carriers[channel].enabled
    THEN carriers[channel] ELSE [enabled |-> FALSE, settings |-> FALSE, secret |-> ""]

(* SMS and WhatsApp need their settings and the secret, mail only the host. *)
TenantUsable(channel) ==
    LET p == Resolve(channel)
    IN  p.enabled /\ p.settings /\ (channel # "email" => p.secret # "")

Route(channel) ==
    CASE channel = "in_app" -> "inbox"
      [] channel # "in_app" /\ TenantUsable(channel) -> "tenant"
      [] channel # "in_app" /\ ~TenantUsable(channel) /\ channel \in Deployed -> "deployment"
      [] OTHER -> "none"

-----------------------------------------------------------------------------
(* Sending and the worker *)

Send(event, about, channels) ==
    /\ Len(letters) < MaxLetters
    /\ letters' = Append(letters, [event |-> event, about |-> about, channels |-> channels])

(* A service emits an event over its effective channels. *)
Emit(event) ==
    /\ \E channels \in EffectiveChannels(event) : channels # <<>> /\ Send(event, "none", channels)
    /\ UNCHANGED <<cursor, acked, courier, skipped, notices, providers, wishes, billVars, outages>>

(* XREADGROUP >: only messages never handed out before. *)
ReadStream ==
    /\ courier = Waiting /\ cursor < Len(letters)
    /\ LET n == IF Len(letters) - cursor < BatchSize THEN Len(letters) - cursor ELSE BatchSize
       IN  /\ courier' = [Waiting EXCEPT !.batch = [i \in 1..n |-> cursor + i], !.op = "row"]
           /\ cursor' = cursor + n
    /\ UNCHANGED <<letters, acked, skipped, notices, providers, wishes, billVars, outages>>

Letter == Head(courier.batch)
Channel == letters[Letter].channels[courier.at]
MorePairs == courier.at =< Len(letters[Letter].channels)

(* event_type is stored as JSON text, with its quotes. *)
StoredEvent == [InvoiceReminder |-> "\"InvoiceReminder\"", InvoicePaid |-> "\"InvoicePaid\"",
                InvoiceSent |-> "\"InvoiceSent\""]

InsertRow ==
    /\ courier.op = "row" /\ MorePairs
    /\ notices' = Append(notices,
           [letter |-> Letter, event |-> StoredEvent[letters[Letter].event],
            about |-> letters[Letter].about, channel |-> Channel, status |-> "queued",
            read |-> FALSE, tries |-> 0, copies |-> 0, unanswered |-> 0])
    /\ courier' = [courier EXCEPT !.op = "deliver", !.row = Len(notices) + 1, !.tries = 0]
    /\ UNCHANGED <<letters, cursor, acked, skipped, providers, wishes, billVars, outages>>

(* The insert fails: the pair is passed over. *)
SkipPair ==
    /\ courier.op = "row" /\ MorePairs /\ Fault
    /\ skipped' = skipped \cup {<<Letter, Channel>>}
    /\ courier' = [courier EXCEPT !.at = @ + 1]
    /\ UNCHANGED <<letters, cursor, acked, notices, providers, wishes, billVars>>

(* What came of an attempt: accepted, refused, or accepted with the answer *)
(* lost, which the code cannot tell from a refusal.                        *)
Attempted(outcome) ==
    [notices EXCEPT ![courier.row].tries = @ + 1,
                    ![courier.row].copies = IF outcome = "refused" THEN @ ELSE @ + 1,
                    ![courier.row].unanswered = IF outcome = "lost" THEN @ + 1 ELSE @]

(* The attempts end with a success or with the last of MAX_RETRIES. *)
AfterAttempt(ok, tries) ==
    IF ok THEN "sent" ELSE IF tries < MAX_RETRIES THEN "deliver" ELSE "failed"

Deliver ==
    /\ courier.op = "deliver"
    /\ LET tries == courier.tries + 1
           end(outcome) == /\ notices' = Attempted(outcome)
                           /\ courier' = [courier EXCEPT !.tries = tries,
                                             !.op = AfterAttempt(outcome = "ok", tries)]
       IN  \/ Route(Channel) # "none" /\ end("ok") /\ UNCHANGED outages
           \/ Route(Channel) = "none" /\ end("refused") /\ UNCHANGED outages
           \/ Route(Channel) \in {"tenant", "deployment"} /\ Fault
              /\ \E outcome \in {"refused", "lost"} : end(outcome)
    /\ UNCHANGED <<letters, cursor, acked, skipped, providers, wishes, billVars>>

(* The row takes the outcome whatever became of it meanwhile; a failure of *)
(* the update is only logged.                                              *)
UpdateRow ==
    /\ courier.op \in {"sent", "failed"}
    /\ \/ /\ notices' = [notices EXCEPT ![courier.row].status =
                             IF courier.op = "failed" THEN "failed"
                             ELSE IF Channel = "in_app" THEN "delivered" ELSE "sent"]
          /\ UNCHANGED outages
       \/ Fault /\ UNCHANGED notices
    /\ courier' = [courier EXCEPT !.op = "row", !.at = @ + 1]
    /\ UNCHANGED <<letters, cursor, acked, skipped, providers, wishes, billVars>>

(* Mutation: the message is acknowledged as soon as it is taken up. *)
AckFirst ==
    /\ courier.op = "row" /\ Letter \notin acked
    /\ acked' = acked \cup {Letter}
    /\ courier' = courier
    /\ UNCHANGED <<letters, cursor, skipped, notices, providers, wishes, billVars, outages>>

(* XACK once every pair is done, whatever their outcome. *)
Ack ==
    /\ courier.op = "row" /\ ~MorePairs
    /\ acked' = acked \cup {Letter}
    /\ courier' = IF Len(courier.batch) = 1 THEN Waiting
                  ELSE [courier EXCEPT !.batch = Tail(@), !.at = 1]
    /\ UNCHANGED <<letters, cursor, skipped, notices, providers, wishes, billVars, outages>>

(* The process stops; after a restart nothing claims what it had read. *)
Halt ==
    /\ courier # Waiting /\ Fault
    /\ courier' = Waiting
    /\ UNCHANGED <<letters, cursor, acked, skipped, notices, providers, wishes, billVars>>

(* The inbox *)

MarkRead(n) ==
    /\ notices' = [notices EXCEPT ![n].read = TRUE, ![n].status = "read"]
    /\ UNCHANGED <<mailVars, providers, wishes, billVars, outages>>

MarkAllRead ==
    /\ notices' = [n \in DOMAIN notices |->
                      IF notices[n].channel = "in_app" /\ ~notices[n].read
                      THEN [notices[n] EXCEPT !.read = TRUE, !.status = "read"] ELSE notices[n]]
    /\ UNCHANGED <<mailVars, providers, wishes, billVars, outages>>

-----------------------------------------------------------------------------
(* Reminders *)

Unpaid == {b \in Bills : /\ dues[b].status \in {"posted", "overdue", "partially_paid"}
                         /\ dues[b].balance > 0}

(* The invoices and the rules whose day it is, as read at the start *)
StartTick ==
    /\ ticker.op = "idle"
    /\ ticker' = [op |-> "remind", todo |-> {r \in Unpaid \X Offsets : DueDay + r[2] = calendar}]
    /\ UNCHANGED <<mailVars, notices, providers, wishes, dues, payer, calendar, outages>>

Remind ==
    /\ ticker.op = "remind"
    /\ \E t \in ticker.todo :
          /\ Send("InvoiceReminder", t[1], RuleChannels)
          /\ ticker' = [ticker EXCEPT !.todo = @ \ {t}]
    /\ UNCHANGED <<cursor, acked, courier, skipped, notices, providers, wishes, dues, payer, calendar, outages>>

BecomesOverdue(b) == dues[b].status = "posted" /\ DueDay < calendar /\ dues[b].balance > 0

MarkOverdue ==
    /\ ticker.op = "remind" /\ ticker.todo = {}
    /\ dues' = [b \in Bills |->
                   IF BecomesOverdue(b) THEN [dues[b] EXCEPT !.status = "overdue"] ELSE dues[b]]
    /\ ticker' = [ticker EXCEPT !.op = "idle"]
    /\ UNCHANGED <<mailVars, notices, providers, wishes, payer, calendar, outages>>

NextDay ==
    /\ calendar < LastDay /\ ticker.op = "idle"
    /\ calendar' = calendar + 1
    /\ UNCHANGED <<mailVars, notices, providers, wishes, dues, payer, ticker, outages>>

PaidStatus(balance) == IF balance =< 0 THEN "paid" ELSE "partially_paid"

NoPayment == [op |-> "idle", bill |-> "none", amount |-> 0, balance |-> 0, overdue |-> FALSE]

(* record_payment of one unit reads the balance, in whatever status the    *)
(* invoice is, and applies no more than that; nothing locks the row.       *)
ReadBalance(p, b) ==
    /\ payer[p].op = "idle"
    /\ payer' = [payer EXCEPT ![p] = [NoPayment EXCEPT !.op = "commit", !.bill = b,
                                         !.amount = IF dues[b].balance < 1 THEN dues[b].balance ELSE 1]]
    /\ UNCHANGED <<mailVars, notices, providers, wishes, dues, ticker, calendar, outages>>

(* The transaction takes the amount off the balance it finds and restates  *)
(* the status; nothing is done for an amount of zero.                      *)
Pay(p) ==
    /\ payer[p].op = "commit"
    /\ IF payer[p].amount = 0
       THEN payer' = [payer EXCEPT ![p] = NoPayment] /\ UNCHANGED dues
       ELSE LET left == dues[payer[p].bill].balance - payer[p].amount
            IN  /\ dues' = [dues EXCEPT ![payer[p].bill] = [status |-> PaidStatus(left), balance |-> left]]
                /\ payer' = [payer EXCEPT ![p].op = "balance"]
    /\ UNCHANGED <<mailVars, notices, providers, wishes, ticker, calendar, outages>>

(* fetch_document_balance, after the commit *)
FetchBalance(p) ==
    /\ payer[p].op = "balance"
    /\ payer' = [payer EXCEPT ![p].op = "cancel", ![p].balance = dues[payer[p].bill].balance]
    /\ UNCHANGED <<mailVars, notices, providers, wishes, dues, ticker, calendar, outages>>

Cancelled(b) ==
    [n \in DOMAIN notices |->
        IF /\ notices[n].about = b /\ notices[n].event = "InvoiceReminder"
           /\ notices[n].status = "queued"
        THEN [notices[n] EXCEPT !.status = "cancelled"] ELSE notices[n]]

(* cancel_reminders_on_payment, one statement at a time: the status is     *)
(* read; unless it is overdue nothing else is done.  What follows restates *)
(* it from the balance read before.                                        *)
CancelReminders(p) ==
    LET w == payer[p]
    IN  /\ w.op = "cancel"
        /\ payer' = [payer EXCEPT ![p] =
                        IF ~w.overdue /\ dues[w.bill].status = "overdue"
                        THEN [w EXCEPT !.overdue = TRUE] ELSE NoPayment]
        /\ notices' = IF w.overdue THEN Cancelled(w.bill) ELSE notices
        /\ dues' = IF w.overdue THEN [dues EXCEPT ![w.bill].status = PaidStatus(w.balance)] ELSE dues
        /\ UNCHANGED <<mailVars, providers, wishes, ticker, calendar, outages>>

-----------------------------------------------------------------------------
Init ==
    /\ letters = <<>> /\ cursor = 0 /\ acked = {} /\ courier = Waiting
    /\ notices = <<>>
    /\ carriers = [c \in {} |-> <<>>]
    /\ editing = [k \in Editors |-> NoEdit]
    /\ wishes = [e \in {} |-> <<>>]
    /\ dues = [b \in Bills |-> [status |-> "posted", balance |-> InvoiceTotal]]
    /\ payer = [p \in Payers |-> NoPayment]
    /\ ticker = [op |-> "idle", todo |-> {}]
    /\ calendar = DueDay /\ skipped = {} /\ outages = 0

Next ==
    \/ \E event \in Emitted : Emit(event) \/ UpsertPreference(event, <<"sms">>)
    \/ \E c \in External, e \in Edits : SaveSecret(c, e) \/ \E k \in Editors : StartEdit(k, c, e)
    \/ \E k \in Editors : UpsertProvider(k)
    \/ ReadStream \/ InsertRow \/ SkipPair \/ Deliver \/ UpdateRow \/ Ack \/ Halt
    \/ \E n \in DOMAIN notices : MarkRead(n)
    \/ MarkAllRead
    \/ StartTick \/ Remind \/ MarkOverdue \/ NextDay
    \/ \E p \in Payers : \/ Pay(p) \/ FetchBalance(p) \/ CancelReminders(p)
                        \/ \E b \in Bills : ReadBalance(p, b)

Spec == Init /\ [][Next]_vars

-----------------------------------------------------------------------------
(* Properties *)

(* What a row says happened did happen: "sent" or "delivered" means the    *)
(* recipient has the message, "failed" that MAX_RETRIES attempts failed,   *)
(* and more than one copy exists only for answers that were lost           *)
(* (process_message, deliver).                                             *)
RowsTruthful ==
    \A n \in DOMAIN notices :
        LET r == notices[n]
        IN  /\ r.status \in {"sent", "delivered"} => r.copies > 0
            /\ r.status = "failed" => r.tries = MAX_RETRIES /\ r.copies = r.unanswered
            /\ r.copies =< 1 + r.unanswered /\ r.tries =< MAX_RETRIES

(* A message is acknowledged only when, over each of its channels, it was  *)
(* delivered or given up after MAX_RETRIES attempts, unless the row could  *)
(* not be inserted; a stop before leaves it unacknowledged (run).          *)
AckedDecided ==
    \A l \in acked : \A i \in DOMAIN letters[l].channels :
        \/ <<l, letters[l].channels[i]>> \in skipped
        \/ \E n \in DOMAIN notices : /\ notices[n].letter = l
                                     /\ notices[n].channel = letters[l].channels[i]
                                     /\ notices[n].copies > 0 \/ notices[n].tries = MAX_RETRIES

(* Once a tenant has stored a secret, an edit of the settings takes it     *)
(* away only if another save of the channel came between its two           *)
(* statements (notification_providers::upsert); otherwise messages do not  *)
(* silently move to the deployment's account.                              *)
SecretKept ==
    [][\A c \in DOMAIN carriers :
          carriers[c].secret # "" /\ carriers'[c].secret = "" =>
              \E k \in Editors : /\ editing[k].channel = c /\ editing[k].stale
                                 /\ editing'[k] # editing[k]]_vars

(* However payments that overlap, their late reminder cancellation and the *)
(* ticks that mark invoices overdue interleave, an invoice is paid exactly *)
(* when nothing is owed on it or it is overpaid (record_payment,           *)
(* cancel_reminders_on_payment, process_invoice_reminders_for).            *)
StatusMatchesBalance == \A b \in Bills : dues[b].status = "paid" <=> dues[b].balance =< 0

=============================================================================
