--------------------------- MODULE OptimisticSends ---------------------------
(* What becomes of a message between the moment the user sends it and the    *)
(* moment Telegram's copy replaces it: the reducer shows it at once under a  *)
(* negative local identity (intuigram-lib app/messaging.rs), its admission   *)
(* stores it beside the outbox item (intuigram-store outbox/repository.rs),  *)
(* and the acknowledgement, the live update, a loaded history, a restored    *)
(* connection and a restart each replace it their own way.                   *)
(*                                                                           *)
(* One chat, whose whole history is its root history and fits in one page.   *)
(* Messages are the account's own.  "settled" stands for Sent and Read,      *)
(* which only a reader tells apart.  The outbox is reduced to what the       *)
(* transcript shows of it; OutboxExecution has its states, its faults and    *)
(* how its replies interleave with the lane's.                               *)
EXTENDS Integers, Sequences, FiniteSets, SequencesExt, Functions, Positions

CONSTANTS
    Bodies,        \* what messages may say
    MaxSends,      \* bound: messages the user sends here
    MaxRare        \* bound: what the world adds to them, of any kind: messages from
                   \* another device, history requests, read receipts, refused sends,
                   \* lost connections, restarts

ASSUME SendsAssumption == MaxSends \in Nat /\ MaxRare \in Nat

VARIABLES
    process,    \* "off", "offline" or "online": the process and its session
    sends,      \* what the user sent: text, local identity and outbox row, in order
    nextLocal,  \* App::next_local_message_id
    history,    \* the root history the reducer shows, in order
    board,      \* the sends whose item the reducer knows, with the state shown
    lane,       \* sends waiting for their admission
    outputs,    \* what the coordinator reports
    server,     \* the messages Telegram has, in the order of their identities
    wire,       \* sends Telegram may still apply
    live,       \* updates not yet in the database, in order
    shown,      \* committed updates on their way to the reducer
    load,       \* the history request under way
    disk,       \* the stored messages, by identity
    clashed,    \* history variable: an identity was given out while in use
    misread,    \* history variable: the sends a receipt marked before they were sent
    rare        \* events of the world so far

viewVars   == <<nextLocal, history, board>>
wireVars   == <<server, wire, live, shown>>
ghostVars  == <<clashed, misread>>
sendsVars  == <<process, sends, viewVars, lane, outputs, wireVars, load, disk, ghostVars, rare>>

Rare == rare < MaxRare /\ rare' = rare + 1

Unsettled == {"saving", "pending", "failed"}

Entry(id, text, delivery) == [id |-> id, text |-> text, delivery |-> delivery]

NoLoad == [pc |-> "none", baseline |-> {}, page |-> 0]

IdsOf(h) == { h[i].id : i \in DOMAIN h }

\* outbox rows: an item under way, one set aside for the user
Waiting == {"ready", "in_flight"}
Held    == {"failed"}

Unresolved(s) == sends[s].row \in Waiting \cup Held

\* A send whose admission is still on the lane, or that is in the outbox.
Underway(s) == Unresolved(s) \/ \E i \in DOMAIN lane : lane[i] = s

SendsInit ==
    /\ process = "online" /\ sends = <<>> /\ nextLocal = 0
    /\ history = <<>> /\ board = <<>>
    /\ lane = <<>> /\ outputs = <<>>
    /\ server = <<>> /\ wire = {} /\ live = <<>> /\ shown = <<>>
    /\ load = NoLoad
    /\ disk = <<>>
    /\ clashed = FALSE /\ misread = {}
    /\ rare = 0

-----------------------------------------------------------------------------
(* Operations on a history. *)

\* update_delivery: the first entry of that identity.
Delivered(h, id, delivery) ==
    IF id \notin IdsOf(h) THEN h
    ELSE LET first == CHOOSE i \in DOMAIN h :
                          h[i].id = id /\ \A j \in DOMAIN h : h[j].id = id => i <= j
         IN [h EXCEPT ![first].delivery = delivery]

\* Mutant: the newest pending entry takes the server's identity.
AcknowledgedLast(h, local, id) ==
    LET pending == { i \in DOMAIN h : h[i].id < 0 }
        last == CHOOSE i \in pending : \A j \in pending : j <= i
    IN IF pending = {} THEN h ELSE [h EXCEPT ![last] = Entry(id, @.text, "settled")]

\* acknowledge_message: every entry of the local identity takes the server's.
Acknowledged(h, local, id) ==
    [i \in DOMAIN h |-> IF h[i].id = local THEN Entry(id, h[i].text, "settled") ELSE h[i]]

\* upsert_history_message: the first entry of the identity, without its copies.
Upserted(h, m) ==
    LET first == CHOOSE i \in DOMAIN h :
                     h[i].id = m.id /\ \A j \in DOMAIN h : h[j].id = m.id => i <= j
    IN Picked([h EXCEPT ![first] = m],
              { i \in DOMAIN h : i = first \/ h[i].id # m.id })

\* reconcile_pending_message: an unacknowledged entry that says the same.
Matches(e, m) == e.id < 0 /\ e.text = m.text

\* apply_added_message
Added(h, m) ==
    LET pending == { i \in DOMAIN h : Matches(h[i], m) }
        last == CHOOSE i \in pending : \A j \in pending : j <= i
    IN IF m.id \in IdsOf(h) THEN Upserted(h, m)
       ELSE IF pending # {} THEN [h EXCEPT ![last] = m]
       ELSE Append(h, m)

\* apply_read_state of the other side's receipt.
MarkedRead(h, max) ==
    [i \in DOMAIN h |-> IF h[i].id <= max THEN [h[i] EXCEPT !.delivery = "settled"] ELSE h[i]]

\* message_order: Telegram's identities upwards, then the local ones downwards.
MessageOrder(ids) == Ascending({ id \in ids : id >= 0 })
                         \o Reverse(Ascending({ id \in ids : id < 0 }))

\* Mutant: an update that arrives during the request is not kept.
PendingOnly(e, baseline) == e.delivery \in Unsettled

\* should_retain_cached, for a page that reaches the start of the chat.
Retained(e, baseline) == e.delivery \in Unsettled \/ e.id \notin baseline

Page(n) == [i \in 1..n |-> Entry(i, server[i].text, "settled")]

\* reconcile_refresh of a page of the first n messages.
Refreshed(h, n, baseline) ==
    LET kept == { i \in DOMAIN h : h[i].id \notin 1..n /\ Retained(h[i], baseline) }
        order == MessageOrder(1..n \cup { h[i].id : i \in kept })
        First(id) == CHOOSE i \in kept :
                         h[i].id = id /\ \A j \in kept : h[j].id = id => i <= j
    IN [i \in DOMAIN order |-> IF order[i] \in 1..n THEN Page(n)[order[i]]
                               ELSE h[First(order[i])]]

\* The stored messages as a history, in the order of their identities.
Cached(d) == LET order == Ascending(DOMAIN d)
             IN [i \in DOMAIN order |->
                     Entry(order[i], d[order[i]].text, d[order[i]].delivery)]

\* merge_restored_connection: what is not settled follows the new history.
Merged(base, h) ==
    LET own == { i \in DOMAIN h : h[i].delivery \in Unsettled }
        last == { i \in own : \A j \in own : h[j].id = h[i].id => j <= i }
    IN Picked(base, { i \in DOMAIN base : \A j \in own : base[i].id # h[j].id })
           \o Picked(h, last)

\* The least local identity of the restored histories, 0 when there is none.
LeastLocal(ids) == LET local == { id \in ids : id < 0 }
                   IN IF local = {} THEN 0 ELSE CHOOSE id \in local : \A o \in local : id <= o

-----------------------------------------------------------------------------
(* The stored messages. *)

Stored(text, delivery) == [text |-> text, delivery |-> delivery]

Put(d, id, m) == [i \in DOMAIN d \cup {id} |-> IF i = id THEN m ELSE d[i]]

Drop(d, ids) == [i \in DOMAIN d \ ids |-> d[i]]

PutPage(d, n) == [i \in DOMAIN d \cup 1..n |->
                      IF i \in 1..n THEN Stored(server[i].text, "settled") ELSE d[i]]

-----------------------------------------------------------------------------
(* The user. *)

\* An identity an entry, a send under way or a report still goes by.
InUse(id) == \/ id \in IdsOf(history) \/ id \in DOMAIN disk
             \/ \E i \in DOMAIN outputs : sends[outputs[i].send].local = id
             \/ \E s \in DOMAIN sends : Underway(s) /\ sends[s].local = id

\* send_message shows the message and asks for its admission.
Send(text) ==
    /\ process # "off" /\ Len(sends) < MaxSends
    /\ nextLocal' = nextLocal - 1
    /\ sends' = Append(sends, [text |-> text, local |-> nextLocal', row |-> "none"])
    /\ history' = Append(history, Entry(nextLocal', text, "saving"))
    /\ lane' = Append(lane, Len(sends'))
    /\ clashed' = (clashed \/ InUse(nextLocal'))
    /\ UNCHANGED <<process, board, outputs, wireVars, load, disk, misread, rare>>

\* The delivery an item in that state is shown with.
DeliveryOf(state) == IF state \in Waiting THEN "pending" ELSE "failed"

\* What the reducer shows of the item of a send (apply_outbox_changed).
Projected(s, state) ==
    /\ board' = Put(board, s, state)
    /\ history' = Delivered(history, sends[s].local, DeliveryOf(state))

\* Mutant: the optimistic message is left to the reducer.
AdmitBare(s) ==
    /\ sends' = [sends EXCEPT ![s].row = "ready"]
    /\ UNCHANGED disk

\* outbox::admit stores the item and its optimistic message together.
AdmitStored(s) ==
    /\ sends' = [sends EXCEPT ![s].row = "ready"]
    /\ disk' = Put(disk, sends[s].local, Stored(sends[s].text, "pending"))

Admit ==
    /\ process = "online" /\ lane # <<>>
    /\ LET s == Head(lane) IN AdmitStored(s) /\ Projected(s, "ready")
    /\ lane' = Tail(lane)
    /\ UNCHANGED <<process, nextLocal, outputs, wireVars, load, ghostVars, rare>>

\* The user acts on an item shown as failed, the ordered lane being free.
Decides(s) == /\ process = "online" /\ lane = <<>>
              /\ s \in DOMAIN board /\ board[s] \in Held /\ sends[s].row \in Held

Retry(s) ==
    /\ Decides(s)
    /\ sends' = [sends EXCEPT ![s].row = "ready"]
    /\ Projected(s, "ready")
    /\ UNCHANGED <<process, nextLocal, lane, outputs, wireVars, load, disk, ghostVars, rare>>

\* The item goes; its optimistic message stays, stored and shown.
Dismiss(s) ==
    /\ Decides(s)
    /\ sends' = [sends EXCEPT ![s].row = "dismissed"]
    /\ board' = Drop(board, {s})
    /\ UNCHANGED <<process, nextLocal, history, lane, outputs, wireVars, load, disk, ghostVars,
                   rare>>

-----------------------------------------------------------------------------
(* The coordinator and Telegram. *)

Landed(s) == \E i \in DOMAIN server : server[i].send = s

ServerId(s) == CHOOSE i \in DOMAIN server : server[i].send = s

Report(events) == outputs' = outputs \o events

Changed(s, state) == [kind |-> "changed", send |-> s, state |-> state, id |-> 0]

\* The first ready item, while none is in flight.
Claim(s) ==
    /\ process = "online" /\ sends[s].row = "ready"
    /\ \A t \in DOMAIN sends : /\ sends[t].row # "in_flight"
                               /\ t < s => sends[t].row # "ready"
    /\ sends' = [sends EXCEPT ![s].row = "in_flight"]
    /\ wire' = wire \cup {s}
    /\ Report(<<Changed(s, "in_flight")>>)
    /\ UNCHANGED <<process, viewVars, lane, server, live, shown, load, disk, ghostVars, rare>>

\* Telegram has one message more, and tells this session or, by a difference,
\* the next.
Posted(text, s) ==
    /\ server' = Append(server, [text |-> text, send |-> s])
    /\ live' = Append(live, [kind |-> "added", id |-> Len(server')])

\* Telegram applies a request, also after its connection is gone; it knows a
\* repeated one by its random identity.
Lands(s) ==
    /\ wire' = wire \ {s}
    /\ IF Landed(s) THEN UNCHANGED <<server, live>> ELSE Posted(sends[s].text, s)
    /\ UNCHANGED <<process, sends, viewVars, lane, outputs, shown, load, disk, ghostVars, rare>>

PostedElsewhere(text) ==
    /\ Rare
    /\ Posted(text, 0)
    /\ UNCHANGED <<process, sends, viewVars, lane, outputs, wire, shown, load, disk, ghostVars>>

Answered(s) == process = "online" /\ sends[s].row = "in_flight" /\ s \notin wire

\* completion::finish replaces the optimistic message; the removal of the item
\* and the acknowledgement are reported one after the other.
Complete(s) ==
    /\ Answered(s) /\ Landed(s)
    /\ sends' = [sends EXCEPT ![s].row = "completed"]
    /\ disk' = Put(Drop(disk, {sends[s].local}), ServerId(s), Stored(sends[s].text, "settled"))
    /\ Report(<<[kind |-> "removed", send |-> s, state |-> "none", id |-> 0],
                [kind |-> "acknowledged", send |-> s, state |-> "none", id |-> ServerId(s)]>>)
    /\ UNCHANGED <<process, viewVars, lane, wireVars, load, ghostVars, rare>>

\* Telegram refuses the request: the item is set aside.
Refuse(s) ==
    /\ process = "online" /\ sends[s].row = "in_flight" /\ s \in wire /\ ~Landed(s)
    /\ Rare
    /\ wire' = wire \ {s}
    /\ sends' = [sends EXCEPT ![s].row = "failed"]
    /\ Report(<<Changed(s, "failed")>>)
    /\ UNCHANGED <<process, viewVars, lane, server, live, shown, load, disk, ghostVars>>

\* The reducer takes the coordinator's next report.
CoordinatorReports ==
    /\ outputs # <<>>
    /\ LET event == Head(outputs)
           local == sends[event.send].local
       IN \/ event.kind = "changed" /\ Projected(event.send, event.state)
          \/ /\ event.kind = "removed"
             /\ board' = Drop(board, {event.send}) /\ UNCHANGED history
          \/ /\ event.kind = "acknowledged"
             /\ history' = Acknowledged(history, local, event.id) /\ UNCHANGED board
    /\ outputs' = Tail(outputs)
    /\ UNCHANGED <<process, sends, nextLocal, lane, wireVars, load, disk, ghostVars, rare>>

-----------------------------------------------------------------------------
(* Updates: each is durable before the reducer sees it.  The cursor passes   *)
(* none that is not, so the next session catches up with the others.         *)

\* The other side reads everything the account has sent so far.
ReadElsewhere ==
    /\ process = "online" /\ server # <<>>
    /\ Rare
    /\ live' = Append(live, [kind |-> "read", id |-> Len(server)])
    /\ UNCHANGED <<process, sends, viewVars, lane, outputs, server, wire, shown, load, disk,
                   ghostVars>>

CommitUpdate ==
    /\ process = "online" /\ live # <<>>
    /\ LET update == Head(live)
       IN disk' = IF update.kind = "added"
                  THEN Put(disk, update.id, Stored(server[update.id].text, "settled"))
                  ELSE [i \in DOMAIN disk |->
                            IF i <= update.id THEN [disk[i] EXCEPT !.delivery = "settled"]
                            ELSE disk[i]]
    /\ live' = Tail(live) /\ shown' = Append(shown, Head(live))
    /\ UNCHANGED <<process, sends, viewVars, lane, outputs, server, wire, load, ghostVars, rare>>

ShowUpdate ==
    /\ shown # <<>>
    /\ LET update == Head(shown)
       IN IF update.kind = "added"
          THEN /\ history' = Added(history, Entry(update.id, server[update.id].text, "settled"))
               /\ UNCHANGED misread
          ELSE /\ history' = MarkedRead(history, update.id)
               /\ misread' = misread \cup { s \in DOMAIN sends : Underway(s) }
    /\ shown' = Tail(shown)
    /\ UNCHANGED <<process, sends, nextLocal, board, lane, outputs, server, wire, live, load, disk,
                   clashed, rare>>

-----------------------------------------------------------------------------
(* Loading the history. *)

\* start_history_load remembers what the history holds.
AskHistory ==
    /\ process = "online" /\ load.pc = "none"
    /\ Rare
    /\ load' = [pc |-> "asked", baseline |-> IdsOf(history), page |-> 0]
    /\ UNCHANGED <<process, sends, viewVars, lane, outputs, wireVars, disk, ghostVars>>

\* Telegram answers with what it has at that moment.
AnswerHistory ==
    /\ load.pc = "asked"
    /\ load' = [load EXCEPT !.pc = "answered", !.page = Len(server)]
    /\ UNCHANGED <<process, sends, viewVars, lane, outputs, wireVars, disk, ghostVars, rare>>

\* Mutant: whatever the page lacks is stale.
StaleUnlessListed(d, n) == DOMAIN d \ 1..n

\* The settled messages of the range of the page that the page lacks.
Stale(d, n) == { id \in DOMAIN d : id > 0 /\ d[id].delivery = "settled" /\ id \notin 1..n }

\* save_chat_history
SaveHistory ==
    /\ load.pc = "answered"
    /\ disk' = PutPage(Drop(disk, Stale(disk, load.page)), load.page)
    /\ load' = [load EXCEPT !.pc = "saved"]
    /\ UNCHANGED <<process, sends, viewVars, lane, outputs, wireVars, ghostVars, rare>>

\* store_loaded_history, complete_history_load
ShowHistory ==
    /\ load.pc = "saved"
    /\ history' = Refreshed(history, load.page, load.baseline)
    /\ load' = NoLoad
    /\ UNCHANGED <<process, sends, nextLocal, board, lane, outputs, wireVars, disk, ghostVars,
                   rare>>

-----------------------------------------------------------------------------
(* The session and the process. *)

\* What a session holds goes with it: reports, requests and updates, of which
\* those that are not durable come again.
SessionLost == outputs' = <<>> /\ shown' = <<>> /\ load' = NoLoad

Disconnect ==
    /\ process = "online" /\ Rare
    /\ process' = "offline"
    /\ SessionLost
    /\ UNCHANGED <<sends, viewVars, lane, server, wire, live, disk, ghostVars>>

\* Opening the database returns an interrupted send to the queue.
Recovered == [s \in DOMAIN sends |->
                  IF sends[s].row = "in_flight" THEN [sends[s] EXCEPT !.row = "ready"]
                  ELSE sends[s]]

\* resume_account and ConnectionRestored.  Telegram's bootstrap has the history
\* of the first chat of the directory, which this one is or is not, and no
\* Outbox; other histories come from the stored messages.
Reconnect(first) ==
    LET base == IF first THEN Page(Len(server)) ELSE Cached(disk)
    IN /\ process = "offline"
       /\ process' = "online"
       /\ sends' = Recovered
       /\ disk' = IF first THEN PutPage(disk, Len(server)) ELSE disk
       /\ history' = Merged(base, history)
       /\ nextLocal' = LeastLocal(IF first THEN 1..Len(server) ELSE DOMAIN disk)
       /\ board' = <<>>
       /\ UNCHANGED <<lane, outputs, wireVars, load, ghostVars, rare>>

Stop ==
    /\ process # "off" /\ Rare
    /\ process' = "off"
    /\ SessionLost
    /\ history' = <<>> /\ board' = <<>> /\ nextLocal' = 0 /\ lane' = <<>>
    /\ UNCHANGED <<sends, server, wire, live, disk, ghostVars>>

\* Deliveries of a restored history follow the Outbox (apply_outbox_projection), the
\* last item of an identity deciding; the identities of stored messages differ.
WithOutbox(h, items) ==
    LET Items(id) == { s \in DOMAIN items :
                           items[s].local = id /\ items[s].row \in Waiting \cup Held }
        Deciding(id) == CHOOSE s \in Items(id) : \A t \in Items(id) : t <= s
    IN [i \in DOMAIN h |->
            IF Items(h[i].id) = {} THEN h[i]
            ELSE [h[i] EXCEPT !.delivery = DeliveryOf(items[Deciding(h[i].id)].row)]]

\* A process that starts shows the cached account before it connects.
Launch ==
    /\ process = "off"
    /\ process' = "offline"
    /\ sends' = Recovered
    /\ history' = WithOutbox(Cached(disk), sends')
    /\ nextLocal' = LeastLocal(DOMAIN disk)
    /\ board' = [s \in { t \in DOMAIN sends : Unresolved(t) } |-> sends'[s].row]
    /\ UNCHANGED <<lane, outputs, wireVars, load, disk, ghostVars, rare>>

-----------------------------------------------------------------------------

SendsNext ==
    \/ \E text \in Bodies : Send(text) \/ PostedElsewhere(text)
    \/ Admit
    \/ \E s \in DOMAIN sends : Retry(s) \/ Dismiss(s) \/ Claim(s) \/ Complete(s) \/ Refuse(s)
    \/ \E s \in wire : Lands(s)
    \/ CoordinatorReports
    \/ ReadElsewhere \/ CommitUpdate \/ ShowUpdate
    \/ AskHistory \/ AnswerHistory \/ SaveHistory \/ ShowHistory
    \/ Disconnect \/ Stop \/ Launch
    \/ \E first \in BOOLEAN : Reconnect(first)

SendsSpec == SendsInit /\ [][SendsNext]_sendsVars

-----------------------------------------------------------------------------
(* Properties.                                                               *)

\* No two messages of this chat say the same.
AllDiffer == /\ \A s, t \in DOMAIN sends : sends[s].text = sends[t].text => s = t
             /\ \A s \in DOMAIN sends, i \in DOMAIN server :
                    server[i].send = 0 => server[i].text # sends[s].text

\* Until an item is resolved its optimistic message is stored: no load, update,
\* completion, restart or reconnection takes it, as long as no identity was
\* given out twice (completion.rs, message_write.rs).
OptimisticKept ==
    ~clashed => \A s \in DOMAIN sends :
                    Unresolved(s) => /\ sends[s].local \in DOMAIN disk
                                     /\ disk[sends[s].local].text = sends[s].text

\* A message under way is shown while the process runs, as itself or as
\* Telegram's copy, whatever else replaces the history; receipts, equal texts
\* and reused identities are the known exceptions.
UnderwayShown ==
    process # "off" /\ ~clashed /\ AllDiffer =>
        \A s \in DOMAIN sends :
            Underway(s) /\ s \notin misread =>
                \E i \in DOMAIN history : \/ history[i].id = sends[s].local
                                          \/ Landed(s) /\ history[i].id = ServerId(s)

\* An entry with an identity of Telegram says what Telegram's message says.
ServerEntriesTrue ==
    ~clashed => \A i \in DOMAIN history :
                    history[i].id > 0 => history[i].text = server[history[i].id].text

\* Violated: an accepted message stays visibly pending until it is resolved.
StaysVisiblyPending ==
    \A s \in DOMAIN sends, i \in DOMAIN history :
        Unresolved(s) /\ history[i].id = sends[s].local => history[i].delivery \in Unsettled

\* Violated: no message takes an identity that is in use.
IdentitiesReserved == ~clashed
=============================================================================
