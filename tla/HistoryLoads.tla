---------------------------- MODULE HistoryLoads ----------------------------
(* How the reducer decides which Message History to request next, and how    *)
(* the answers meet the live updates that arrive while they are under way    *)
(* (intuigram-lib app/history, media_preview.rs, avatar_loads.rs,            *)
(* offline_media.rs), together with the runtime's control lane, which        *)
(* carries one request at a time and drops superseded navigation.            *)
(*                                                                           *)
(* An input of the reducer is one action; `app` is its state, and an         *)
(* operator of the reducer maps it to a Step, the next state with at most    *)
(* one effect.  Message contents, drafts, anchors and own pending sends are  *)
(* left out; the transcript is always read at its latest message.            *)
EXTENDS Integers, Sequences, FiniteSets, Positions

CONSTANTS
    ChatList,       \* the known chats, in the order of the directory
    Forums,         \* chats that open as a list of topics
    Messages,       \* identities of messages, natural numbers
    ChatOf,         \* the chat of each message
    Threaded,       \* the messages that belong to the thread of their chat
    Media,          \* the messages with a picture
    Peers,          \* peers whose avatars are on the screen
    SweepLimit,     \* BACKGROUND_HISTORY_LIMIT
    SmallCapacity,  \* small_media_capacity
    PageSize,       \* messages of one recent page
    LaneBound,      \* bound: the user acts while fewer effects are on the lane
    LiveBound,      \* bound: updates on their way
    MaxUpsets,      \* bound: rare events (offline choices, deletions, pins, reconnections)
    NoKey, NoEffect, NoPage

Chats == { ChatList[i] : i \in DOMAIN ChatList }
ChatCount == Len(ChatList)
HistoryKeys == [chat : Chats, thread : BOOLEAN]
Root(c) == [chat |-> c, thread |-> FALSE]
Thread(c) == [chat |-> c, thread |-> TRUE]

\* The messages of `ms` that a history shows.
Within(k, ms) == { m \in ms : ChatOf[m] = k.chat /\ (k.thread => m \in Threaded) }

SmallItems == { <<"preview", m>> : m \in Media } \cup { <<"avatar", p>> : p \in Peers }

\* The markers are told apart from what they stand in for.
ASSUME HistoryAssumption ==
    /\ ChatList \in Seq(Chats) /\ ChatList # <<>> /\ SweepLimit \in Nat
    /\ Messages \subseteq Nat
    /\ Forums \subseteq Chats /\ Media \subseteq Messages
    /\ SmallCapacity \in Nat \ {0} /\ PageSize \in Nat \ {0}
    /\ NoKey \notin HistoryKeys /\ \A page \in SUBSET Messages : page # NoPage
    /\ NoEffect \notin [kind : {"load", "topics", "read"}, key : HistoryKeys, page : {NoPage}]

VARIABLES
    app,        \* the reducer
    control,    \* effects on the control lane; the first one is being carried out
    offered,    \* small media and notifications the runtime has not started yet
    remote,     \* the messages that exist, by Telegram
    updates,    \* updates on their way to the reducer, in order
    due,        \* history variable: what each cached history was told to hold
    displaced,  \* history variable: the active load lost its request or its completion
    outlived,   \* history variable: the histories whose load outlived its connection
    upsets      \* rare events so far

vars == <<app, control, offered, remote, updates, due, displaced, outlived, upsets>>

-----------------------------------------------------------------------------
(* Steps of the reducer. *)

Step(a, e) == [app |-> a, effect |-> e]

\* Option::or_else
OrElse(s, Next(_)) == IF s.effect # NoEffect THEN s ELSE Next(s.app)

WasRefreshed(a, k) == ~k.thread /\ k.chat \in a.refreshed

LoadEffect(k) == [kind |-> "load", key |-> k, page |-> NoPage]

StartLoad(a, k) ==
    LET shown == IF a.key # k THEN a
                 ELSE [a EXCEPT !.loading = IF a.cached[k] = {} THEN "fresh" ELSE "updating"]
    IN IF a.active = NoKey
       THEN Step([shown EXCEPT !.active = k, !.baseline = a.cached[k]], LoadEffect(k))
       ELSE Step([shown EXCEPT !.queued = IF a.active = k THEN NoKey ELSE k], NoEffect)

RequestLoad(a, k) == IF WasRefreshed(a, k) THEN Step(a, NoEffect) ELSE StartLoad(a, k)

ForceLoad(a, c) ==
    LET b == [a EXCEPT !.refreshed = @ \ {c}]
    IN IF a.active = Root(c) THEN Step([b EXCEPT !.queued = Root(c)], NoEffect)
       ELSE StartLoad(b, Root(c))

\* The first position, counted from the cursor, whose chat is not refreshed.
RequestBackground(a) ==
    LET At(n) == Root(ChatList[((a.cursor + n - 1) % ChatCount) + 1])
        stale == { n \in 1..a.remaining : ~WasRefreshed(a, At(n)) }
        n == IF stale = {} THEN a.remaining
             ELSE CHOOSE i \in stale : \A j \in stale : i <= j
        b == [a EXCEPT !.cursor = (@ + n) % ChatCount, !.remaining = @ - n]
    IN IF stale = {} THEN Step(b, NoEffect) ELSE StartLoad(b, At(n))

\* active_read_effect: the viewed history has something unread to mark.
ReadEffect(a) ==
    IF /\ a.focus = "history"
       /\ a.cached[a.key] # {}
       /\ a.key.thread \/ a.key.chat \in a.unread
    THEN [kind |-> "read", key |-> a.key, page |-> NoPage]
    ELSE NoEffect

DeferRead(a) == [a EXCEPT !.readPending = @ \/ ReadEffect(a) # NoEffect]

TakeRead(a) ==
    IF a.readPending THEN Step([a EXCEPT !.readPending = FALSE], ReadEffect(a))
    ELSE Step(a, NoEffect)

-----------------------------------------------------------------------------
(* Pictures and avatars. *)

QueuePreviews(a) ==
    LET wanted == { <<"preview", m>> : m \in a.cached[a.key] \cap Media }
    IN [a EXCEPT !.previews = wanted \ (a.smallActive \cup a.shown)]

QueueAvatars(a) ==
    LET wanted == { <<"avatar", p>> : p \in Peers }
    IN [a EXCEPT !.avatars = wanted \ (a.smallActive \cup a.shown \cup a.failed)]

\* Previews go first, the newest message before older ones.
RequestSmall(a) ==
    LET newest == CHOOSE i \in a.previews : \A j \in a.previews : i[2] >= j[2]
        first == CHOOSE i \in a.avatars : TRUE
    IN IF Cardinality(a.smallActive) >= SmallCapacity \/ a.previews \cup a.avatars = {}
       THEN Step(a, NoEffect)
       ELSE IF a.previews # {}
       THEN Step([a EXCEPT !.previews = @ \ {newest}, !.smallActive = @ \cup {newest}],
                 [kind |-> "small", item |-> newest])
       ELSE Step([a EXCEPT !.avatars = @ \ {first}, !.smallActive = @ \cup {first}],
                 [kind |-> "small", item |-> first])

QueueOffline(a, c) ==
    IF c \notin a.kept THEN a
    ELSE LET wanted == { m \in Media : \E k \in HistoryKeys : k.chat = c /\ m \in a.cached[k] }
         IN [a EXCEPT !.offQueued = @ \cup (wanted \ a.offActive)]

RequestOffline(a) ==
    IF a.offActive # {} \/ a.offQueued = {} THEN Step(a, NoEffect)
    ELSE LET target == CHOOSE m \in a.offQueued : TRUE
         IN Step([a EXCEPT !.offActive = {target}, !.offQueued = @ \ {target}],
                 [kind |-> "offline", item |-> target])

-----------------------------------------------------------------------------
(* The end of a load. *)

CompleteLoad(a, k, refreshed) ==
    LET marked == IF refreshed /\ ~k.thread THEN [a EXCEPT !.refreshed = @ \cup {k.chat}] ELSE a
        ended == [marked EXCEPT !.loading = IF a.key = k THEN "idle" ELSE @,
                                !.active = NoKey, !.baseline = {}, !.queued = NoKey]
        foreground == IF a.queued = NoKey \/ WasRefreshed(marked, a.queued)
                      THEN Step(ended, NoEffect)
                      ELSE StartLoad(ended, a.queued)
    IN IF a.active # k THEN Step(marked, NoEffect)
       ELSE OrElse(OrElse(OrElse(foreground, RequestSmall), RequestBackground), TakeRead)

\* Mutant: a message that came during the request counts as cached before.
ReconciledOld(a, k, page) ==
    { m \in a.cached[k] : a.active # k \/ \E p \in page : m < p /\ \A q \in page : p <= q }

\* reconcile_refresh: which cached messages a page does not displace.
Reconciled(a, k, page) ==
    LET Older(m) == \E p \in page : m < p /\ \A q \in page : p <= q
        Newer(m) == \A p \in page : p < m
    IN { m \in a.cached[k] :
           \/ a.active # k \/ m \notin a.baseline
           \/ Older(m)
           \/ k.thread /\ Newer(m) }

StoreLoaded(a, k, page) == [a EXCEPT !.cached[k] = page \cup Reconciled(a, k, page)]

\* ChatLoaded and ThreadLoaded.
Loaded(a, k, page) ==
    LET stored == QueueOffline(StoreLoaded(a, k, page), k.chat)
        shown == IF a.key = k THEN DeferRead(QueueAvatars(QueuePreviews(stored))) ELSE stored
        Finish(b) == CompleteLoad(b, k, TRUE)
    IN OrElse(RequestOffline(shown), Finish)

-----------------------------------------------------------------------------
(* The runtime.  Navigation drops other navigation that waits and cancels    *)
(* the one that is carried out, unless its answer has already come; a        *)
(* cancelled picture fails, which `SmallDone` allows at any time.            *)

Navigates(e) == e.kind \in {"load", "topics"}

WithoutNavigation(lane) == Picked(lane, { i \in DOMAIN lane : ~Navigates(lane[i]) })

\* enqueue_effect after cancel_superseded_work.  `late`: the answer wins.
Enqueue(e, late) ==
    IF e.kind \in {"small", "notify"}
    THEN /\ control' = control
         /\ \/ offered' = offered \cup {e.item}
            \/ e.kind = "notify" /\ offered' = offered   \* the same one is being shown
    ELSE /\ UNCHANGED offered
         /\ IF ~Navigates(e) THEN control' = Append(control, e)
            ELSE LET kept == { i \in DOMAIN control :
                                 \/ ~Navigates(control[i])
                                 \/ i = 1 /\ late /\ control[1].page # NoPage }
                 IN control' = Append(Picked(control, kept), e)

\* A history variable: the reducer still waits for a load that no effect on the
\* lane will report, because opening a list dropped it.
Dropped(s, lane) ==
    \/ displaced
    \/ /\ s.effect # NoEffect /\ s.effect.kind = "topics"
       /\ ~\E i \in DOMAIN lane : lane[i].kind = "load" /\ lane[i].key = s.app.active

\* The reducer takes an input: its state changes and its effect is enqueued.
Transition(s) ==
    /\ app' = s.app
    /\ IF s.effect = NoEffect \/ s.effect.kind = "offline" THEN UNCHANGED <<control, offered>>
       ELSE \E late \in BOOLEAN : Enqueue(s.effect, late)
    /\ displaced' = (s.app.active # NoKey /\ Dropped(s, control'))
    /\ UNCHANGED outlived

\* The same for an input that takes the first effect off the lane.
TransitionAndPop(s) ==
    /\ app' = s.app
    /\ displaced' = /\ s.app.active # NoKey
                    /\ \/ displaced
                       \/ /\ s.effect # NoEffect /\ s.effect.kind = "offline"
                          /\ s.app.active = Head(control).key
    /\ UNCHANGED outlived
    /\ IF s.effect = NoEffect \/ s.effect.kind = "offline"
       THEN control' = Tail(control) /\ UNCHANGED offered
       ELSE IF s.effect.kind = "small"
       THEN control' = Tail(control) /\ offered' = offered \cup {s.effect.item}
       ELSE /\ UNCHANGED offered
            /\ control' = Append(IF Navigates(s.effect)
                                 THEN WithoutNavigation(Tail(control))
                                 ELSE Tail(control), s.effect)

-----------------------------------------------------------------------------
(* The user. *)

Upset == upsets < MaxUpsets /\ upsets' = upsets + 1

RoomForUser == Len(control) < LaneBound

View(a, k, focus) == [a EXCEPT !.key = k, !.focus = focus]

\* move_chat: the list of chats has the focus.
MoveTo(c) ==
    /\ RoomForUser /\ app.focus = "chats" /\ c # app.key.chat
    /\ LET moved == [View(app, Root(c), "chats") EXCEPT !.topics = FALSE]
       IN Transition(RequestLoad(QueueAvatars(QueuePreviews(moved)), Root(c)))
    /\ UNCHANGED <<remote, updates, due, upsets>>

\* open_active_context on a chat: its topics, or its history.
OpenChat ==
    /\ RoomForUser /\ app.focus = "chats"
    /\ LET c == app.key.chat
           opened == DeferRead(QueueAvatars(QueuePreviews(View(app, Root(c), "history"))))
           ReadIfIdle(a) == IF a.active = NoKey THEN TakeRead(a) ELSE Step(a, NoEffect)
       IN IF c \in Forums
          THEN Transition(Step([View(app, Root(c), "topics") EXCEPT !.topics = TRUE],
                               [kind |-> "topics", key |-> Root(c), page |-> NoPage]))
          ELSE Transition(OrElse(OrElse(RequestLoad(opened, Root(c)), RequestSmall), ReadIfIdle))
    /\ UNCHANGED <<remote, updates, due, upsets>>

\* open_thread from a transcript, open_active_topic from the list of topics.
OpenThread ==
    /\ RoomForUser
    /\ \/ app.focus = "history" /\ ~app.key.thread /\ app.cached[app.key] # {}
       \/ app.focus = "topics"
    /\ LET k == Thread(app.key.chat)
       IN Transition(RequestLoad(View(app, k, "history"), k))
    /\ UNCHANGED <<remote, updates, due, upsets>>

\* leave_thread and leave_topic, and back to the list of chats.
Leave ==
    /\ app.focus # "chats"
    /\ app' = IF app.key.thread
              THEN View(app, Root(app.key.chat),
                        IF app.key.chat \in Forums THEN "topics" ELSE "history")
              ELSE View(app, app.key, "chats")
    /\ UNCHANGED <<control, offered, remote, updates, due, displaced, outlived, upsets>>

\* ChatMediaOfflineChanged with `keep`.
KeepOffline(c) ==
    /\ Upset /\ c \notin app.kept
    /\ Transition(RequestOffline(QueueOffline([app EXCEPT !.kept = @ \cup {c}], c)))
    /\ UNCHANGED <<remote, updates, due>>

-----------------------------------------------------------------------------
(* Live updates. *)

\* apply_added_message and what the MessageAdded input does after it.
MessageAdded(a, m) ==
    LET c == ChatOf[m]
        into == { k \in HistoryKeys : m \in Within(k, {m}) }
        seen == a.focus # "chats" /\ a.key.chat = c /\ (a.key.thread <=> m \in Threaded)
        present == \E k \in HistoryKeys : k.chat = c /\ m \in a.cached[k]
        stored == [a EXCEPT !.cached = [k \in HistoryKeys |->
                                          IF k \in into THEN @[k] \cup {m} ELSE @[k]]]
        counted == IF present \/ seen THEN stored ELSE [stored EXCEPT !.unread = @ \cup {c}]
        effect == IF present THEN NoEffect
                  ELSE IF seen THEN [kind |-> "read", key |-> a.key, page |-> NoPage]
                  ELSE [kind |-> "notify", item |-> <<"notify", c>>]
        queued == QueueOffline(counted, c)
        shown == IF a.key.chat = c THEN QueuePreviews(queued) ELSE queued
    IN OrElse(Step(shown, effect), RequestOffline)

\* delete_messages
Deleted(a, m) == [a EXCEPT !.cached = [k \in HistoryKeys |-> @[k] \ {m}]]

Deliver ==
    /\ updates # <<>>
    /\ updates' = Tail(updates)
    /\ LET m == Head(updates).message
       IN IF Head(updates).kind = "added"
          THEN /\ Transition(MessageAdded(app, m))
               /\ due' = [k \in HistoryKeys |-> due[k] \cup Within(k, {m})]
          ELSE /\ Transition(Step(Deleted(app, m), NoEffect))
               /\ due' = [k \in HistoryKeys |-> due[k] \ {m}]
    /\ UNCHANGED <<remote, upsets>>

\* MessagesPinChanged for a message that is not cached (reconcile_message_pins).
PinMissing(c) ==
    /\ Upset
    /\ Transition(ForceLoad(app, c))
    /\ UNCHANGED <<remote, updates, due>>

-----------------------------------------------------------------------------
(* Telegram.  Identities grow; a deleted message does not come back. *)

Issue(m) ==
    /\ Len(updates) < LiveBound
    /\ m \notin remote.issued /\ \A n \in remote.issued : n < m
    /\ remote' = [issued |-> remote.issued \cup {m}, exists |-> remote.exists \cup {m}]
    /\ updates' = Append(updates, [kind |-> "added", message |-> m])
    /\ UNCHANGED <<app, control, offered, due, displaced, outlived, upsets>>

Delete(m) ==
    /\ Upset /\ m \in remote.exists /\ Len(updates) < LiveBound
    /\ remote' = [remote EXCEPT !.exists = @ \ {m}]
    /\ updates' = Append(updates, [kind |-> "deleted", message |-> m])
    /\ UNCHANGED <<app, control, offered, due, displaced, outlived>>

\* The most recent page of a history.
RecentPage(k) == LET all == Within(k, remote.exists)
           IN { m \in all : Cardinality({ n \in all : n > m }) < PageSize }

\* Telegram answers the request that is being carried out.
Answer ==
    /\ control # <<>> /\ Head(control).kind \in {"load", "topics"} /\ Head(control).page = NoPage
    /\ control' = [control EXCEPT ![1].page =
                     IF Head(control).kind = "load" THEN RecentPage(Head(control).key) ELSE {}]
    /\ UNCHANGED <<app, offered, remote, updates, due, displaced, outlived, upsets>>

-----------------------------------------------------------------------------
(* Completions. *)

LoadDone ==
    /\ control # <<>> /\ Head(control).kind = "load" /\ Head(control).page # NoPage
    /\ TransitionAndPop(Loaded(app, Head(control).key, Head(control).page))
    /\ UNCHANGED <<remote, updates, due, upsets>>

\* Mutant: the failure is shown and the load goes on.
LoadFailedShown ==
    /\ control # <<>> /\ Head(control).kind = "load" /\ Head(control).page = NoPage
    /\ TransitionAndPop(Step(app, NoEffect))
    /\ UNCHANGED <<remote, updates, due, upsets>>

\* HistoryLoadFailed: Telegram rejects the request.
LoadFailed ==
    /\ control # <<>> /\ Head(control).kind = "load" /\ Head(control).page = NoPage
    /\ TransitionAndPop(CompleteLoad(app, Head(control).key, FALSE))
    /\ UNCHANGED <<remote, updates, due, upsets>>

TopicsDone ==
    /\ control # <<>> /\ Head(control).kind = "topics" /\ Head(control).page # NoPage
    /\ TransitionAndPop(Step([app EXCEPT !.topics = IF app.key.chat = Head(control).key.chat
                                                    THEN FALSE ELSE @], NoEffect))
    /\ UNCHANGED <<remote, updates, due, upsets>>

\* EffectAccepted(Notification or ReadState): follow-up work is offered.
Accepted(a) == OrElse(RequestOffline(a), RequestSmall)

StartRead ==
    /\ control # <<>> /\ Head(control).kind = "read" /\ Head(control).page = NoPage
    /\ LET s == Accepted(app)
       IN /\ app' = s.app
          /\ control' = [control EXCEPT ![1].page = {}]
          /\ offered' = IF s.effect # NoEffect /\ s.effect.kind = "small"
                        THEN offered \cup {s.effect.item} ELSE offered
    /\ UNCHANGED <<remote, updates, due, displaced, outlived, upsets>>

ReadDone ==
    /\ control # <<>> /\ Head(control).kind = "read" /\ Head(control).page # NoPage
    /\ TransitionAndPop(Step([app EXCEPT !.unread = IF Head(control).key.thread THEN @
                                                    ELSE @ \ {Head(control).key.chat}], NoEffect))
    /\ UNCHANGED <<remote, updates, due, upsets>>

StartNotify(c) ==
    /\ <<"notify", c>> \in offered
    /\ LET s == Accepted(app)
       IN /\ app' = s.app
          /\ offered' = (offered \ {<<"notify", c>>})
                        \cup (IF s.effect # NoEffect /\ s.effect.kind = "small"
                              THEN {s.effect.item} ELSE {})
    /\ UNCHANGED <<control, remote, updates, due, displaced, outlived, upsets>>

\* EffectAccepted(SmallMedia)
StartSmall(i) ==
    /\ i \in offered
    /\ LET s == RequestSmall(app)
       IN /\ app' = s.app
          /\ offered' = (offered \ {i}) \cup (IF s.effect # NoEffect THEN {s.effect.item} ELSE {})
    /\ UNCHANGED <<control, remote, updates, due, displaced, outlived, upsets>>

\* complete_media_preview and complete_avatar.
SmallDone(i, ok) ==
    /\ i \in app.smallActive \ offered
    /\ LET avatar == i[1] = "avatar"
           ended == [app EXCEPT !.smallActive = @ \ {i},
                                !.shown = IF ok THEN @ \cup {i} ELSE @,
                                !.failed = IF ~ok /\ avatar THEN @ \cup {i} ELSE @]
           BackgroundIfIdle(a) == IF a.active = NoKey THEN RequestBackground(a)
                                  ELSE Step(a, NoEffect)
       IN Transition(IF avatar
                     THEN OrElse(OrElse(RequestSmall(ended), TakeRead), RequestBackground)
                     ELSE OrElse(OrElse(RequestSmall(ended), BackgroundIfIdle), TakeRead))
    /\ UNCHANGED <<remote, updates, due, upsets>>

\* complete_offline_media
OfflineDone ==
    /\ app.offActive # {}
    /\ LET ended == [app EXCEPT !.offActive = {}]
       IN Transition(OrElse(OrElse(RequestOffline(ended), RequestSmall), RequestBackground))
    /\ UNCHANGED <<remote, updates, due, upsets>>

-----------------------------------------------------------------------------
(* The connection. *)

IndexOf(c) == CHOOSE i \in DOMAIN ChatList : ChatList[i] = c

AtMost(a, b) == IF a <= b THEN a ELSE b

\* reset_background_history and reset_reconnected_history: the sweep starts at
\* the viewed chat.
ResetLoads(a) ==
    [a EXCEPT !.active = NoKey, !.baseline = {}, !.queued = NoKey, !.refreshed = {},
              !.readPending = FALSE, !.loading = "idle",
              !.cursor = IndexOf(a.key.chat) - 1,
              !.remaining = AtMost(ChatCount, SweepLimit)]

\* merge_restored_connection and the ConnectionRestored input.  What was being
\* carried out returns to the queue and is asked again.  The bootstrap carries
\* the histories of the database: what was cached, and what the updates on
\* their way add or take.
ConnectionRestored ==
    /\ Upset
    /\ LET known == UNION { app.cached[k] : k \in HistoryKeys }
                    \cup { updates[i].message : i \in DOMAIN updates }
           cached == [k \in HistoryKeys |-> Within(k, known \cap remote.exists)]
           fresh == [ResetLoads(app) EXCEPT !.cached = cached, !.topics = FALSE,
                                            !.offActive = {}, !.offQueued = {},
                                            !.smallActive = {}, !.previews = {}, !.avatars = {},
                                            !.failed = {}]
           offline == [fresh EXCEPT !.offQueued =
                         UNION { QueueOffline(fresh, c).offQueued : c \in Chats }]
           again == [i \in DOMAIN control |-> [control[i] EXCEPT !.page = NoPage]]
           s == OrElse(OrElse(RequestOffline(QueueAvatars(QueuePreviews(offline))),
                              RequestBackground), RequestSmall)
       IN /\ app' = s.app
          /\ due' = cached
          /\ control' = IF s.effect # NoEffect /\ s.effect.kind = "load"
                        THEN Append(WithoutNavigation(again), s.effect)
                        ELSE again
          /\ offered' = IF s.effect # NoEffect /\ s.effect.kind = "small"
                        THEN offered \cup {s.effect.item} ELSE offered
          /\ outlived' = { control'[i].key : i \in { j \in DOMAIN control' :
                             control'[j].kind = "load" /\ s.app.active = NoKey } }
    /\ updates' = <<>> /\ displaced' = FALSE
    /\ UNCHANGED remote

-----------------------------------------------------------------------------
\* The first bootstrap: the first chat is selected, nothing is cached, and the
\* sweep begins behind it (reset_background_history).
InitialApp ==
    [key |-> Root(ChatList[1]), focus |-> "chats", loading |-> "idle", topics |-> FALSE,
     cached |-> [k \in HistoryKeys |-> {}], unread |-> {},
     active |-> NoKey, baseline |-> {}, queued |-> NoKey, refreshed |-> {},
     cursor |-> 1 % ChatCount, remaining |-> AtMost(ChatCount - 1, SweepLimit),
     readPending |-> FALSE,
     smallActive |-> {}, previews |-> {}, avatars |-> {}, shown |-> {}, failed |-> {},
     kept |-> {}, offActive |-> {}, offQueued |-> {}]

HistoryInit ==
    LET s == RequestBackground(InitialApp)
    IN /\ app = s.app
       /\ control = IF s.effect = NoEffect THEN <<>> ELSE <<s.effect>>
       /\ offered = {} /\ displaced = FALSE /\ outlived = {}
       /\ remote = [issued |-> {}, exists |-> {}]
       /\ updates = <<>>
       /\ due = [k \in HistoryKeys |-> {}]
       /\ upsets = 0

User == \/ \E c \in Chats : MoveTo(c)
        \/ \E c \in Chats : KeepOffline(c)
        \/ OpenChat \/ OpenThread \/ Leave

Telegram == \/ \E m \in Messages : Issue(m)
            \/ \E m \in Messages : Delete(m)
            \/ \E c \in Chats : PinMissing(c)

\* The first effect on the control lane is carried on.
Serve == Answer \/ LoadDone \/ LoadFailed \/ TopicsDone \/ StartRead \/ ReadDone

StartOffered == \/ \E c \in Chats : StartNotify(c)
                \/ \E i \in SmallItems : StartSmall(i)

EndSmall == \E i \in SmallItems, ok \in BOOLEAN : SmallDone(i, ok)

HistoryNext == User \/ Telegram \/ Serve \/ StartOffered \/ EndSmall \/ OfflineDone
               \/ Deliver \/ ConnectionRestored

HistorySpec == HistoryInit /\ [][HistoryNext]_vars

-----------------------------------------------------------------------------
(* Properties. *)

Effects == [kind : {"load", "topics", "read"}, key : HistoryKeys,
            page : {NoPage} \cup SUBSET Messages]

\* The types, and that nothing waits for a load that is not under way.
HistoryTypeOK ==
    /\ app.key \in HistoryKeys /\ app.active \in HistoryKeys \cup {NoKey}
    /\ app.queued \in HistoryKeys \cup {NoKey}
    /\ app.active = NoKey => app.queued = NoKey /\ app.baseline = {}
    /\ app.cached \in [HistoryKeys -> SUBSET Messages]
    /\ app.baseline \subseteq Messages /\ app.refreshed \subseteq Chats
    /\ app.smallActive \subseteq SmallItems
    /\ control \in Seq(Effects)
    /\ due \in [HistoryKeys -> SUBSET Messages]

\* A page that was asked for before a live message came does not take the
\* message away again: what the reducer showed once stays shown while it exists
\* (reconcile_refresh, apply_added_message), so that no state "appears one time
\* and then disappears" (docs/adr/0001-local-first-sync.md).  The code breaks
\* this in one case, which `outlived` names: a restored connection forgets the
\* load of a history but leaves its request on the lane, and its answer is
\* compared with what the history held when a later load began.
LiveKept ==
    \A k \in HistoryKeys \ outlived : due[k] \cap remote.exists \subseteq app.cached[k]

\* While the reducer waits for a load, the control lane has its request: the
\* queue of foreground requests is served when that load ends, so a load that
\* nothing reports stops every later one.  `displaced` names the two ways the
\* code gets there all the same: a download for offline use takes the place of
\* the completion (input.rs), and a list of topics takes the place of the
\* request (runtime/types.rs).
LoadHasRequest ==
    \/ app.active = NoKey \/ displaced
    \/ \E i \in DOMAIN control : control[i].kind = "load" /\ control[i].key = app.active

\* A foreground request waits for a load only while that load is under way, so
\* that it gets its turn "after each completion"
\* (docs/adr/0004-single-writer-state.md).
QueuedServed ==
    app.queued # NoKey =>
        \E i \in DOMAIN control : control[i].kind = "load" /\ control[i].key = app.active
=============================================================================
