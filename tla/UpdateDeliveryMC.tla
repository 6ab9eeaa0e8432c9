---------------------------- MODULE UpdateDeliveryMC ----------------------------
(***************************************************************************)
(* A small instance of UpdateDelivery, with two scopes and two histories   *)
(* of Telegram, each from its own durable cursors.                         *)
(***************************************************************************)
EXTENDS UpdateDelivery, TLC

MCScopes == {"account", "channel"}

Single(a, c) == [s \in MCScopes |-> IF s = "account" THEN a ELSE c]

Empty == [pts |-> Single(0, 0), count |-> Single(0, 0), date |-> 0,
          start |-> 0, seq |-> 0, gap |-> FALSE, events |-> 1]

\* One counted change at pts p, in an envelope of date d.
InAccount(p, d) == [Empty EXCEPT !.pts = Single(p, 0), !.count = Single(1, 0), !.date = d]
InChannel(p, d) == [Empty EXCEPT !.pts = Single(0, p), !.count = Single(0, 1), !.date = d]

\* A state without a count of its own, such as a read mark of the channel.
ReadMark(p) == [Empty EXCEPT !.pts = Single(0, p)]
Numbered(n, c) == [c EXCEPT !.start = n, !.seq = n]
TooLong     == [Empty EXCEPT !.gap = TRUE, !.events = 0]
Twice(c)    == [c EXCEPT !.events = 2]

\* The cursors the account and the channel have reached, and an unknown channel.
KnownBase == Single(10, 30)
NewBase   == Single(10, 0)

\* A message, the own request, a change of the channel, a later message.
MixedContent == "message" :> Numbered(1, InAccount(11, 1))
                @@ "own" :> Twice(InAccount(12, 1))
                @@ "edit" :> Numbered(2, InChannel(31, 2))
                @@ "later" :> Numbered(3, InAccount(13, 3))
MixedEnvelopes == DOMAIN MixedContent
MixedHistory == <<"message", "own", "edit", "later">>

\* A channel not known before, with a read mark at the pts of its second post,
\* and a difference that is too long.
GapsContent == "post" :> InChannel(31, 1) @@ "reply" :> InChannel(32, 2)
               @@ "read" :> ReadMark(32) @@ "tooLong" :> TooLong
GapsEnvelopes == DOMAIN GapsContent
GapsHistory == <<"post", "reply", "read", "tooLong">>

\* Either history, from the cursors it starts at.
BothContent == MixedContent @@ GapsContent
BothEnvelopes == DOMAIN BothContent
BothWorlds == {[history |-> MixedHistory, base |-> KnownBase],
               [history |-> GapsHistory,  base |-> NewBase]}

OwnRequest == {"own"}
=================================================================================
