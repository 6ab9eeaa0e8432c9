--------------------------- MODULE HistoryLoadsMC ---------------------------
(* Two chats, the second a forum; two messages of the first chat, the newer  *)
(* one in its thread and with a picture.                                     *)
EXTENDS HistoryLoads

CONSTANTS c1, c2, p1

MCChatList == <<c1, c2>>
MCChatOf == [m \in {1, 2} |-> c1]
=============================================================================
