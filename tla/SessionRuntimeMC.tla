---------------------------- MODULE SessionRuntimeMC ----------------------------
(***************************************************************************)
(* A small instance of SessionRuntime: two navigations, an account switch, *)
(* an avatar that is followed by another, a reconnection and two equal     *)
(* notifications, and one call of the coordinator.                         *)
(***************************************************************************)
EXTENDS SessionRuntime, TLC

MCKind == "open" :> "navigation" @@ "thread" :> "navigation"
          @@ "switch" :> "lifecycle" @@ "face" :> "viewport" @@ "face2" :> "viewport"
          @@ "ring" :> "notice" @@ "ring2" :> "notice" @@ "retry" :> "reconnect"

MCEffects == DOMAIN MCKind

MCLane == [e \in MCEffects |-> CASE e \in {"face", "face2"} -> "media"
                                 [] e \in {"ring", "ring2"} -> "free"
                                 [] OTHER -> "control"]

MCLimit == "control" :> 1 @@ "media" :> 1 @@ "free" :> 3
MCRemote == {"control", "media"}
MCTransfers == {"media"}
MCSerial == {"control"}
MCPriority == [e \in MCEffects |-> IF e = "face2" THEN 1 ELSE 0]

MCGroup == [e \in MCEffects |-> CASE MCKind[e] = "navigation" -> "navigation"
                                  [] e \in {"ring", "ring2"} -> "ring"
                                  [] OTHER -> "alone"]

MCFollowUp == [e \in MCEffects |-> IF e = "face" THEN "face2" ELSE "nothing"]
=================================================================================
