---- MODULE MCSessions ----
(***************************************************************************)
(* A school with every route of the office in use.                         *)
(***************************************************************************)
EXTENDS Sessions
AllRoutes == {"create", "update", "decide", "defaults", "schedule", "start", "cancel",
              "leave", "classes"}
====
