---- MODULE OutboxPromise ----
(***************************************************************************)
(* What the notification outbox promises, without claims, drains, time or  *)
(* failures.  A notice is posted by the transaction that causes it, is     *)
(* addressed to people on channels while it is owed, and is settled only   *)
(* when none of its messages is owed any more.  A message counts as told   *)
(* only if a provider took it, its end is final, and a settled notice may  *)
(* be forgotten together with its messages.                                *)
(***************************************************************************)
CONSTANTS Notices, Messages, NoticeOf
VARIABLES notice, message, accepted

vars == <<notice, message, accepted>>

MessagesOf(n) == {m \in Messages : NoticeOf[m] = n}

Init ==
    /\ notice = [n \in Notices |-> "none"]
    /\ message = [m \in Messages |-> "none"]
    /\ accepted = {}

\* A writer's transaction leaves a notice behind.
Post(n) ==
    /\ notice[n] = "none"
    /\ notice' = [notice EXCEPT ![n] = "owed"]
    /\ UNCHANGED <<message, accepted>>

\* More people are found to be told, while the notice is still owed.
Address(n, S) ==
    /\ notice[n] = "owed"
    /\ S \subseteq {m \in MessagesOf(n) : message[m] = "none"}
    /\ message' = [m \in Messages |-> IF m \in S THEN "owed" ELSE message[m]]
    /\ UNCHANGED <<notice, accepted>>

\* A provider takes a message.  It may take it again, or late.
Accept(m) ==
    /\ message[m] # "none"
    /\ accepted' = accepted \union {m}
    /\ UNCHANGED <<notice, message>>

\* A message reaches its end, once.
Finish(m) ==
    /\ message[m] = "owed"
    /\ \E end \in {"dropped"} \union (IF m \in accepted THEN {"told"} ELSE {}) :
          message' = [message EXCEPT ![m] = end]
    /\ UNCHANGED <<notice, accepted>>

Settle(N) ==
    /\ \A n \in N : notice[n] = "owed" /\ \A m \in MessagesOf(n) : message[m] # "owed"
    /\ notice' = [n \in Notices |-> IF n \in N THEN "settled" ELSE notice[n]]
    /\ UNCHANGED <<message, accepted>>

Forget(N) ==
    /\ \A n \in N : notice[n] = "settled"
    /\ notice' = [n \in Notices |-> IF n \in N THEN "forgotten" ELSE notice[n]]
    /\ message' = [m \in Messages |->
                     IF NoticeOf[m] \in N /\ message[m] # "none" THEN "forgotten" ELSE message[m]]
    /\ UNCHANGED accepted

Next ==
    \/ \E n \in Notices : Post(n) \/ \E S \in SUBSET Messages : Address(n, S)
    \/ \E m \in Messages : Accept(m) \/ Finish(m)
    \/ \E N \in SUBSET Notices : Settle(N) \/ Forget(N)

Spec == Init /\ [][Next]_vars

\* Every message that is owed to somebody reaches an end.
EveryMessageEnds == \A m \in Messages : message[m] = "owed" ~> message[m] # "owed"
====
