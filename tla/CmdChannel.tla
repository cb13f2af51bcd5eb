----------------------------- MODULE CmdChannel -----------------------------
(***************************************************************************)
(* What the command manager promises the firmware, without any of its      *)
(* machinery: requests go through a one-place slot, one at a time and each *)
(* at most once, in the order they were accepted.  A request still queued  *)
(* may be withdrawn; an urgent one may pass the queue, never the slot.     *)
(***************************************************************************)
CONSTANTS
  Cmd,
  Urgent,   \* the requests that may pass the queue
  None

VARIABLES
  queue,    \* accepted requests that are not in the slot yet
  before,   \* the order of the queue: pairs of its requests, older first
  slot,     \* the request the firmware has not taken yet
  seen      \* every request ever accepted

vars == <<queue, before, slot, seen>>

Init ==
  /\ queue = {}
  /\ before = {}
  /\ slot = None
  /\ seen = {}

Enqueue(c) ==
  /\ c \notin seen
  /\ queue' = queue \cup {c}
  /\ before' = before \cup (queue \X {c})
  /\ seen' = seen \cup {c}
  /\ UNCHANGED slot

Put(c) ==
  /\ c \notin seen
  /\ slot = None
  /\ queue = {} \/ c \in Urgent
  /\ slot' = c
  /\ seen' = seen \cup {c}
  /\ UNCHANGED <<queue, before>>

Remove(c) ==
  /\ c \in queue
  /\ queue' = queue \ {c}
  /\ before' = before \cap (queue' \X queue')

Withdraw(c) ==
  /\ Remove(c)
  /\ UNCHANGED <<slot, seen>>

\* The firmware takes the request; the oldest queued one may follow at once.
Take ==
  /\ slot # None
  /\ slot' = None
  /\ UNCHANGED <<queue, before, seen>>

TakeNext(c) ==
  /\ slot # None
  /\ \A d \in queue \ {c} : <<c, d>> \in before
  /\ Remove(c)
  /\ slot' = c
  /\ UNCHANGED seen

\* The platform is restarted.
Reset ==
  /\ queue' = {}
  /\ before' = {}
  /\ slot' = None
  /\ UNCHANGED seen

Next ==
  \/ \E c \in Cmd : Enqueue(c) \/ Put(c) \/ Withdraw(c) \/ TakeNext(c)
  \/ Take
  \/ Reset

Spec == Init /\ [][Next]_vars
=============================================================================
