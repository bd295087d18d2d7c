---- MODULE AtomicConfig ----
(***************************************************************************)
(* What the config store promises its callers: one value, and updates that *)
(* take effect at once, at most once each, on the value the one before     *)
(* left.  An update that fails, or whose caller dies, leaves no trace or   *)
(* has taken effect as a whole.                                            *)
(***************************************************************************)
CONSTANTS Clients,          \* callers, each with at most one update
          Apply(_, _)       \* what an update makes of a value

VARIABLES value,            \* the stored value
          update,           \* the update of each client
          committed         \* the clients whose update has taken effect

vars == <<value, update, committed>>

\* Any first value; nobody has updated it.
Init == committed = {}

Commit(c) ==
  /\ c \notin committed
  /\ value' = Apply(update[c], value)
  /\ committed' = committed \union {c}
  /\ UNCHANGED update

Next == \E c \in Clients : Commit(c)

Spec == Init /\ [][Next]_vars
====
