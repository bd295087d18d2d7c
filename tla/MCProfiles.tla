---- MODULE MCProfiles ----
(***************************************************************************)
(* Three invocations over two profile names.  Writers of fields and of the *)
(* global config run together; create, delete and rename run beside the    *)
(* first-run hint only, as the code asks of its users.                     *)
(***************************************************************************)
EXTENDS Profiles

C(op, name, to) == [op |-> op, name |-> name, to |-> to]

MCNames == {"default", "dev"}
MCRoots == {{}, {"default"}, {"default", "dev"}}

WriterCommands == {C(op, "default", "default") : op \in Writers}
FirstRun == {C("resolve", "default", "default"), C("set", "dev", "dev")}
ProfileCommands ==
  {C("create", "dev", "dev"), C("use", "dev", "dev"), C("delete", "default", "default"),
   C("rename", "default", "dev")}
Hint == C("hint", "default", "default")

MCPlans ==
  [Procs -> WriterCommands \union {Hint}] \union
  [Procs -> FirstRun \union {Hint}] \union
  [Procs -> ProfileCommands \union {Hint}]

Shared == Writers \union {"resolve", "use"}
MCTogether == {{a, b} : a, b \in Shared} \union {{a, "hint"} : a \in Ops}
====
