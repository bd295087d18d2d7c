----------------------------- MODULE MCWorkflow -----------------------------
(***************************************************************************)
(* Small workflows for TLC: two-step ones around skips and step references *)
(* and one-step ones around input resolution, review and mirrors.          *)
(***************************************************************************)
EXTENDS Workflow

FromNothing == [from |-> "none", of |-> "f", step |-> 0]
Literal == [from |-> "literal", of |-> "f", step |-> 0]
FromStep(i) == [from |-> "step", of |-> "f", step |-> i]
FromInput(how) == [from |-> how, of |-> "x", step |-> 0]
MirrorOf(f) == [from |-> "mirror", of |-> f, step |-> 0]

Plain == [kind |-> "api", flags |-> {}, reviewed |-> TRUE, required |-> {},
          shown |-> {}, out |-> "none",
          bind |-> [f \in {"f", "g"} |-> FromNothing]]
Def(inputs, briefing, steps) ==
    [inputs |-> inputs, briefing |-> briefing, steps |-> steps]
NoInputs == [n \in {"f", "x"} |-> "undeclared"]

\* A producer that may fail or be skipped, and a consumer of its output.
Producers ==
    {[Plain EXCEPT !.kind = k, !.flags = fl, !.out = o, !.reviewed = FALSE] :
        k \in {"api", "local"}, fl \in SUBSET Flags, o \in {"none", "plain", "default"}}
Consumers ==
    {[Plain EXCEPT !.kind = k, !.required = {"f"},
                   !.bind = [@ EXCEPT !["f"] = FromStep(1)]] : k \in {"api", "local"}}
References ==
    {Def(NoInputs, FALSE, <<p, c>>) : p \in Producers, c \in Consumers}

\* One step, its fields bound in every way, its inputs declared in every way.
Resolvers ==
    {[Plain EXCEPT !.kind = k, !.reviewed = r, !.required = q,
                   !.shown = sh, !.bind = [f |-> b, g |-> c]] :
        k \in {"api", "local"}, r \in BOOLEAN,
        q \in {{}, {"f", "g"}}, sh \in {{}, {"f", "g"}},
        b \in {FromNothing, Literal, FromInput("input"), FromInput("format")},
        c \in {FromNothing, MirrorOf("f")}}
Declarations ==
    {[f |-> "undeclared", x |-> how] : how \in {"required", "optional", "default"}}
    \cup {[f |-> "optional", x |-> "optional"]}
Resolutions ==
    {Def(d, FALSE, <<s>>) : d \in Declarations, s \in Resolvers}
Briefed == {Def(NoInputs, TRUE, <<Plain>>)}

MCDefinitions == References \cup Resolutions \cup Briefed

Run(surface, yes, noInput, dryRun) ==
    [surface |-> surface, yes |-> yes, noInput |-> noInput, dryRun |-> dryRun]
MCOptions ==
    {Run("rich", FALSE, FALSE, FALSE), Run("plain", FALSE, FALSE, FALSE),
     Run("plain", TRUE, FALSE, FALSE), Run("rich", FALSE, TRUE, FALSE),
     Run("plain", TRUE, TRUE, FALSE), Run("plain", FALSE, TRUE, TRUE)}
=============================================================================
