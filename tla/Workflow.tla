------------------------------ MODULE Workflow ------------------------------
(***************************************************************************)
(* The workflow engine: compile_workflow's rules, the executor that drives *)
(* a compiled workflow through gather, review, confirm, dispatch, capture  *)
(* and finalisation, the review form that collects a step's fields, and    *)
(* the phase driver that classifies and reports the run.                   *)
(*                                                                         *)
(* A value is abstracted to where it came from ("flag", "default", "form", *)
(* "prompt", "edit", "literal", "body"), "null" is a JSON null that counts *)
(* as supplied, and "unset" is no value.  A step is known by its position, *)
(* so step ids are unique, and it declares at most one output.  The user,  *)
(* the API and the local actions answer in any way their interface allows. *)
(***************************************************************************)
EXTENDS Naturals, Sequences, FiniteSets

CONSTANTS
    Fields,        \* the fields of a step's operation
    Inputs,        \* the names a workflow may declare as inputs
    Definitions,   \* the workflow definitions to run
    Options,       \* the invocations: surface, --yes, --no-input, --dry-run
    MaxRetries     \* bound: how often a user answers Retry at one step

ASSUME RetriesAssumption == MaxRetries \in Nat

\* What a workflow file can say before it is compiled, and a command line.
Flags == {"confirm", "optional", "tolerant", "skip_if_exists"}
ASSUME ShapeAssumption ==
    /\ IsFiniteSet(Inputs)
    /\ Definitions \subseteq
         [inputs : [Inputs -> {"undeclared", "required", "optional", "default"}],
          briefing : BOOLEAN,
          steps : Seq([kind : {"api", "local"}, flags : SUBSET Flags, reviewed : BOOLEAN,
                       required : SUBSET Fields, shown : SUBSET Fields,
                       out : {"none", "plain", "default"},
                       bind : [Fields -> [from : {"none", "literal", "input", "format",
                                                  "step", "mirror"},
                                          of : Fields \cup Inputs, step : Nat]]])]
    /\ Options \subseteq [surface : {"rich", "plain"}, yes : BOOLEAN, noInput : BOOLEAN,
                         dryRun : BOOLEAN]

VARIABLES
    def,        \* the definition, then the compiled workflow
    opt,        \* RunOptions
    pc,         \* the stage of the run
    flagged,    \* the declared inputs given as flags (flag_names)
    supplied,   \* workflow_supplied
    byDefault,  \* default_added
    mode,       \* run_mode
    at,         \* index of the running step
    local,      \* step_local
    captures,   \* WorkflowContext.captures, one output per step
    binary,     \* WorkflowContext.binary_outputs
    request,    \* the assembled request of the running step
    attempts,   \* dispatch attempts of the running step
    attempt,    \* the error and stage of the last attempt
    facts,      \* RunFacts
    asked,      \* the interactive prompts shown so far
    outcome,    \* run_outcome
    exit        \* the invocation outcome, once classified

runVars == <<flagged, supplied, byDefault, mode>>
stepVars == <<local, request, attempts, attempt>>
vars == <<def, opt, pc, runVars, at, stepVars, captures, binary, facts,
          asked, outcome, exit>>

-----------------------------------------------------------------------------
(* Definitions and compile_workflow.                                       *)

Declared(name) == name \in Inputs /\ def.inputs[name] # "undeclared"
Steps == DOMAIN def.steps
Bound(s, f) == s.bind[f].from # "none"
ReadsInput(s, f) == s.bind[f].from \in {"input", "format"}

\* Rule 1b: a local step takes none of the flow-control flags.
ValidateStepKinds ==
    \A i \in Steps : def.steps[i].kind = "local" => def.steps[i].flags = {}

\* Rule 3: a reference to a step names an earlier one that declares the output.
ValidateStepOutputReferences ==
    \A i \in Steps : \A f \in Fields :
        def.steps[i].bind[f].from = "step" =>
            /\ def.steps[i].bind[f].step \in 1..(i - 1)
            /\ def.steps[def.steps[i].bind[f].step].out # "none"

\* Rules 4 and 4b: a workflow reference or placeholder names a declared input.
ValidateWorkflowReferences ==
    \A i \in Steps : \A f \in Fields :
        ReadsInput(def.steps[i], f) => Declared(def.steps[i].bind[f].of)

\* Rule 4d: a mirror has no review row and targets a non-mirror of its step.
ValidateMirrorBindings ==
    \A i \in Steps : \A f \in Fields :
        LET s == def.steps[i] IN
        s.bind[f].from = "mirror" =>
            /\ f \notin s.shown
            /\ s.bind[f].of \in Fields \ {f}
            /\ s.bind[s.bind[f].of].from \notin {"none", "mirror"}

\* Mutant: the rule forgets skip_if_exists.
SkippableRuleForgetsExists ==
    \A i \in Steps : def.steps[i].flags \cap {"optional", "tolerant"} # {}
                        => def.steps[i].out # "plain"

\* Every step that may be skipped gives its output a default.
ValidateSkippableOutputsHaveDefaults ==
    \A i \in Steps :
        def.steps[i].flags \cap {"optional", "tolerant", "skip_if_exists"} # {}
            => def.steps[i].out # "plain"

\* A local step binds every required input of its action.
ValidateLocalInputs ==
    \A i \in Steps : def.steps[i].kind = "local" =>
        \A f \in def.steps[i].required : Bound(def.steps[i], f)

CompileWorkflow ==
    /\ ValidateStepKinds
    /\ ValidateStepOutputReferences
    /\ ValidateWorkflowReferences
    /\ ValidateMirrorBindings
    /\ ValidateSkippableOutputsHaveDefaults
    /\ ValidateLocalInputs

\* The required fields no binding covers; one with a declared input of its
\* name auto-binds to it, the others are collected for the step alone.
AutoDerived(s) ==
    IF s.kind = "local" THEN {} ELSE {f \in s.required : ~Bound(s, f)}

-----------------------------------------------------------------------------
(* Resolution.                                                             *)

NeededInputs(s, sup) ==
    {n \in Inputs : sup[n] = "unset" /\
        \/ \E f \in Fields : ReadsInput(s, f) /\ s.bind[f].of = n
        \/ n \in AutoDerived(s) /\ Declared(n)}
NeededLocals(s) == {f \in AutoDerived(s) : ~Declared(f)}

ResolvePlain(s, f) ==
    CASE s.bind[f].from = "literal" -> "literal"
      [] s.bind[f].from \in {"input", "format"} -> supplied[s.bind[f].of]
      [] s.bind[f].from = "step" -> IF captures[s.bind[f].step] = "unset"
                                    THEN "error" ELSE captures[s.bind[f].step]
      [] OTHER -> "error"

\* Mutant: a mirror ignores its target's review edit.
MirrorIgnoresEdit(s, f) ==
    IF s.bind[f].from # "mirror" THEN ResolvePlain(s, f)
    ELSE ResolvePlain(s, s.bind[f].of)

\* A mirror takes its target's review edit, else its target's binding.
ResolveBinding(s, f) ==
    IF s.bind[f].from # "mirror" THEN ResolvePlain(s, f)
    ELSE IF local[s.bind[f].of] # "unset" THEN local[s.bind[f].of]
    ELSE ResolvePlain(s, s.bind[f].of)

ResolveFieldValue(s, f) ==
    IF local[f] # "unset" THEN local[f]
    ELSE IF Bound(s, f) THEN ResolveBinding(s, f)
    ELSE IF Declared(f) THEN supplied[f] ELSE "unset"

Stranded(s) == \E f \in Fields : ResolveFieldValue(s, f) = "error"
Missing(s) == {f \in s.required : ResolveFieldValue(s, f) = "unset"}

\* The provenance resolve_field_with_source reports for the review plan.
FieldSource(s, f) ==
    CASE s.bind[f].from \in {"literal", "mirror"} -> "literal"
      [] s.bind[f].from = "step" -> "prior"
      [] s.bind[f].from = "format" -> "derived"
      [] s.bind[f].from = "input" ->
            IF supplied[s.bind[f].of] = "unset" THEN "unset" ELSE "input"
      [] OTHER -> IF Declared(f) /\ supplied[f] # "unset" THEN "input" ELSE "unset"

\* Form::from_step_plan: the rows of the review form and the editable ones.
Rows(s) == {f \in Fields : FieldSource(s, f) = "literal" => f \in s.shown}
Editable(s) ==
    {f \in Rows(s) : /\ FieldSource(s, f) \in {"literal", "unset"}
                     /\ Bound(s, f) \/ ~Declared(f)}
\* Rows that keep all_required_filled false until they are filled.
Unfilled(s) ==
    {f \in Rows(s) \cap s.required : ResolveFieldValue(s, f) \in {"unset", "null"}}

-----------------------------------------------------------------------------
(* The executor's decisions.                                               *)

Step == def.steps[at]
ReviewSteps == ~opt.yes /\ ~opt.noInput
Is(flag) == flag \in Step.flags
SafelySkippable(s) == s.out # "plain"
OptionalUnconfirmed(s) == "optional" \in s.flags /\ "confirm" \notin s.flags

TakeReviewPath ==
    /\ ReviewSteps
    /\ Step.reviewed \/ OptionalUnconfirmed(Step)
    /\ mode # "run"

ShouldPause ==
    \/ OptionalUnconfirmed(Step)
    \/ mode = "every"
    \/ \E f \in Fields : \/ f \in Step.shown
                         \/ f \in Step.required /\ FieldSource(Step, f) = "unset"

\* Mutant: the precheck simulates declared inputs only.
PrecheckInputsOnly(sup) ==
    \A i \in Steps : /\ NeededInputs(def.steps[i], sup) = {}
                      /\ "confirm" \in def.steps[i].flags => opt.dryRun \/ opt.yes

\* no_input_precheck: whatever a later gather or confirm would ask for.
NoInputPrecheck(sup) ==
    \A i \in Steps : LET s == def.steps[i] IN
        /\ NeededInputs(s, sup) = {}
        /\ NeededLocals(s) = {}
        /\ "confirm" \in s.flags => opt.dryRun \/ opt.yes

Seeded == [n \in Inputs |-> IF n \in flagged THEN "flag"
                            ELSE IF def.inputs[n] = "default" THEN "default"
                            ELSE "unset"]

NoFacts == [started |-> 0, success |-> 0, failed |-> 0, skipped |-> 0,
            cancelled |-> 0, prompted |-> 0]

\* Mutant: a cancelled step is not tallied.
EndStepUntallied(result, why) ==
    /\ facts' = IF result = "cancelled" THEN facts ELSE [facts EXCEPT ![result] = @ + 1]
    /\ attempt' = why
    /\ IF result \in {"success", "skipped"}
       THEN /\ pc' = "step" /\ at' = at + 1 /\ UNCHANGED outcome
       ELSE /\ pc' = "report" /\ outcome' = result /\ UNCHANGED at

\* tally_step_outcome and StepFinished: the step ends, and a failed or
\* cancelled one ends the run.
EndStep(result, why) ==
    /\ facts' = [facts EXCEPT ![result] = @ + 1]
    /\ attempt' = why
    /\ IF result \in {"success", "skipped"}
       THEN /\ pc' = "step" /\ at' = at + 1 /\ UNCHANGED outcome
       ELSE /\ pc' = "report" /\ outcome' = result /\ UNCHANGED at

\* skip_step: bind the output to its default, then finish as skipped; without
\* a default the error leaves execute through `?`.
SkipStep(why) ==
    IF SafelySkippable(Step)
    THEN /\ captures' = [captures EXCEPT ![at] = IF Step.out = "none"
                                                 THEN "unset" ELSE "default"]
         /\ EndStep("skipped", why)
    ELSE /\ pc' = "report" /\ outcome' = "escaped" /\ attempt' = "skip"
         /\ UNCHANGED <<captures, facts, at>>

\* An error that leaves execute through `?`: no StepFinished, no
\* WorkflowFinished.
Escape(why) ==
    /\ pc' = "report" /\ outcome' = "escaped" /\ attempt' = why
    /\ UNCHANGED <<captures, facts, at>>

-----------------------------------------------------------------------------
(* The run.                                                                *)

Init ==
    /\ def \in Definitions
    /\ opt \in Options
    /\ flagged \in SUBSET {n \in Inputs : Declared(n)}
    /\ pc = "compile"
    /\ supplied = [n \in Inputs |-> "unset"]
    /\ byDefault = {}
    /\ mode = "inputs"
    /\ at = 1
    /\ local = [f \in Fields |-> "unset"]
    /\ captures = [i \in DOMAIN def.steps |-> "unset"]
    /\ binary = {}
    /\ request = local
    /\ attempts = 0
    /\ attempt = "none"
    /\ facts = NoFacts
    /\ asked = {}
    /\ outcome = "success"
    /\ exit = "none"

\* route_workflow_run compiles before anything runs.
Compile ==
    /\ pc = "compile"
    /\ pc' = IF CompileWorkflow THEN "seed" ELSE "rejected"
    /\ UNCHANGED <<def, opt, binary, runVars, at, stepVars, captures, facts, asked,
                   outcome, exit>>

\* Phase 0: flags, then defaults, then the --no-input precheck.
Seed ==
    /\ pc = "seed"
    /\ supplied' = Seeded
    /\ byDefault' = {n \in Inputs : Seeded[n] = "default"}
    /\ IF opt.noInput /\ ~NoInputPrecheck(Seeded)
       THEN pc' = "report" /\ outcome' = "escaped" /\ attempt' = "no_input"
       ELSE pc' = "briefing" /\ UNCHANGED <<outcome, attempt>>
    /\ UNCHANGED <<def, opt, binary, flagged, mode, at, local, request, attempts,
                   captures, facts, asked, exit>>

Stop(result, why) ==
    /\ pc' = "report" /\ outcome' = result /\ attempt' = why

\* Phase 0.5: the briefing, unless --yes; only the terminal surfaces show it.
PresentBriefing ==
    /\ pc = "briefing"
    /\ IF def.briefing /\ ~opt.yes /\ opt.surface = "rich"
       THEN /\ asked' = asked \cup {"briefing"}
            /\ \/ pc' = "collect" /\ UNCHANGED <<outcome, attempt>>
               \/ Stop("cancelled", "at_briefing")
               \/ Stop("failed", "briefing")
       ELSE pc' = "collect" /\ UNCHANGED <<asked, outcome, attempt>>
    /\ UNCHANGED <<def, opt, binary, runVars, at, local, request, attempts, captures,
                   facts, exit>>

\* collect_workflow_inputs: what each surface's form or prompts may return.
Collected(sup) ==
    /\ sup \in [Inputs -> {"unset", "flag", "default", "form"}]
    /\ \A n \in Inputs :
        /\ ~Declared(n) => sup[n] = supplied[n]
        /\ sup[n] \in {"flag", "default"} => sup[n] = supplied[n]
        /\ Declared(n) /\ def.inputs[n] = "required" => sup[n] # "unset"
        /\ opt.surface = "plain" /\ sup[n] = "unset" => supplied[n] = "unset"
    /\ opt.surface = "plain" /\ (\A n \in Inputs : Declared(n) => supplied[n] # "unset")
        => sup = supplied

\* The provenance counts, computed whatever the gather answered.
CountPrompted(sup) ==
    Cardinality({n \in Inputs : /\ Declared(n) /\ sup[n] # "unset"
                                /\ n \notin flagged \cup byDefault})

\* Phase 1: the declared inputs, once; the answer replaces them.
CollectWorkflowInputs ==
    /\ pc = "collect"
    /\ IF ReviewSteps /\ \E n \in Inputs : Declared(n)
       THEN /\ asked' = IF opt.surface = "rich" \/ \E n \in Inputs :
                             Declared(n) /\ supplied[n] = "unset"
                        THEN asked \cup {"collect"} ELSE asked
            /\ \/ /\ \E sup \in [Inputs -> {"unset", "flag", "default", "form"}] :
                        Collected(sup) /\ supplied' = sup
                  /\ mode' \in IF opt.surface = "plain" THEN {"inputs"}
                               ELSE {"inputs", "every", "run"}
                  /\ facts' = [facts EXCEPT !.prompted = CountPrompted(supplied')]
                  /\ pc' = "step" /\ UNCHANGED <<outcome, attempt>>
               \/ /\ opt.surface = "rich" /\ Stop("cancelled", "at_input_gather")
                  /\ UNCHANGED <<supplied, mode, facts>>
               \/ /\ Stop("failed", "collect")
                  /\ UNCHANGED <<supplied, mode, facts>>
       ELSE /\ pc' = "step"
            /\ UNCHANGED <<supplied, mode, facts, asked, outcome, attempt>>
    /\ UNCHANGED <<def, opt, binary, flagged, byDefault, at, local, request, attempts,
                   captures, exit>>

\* The top of the step loop.
StartStep ==
    /\ pc = "step" /\ at \in Steps
    /\ facts' = [facts EXCEPT !.started = @ + 1]
    /\ local' = [f \in Fields |-> "unset"]
    /\ attempts' = 0
    /\ pc' = IF Step.kind = "local" THEN "local" ELSE "schema"
    /\ UNCHANGED <<def, opt, binary, runVars, at, request, attempt, captures, asked,
                   outcome, exit>>

\* Local step: resolve the bindings; a resolution error is fatal.
ResolveLocal ==
    /\ pc = "local"
    /\ IF Stranded(Step)
       THEN EndStep("failed", "stranded") /\ UNCHANGED request
       ELSE /\ pc' = "dispatch"
            /\ request' = [f \in Fields |-> ResolveFieldValue(Step, f)]
            /\ UNCHANGED <<facts, at, attempt, outcome>>
    /\ UNCHANGED <<def, opt, binary, runVars, local, attempts, captures, asked, exit>>

LoadSchema ==
    /\ pc = "schema"
    /\ \/ pc' = "inputs" /\ UNCHANGED <<facts, at, attempt, outcome>>
       \/ EndStep("failed", "schema_load")
    /\ UNCHANGED <<def, opt, binary, runVars, local, request, attempts, captures, asked,
                   exit>>

\* The review plan: a broken reference leaves execute through `?`.
PlanReview ==
    /\ pc = "inputs" /\ TakeReviewPath
    /\ IF Stranded(Step) THEN Escape("plan")
       ELSE /\ pc' = IF ShouldPause THEN "review" ELSE "assemble"
            /\ UNCHANGED <<captures, facts, at, attempt, outcome>>
    /\ UNCHANGED <<def, opt, binary, runVars, local, request, attempts, asked, exit>>

\* review_step.  The terminal form submits only when every required row is
\* filled and returns edits of its editable rows; the plain surface keeps the
\* trait's default: proceed, no edits, nothing shown.
ReviewStep ==
    /\ pc = "review"
    /\ asked' = IF opt.surface = "rich" THEN asked \cup {"review"} ELSE asked
    /\ \/ /\ \E edits \in SUBSET Editable(Step) :
                /\ IF opt.surface = "rich" THEN Unfilled(Step) \subseteq edits
                   ELSE edits = {}
                /\ local' = [f \in Fields |-> IF f \in edits THEN "edit" ELSE local[f]]
          /\ pc' = "assemble" /\ UNCHANGED <<captures, facts, at, attempt, outcome>>
       \/ /\ opt.surface = "rich" /\ UNCHANGED local
          /\ \/ Is("optional") /\ SkipStep("declined_at_review")
             \/ ~Is("optional") /\ EndStep("failed", "frontend_contract")
                /\ UNCHANGED captures
             \/ EndStep("cancelled", "at_review") /\ UNCHANGED captures
             \/ EndStep("failed", "gather") /\ UNCHANGED captures
    /\ UNCHANGED <<def, opt, binary, runVars, request, attempts, exit>>

\* gather_workflow_inputs: only what is missing.  Required slots come back
\* filled; an empty optional one comes back null from plain prompts and not
\* at all from a form.
GatherInputs ==
    /\ pc = "inputs" /\ ~TakeReviewPath
    /\ LET need == NeededInputs(Step, supplied)
           locals == NeededLocals(Step)
       IN IF need \cup locals = {}
          THEN /\ pc' = "assemble"
               /\ UNCHANGED <<supplied, local, asked, facts, at, attempt, outcome>>
          ELSE /\ asked' = asked \cup {"gather"}
               /\ \/ /\ \E blank \in SUBSET {n \in need : def.inputs[n] = "optional"} :
                           supplied' = [n \in Inputs |->
                               IF n \notin need THEN supplied[n]
                               ELSE IF n \notin blank THEN "prompt"
                               ELSE IF opt.surface = "plain" THEN "null" ELSE "unset"]
                     /\ local' = [f \in Fields |->
                                    IF f \in locals THEN "prompt" ELSE local[f]]
                     /\ pc' = "assemble" /\ UNCHANGED <<facts, at, attempt, outcome>>
                  \/ EndStep("failed", "gather") /\ UNCHANGED <<supplied, local>>
    /\ UNCHANGED <<def, opt, binary, flagged, byDefault, mode, request, attempts,
                   captures, exit>>

\* assemble_command_request.
AssembleRequest ==
    /\ pc = "assemble"
    /\ IF Stranded(Step) THEN EndStep("failed", "stranded") /\ UNCHANGED request
       ELSE IF Missing(Step) # {} THEN EndStep("failed", "assembly") /\ UNCHANGED request
       ELSE /\ request' = [f \in Fields |-> ResolveFieldValue(Step, f)]
            /\ pc' = "confirm" /\ UNCHANGED <<facts, at, attempt, outcome>>
    /\ UNCHANGED <<def, opt, binary, runVars, local, attempts, captures, asked, exit>>

\* The confirmation gate.
ConfirmStep ==
    /\ pc = "confirm"
    /\ IF Is("confirm") /\ ~opt.yes /\ ~opt.dryRun
       THEN \/ EndStep("failed", "preview") /\ UNCHANGED <<captures, asked>>
            \/ /\ asked' = asked \cup {"confirm"}
               /\ \/ pc' = "dispatch"
                     /\ UNCHANGED <<captures, facts, at, attempt, outcome>>
                  \/ Is("optional") /\ SkipStep("declined_at_confirm")
                  \/ ~Is("optional") /\ EndStep("failed", "frontend_contract")
                     /\ UNCHANGED captures
                  \/ EndStep("cancelled", "at_confirm") /\ UNCHANGED captures
                  \/ EndStep("failed", "confirm") /\ UNCHANGED captures
       ELSE pc' = "dispatch" /\ UNCHANGED <<captures, facts, at, attempt, outcome, asked>>
    /\ UNCHANGED <<def, opt, binary, runVars, local, request, attempts, exit>>

\* --dry-run: synthesised outputs, no dispatch.
DryRunStep ==
    /\ pc = "dispatch" /\ opt.dryRun
    /\ attempts' = 1
    /\ \/ /\ captures' = [captures EXCEPT ![at] = IF Step.out = "none"
                                                  THEN "unset" ELSE "body"]
          /\ EndStep("success", "none")
       \/ EndStep("failed", "preview") /\ UNCHANGED captures
    /\ UNCHANGED <<def, opt, binary, runVars, local, request, asked, exit>>

\* bind_step_outputs on a body that has the captured path or not.
BindStepOutputs(found) ==
    IF Step.out = "plain" /\ ~found
    THEN pc' = "attempt_failed" /\ attempt' = "capture"
         /\ UNCHANGED <<captures, facts, at, outcome>>
    ELSE /\ captures' = [captures EXCEPT ![at] =
                           IF Step.out = "none" THEN "unset"
                           ELSE IF found THEN "body" ELSE "default"]
         /\ EndStep("success", "none")

\* One attempt: run_command, or the local action's run.
Dispatch ==
    /\ pc = "dispatch" /\ ~opt.dryRun
    /\ attempts' = attempts + 1
    /\ \/ (\E found \in BOOLEAN : BindStepOutputs(found)) /\ UNCHANGED binary
       \/ /\ Step.kind = "api" /\ EndStep("success", "binary")
          /\ binary' = binary \cup {at} /\ UNCHANGED captures
       \/ /\ pc' = "attempt_failed"
          /\ attempt' \in {"dispatch"} \cup
                IF Step.kind = "api" THEN {"exists", "frontend_contract"} ELSE {}
          /\ UNCHANGED <<captures, binary, facts, at, outcome>>
    /\ UNCHANGED <<def, opt, runVars, local, request, asked, exit>>

\* decide_step_failure: tolerate, already exists, unattended, then the gate.
DecideStepFailure ==
    /\ pc = "attempt_failed"
    /\ IF Is("tolerant") THEN SkipStep("tolerated_failure") /\ UNCHANGED asked
       ELSE IF Is("skip_if_exists") /\ attempt = "exists"
       THEN SkipStep("already_exists") /\ UNCHANGED asked
       ELSE IF opt.noInput
       THEN EndStep("failed", attempt) /\ UNCHANGED <<captures, asked>>
       ELSE /\ asked' = asked \cup {"failure"}
            /\ \/ /\ attempts <= MaxRetries /\ pc' = "dispatch"
                  /\ UNCHANGED <<captures, facts, at, attempt, outcome>>
               \/ SafelySkippable(Step) /\ SkipStep("declined_after_failure")
               \/ ~SafelySkippable(Step) /\ EndStep("failed", "frontend_contract")
                  /\ UNCHANGED captures
               \/ EndStep("failed", "at_failure_gate") /\ UNCHANGED captures
               \/ Escape("gate")
    /\ UNCHANGED <<def, opt, binary, runVars, local, request, attempts, exit>>

\* Mutant: a run with a skipped step never finishes.
FinishNeedsSuccess ==
    /\ pc = "step" /\ at \notin Steps /\ facts.success = Len(def.steps)
    /\ pc' = "report"
    /\ UNCHANGED <<def, opt, binary, runVars, at, stepVars, captures, facts, asked,
                   outcome, exit>>

\* The step loop ran to its end.
FinishWorkflow ==
    /\ pc = "step" /\ at \notin Steps
    /\ pc' = "report"
    /\ UNCHANGED <<def, opt, binary, runVars, at, stepVars, captures, facts, asked,
                   outcome, exit>>

\* drive_run classifies, run_phase_owned_execution renders; a render or
\* teardown failure turns success into an error exit.
Report ==
    /\ pc = "report"
    /\ pc' = "done"
    /\ exit' \in CASE outcome = "success" -> {"complete", "error"}
                   [] outcome = "cancelled" -> {"cancelled"}
                   [] OTHER -> {"error"}
    /\ UNCHANGED <<def, opt, binary, runVars, at, stepVars, captures, facts, asked, outcome>>

Next ==   \/ Compile \/ Seed \/ PresentBriefing \/ CollectWorkflowInputs
          \/ StartStep \/ ResolveLocal \/ LoadSchema \/ PlanReview \/ ReviewStep
          \/ GatherInputs \/ AssembleRequest \/ ConfirmStep \/ DryRunStep
          \/ Dispatch \/ DecideStepFailure \/ FinishWorkflow \/ Report

Spec == Init /\ [][Next]_vars

\* The user may leave a prompt unanswered for ever: only a run without input
\* is sure to go on, its calls end by their own timeouts.
Fairness == WF_vars(opt.noInput /\ asked = {} /\ Next)
FairSpec == Spec /\ Fairness

-----------------------------------------------------------------------------
(* Properties.                                                             *)

\* When a step's fields are resolved, every output it references was bound,
\* captured or by a skip's default, unless its source wrote a binary body; and
\* no skip ever fails for want of a default.  It rests on the compile rules,
\* on is_safely_skippable and on every skip path binding the output.
NoStrandedReference ==
    /\ attempt # "skip"
    /\ pc \in {"inputs", "assemble", "local"} =>
        \A f \in Fields : Step.bind[f].from = "step" =>
            \/ captures[Step.bind[f].step] # "unset"
            \/ Step.bind[f].step \in binary

\* A mirrored field is sent with the value of its target, also after the user
\* edited the target in the review form.
MirrorAgrees ==
    pc \in {"confirm", "dispatch", "attempt_failed"} =>
        \A f \in Fields : Step.bind[f].from = "mirror" =>
            request[f] = request[Step.bind[f].of]

\* The aggregate of a run that reached WorkflowFinished accounts for every
\* step it started, and an invocation that exits complete ran or skipped all.
FactsBalance ==
    /\ pc \in {"report", "done"} /\ outcome # "escaped" =>
        facts.started = facts.success + facts.failed + facts.skipped + facts.cancelled
    /\ exit = "complete" =>
        facts.success + facts.skipped = Len(def.steps)

\* With --no-input nothing is gathered, collected, reviewed or confirmed and
\* no failure gate is shown: what the precheck simulates before the first step
\* is all that the run could ask.  (The briefing is the exception.)
NoGateUnattended == opt.noInput => asked \subseteq {"briefing"}

\* README: "`--no-input` | Disable all interactive prompts".
NoPromptUnattended == opt.noInput => asked = {}

\* An unattended run that is shown no briefing comes to an end.
UnattendedEnds ==
    (opt.noInput /\ (def.briefing => opt.yes \/ opt.surface = "plain"))
        ~> pc \in {"done", "rejected"}
=============================================================================
