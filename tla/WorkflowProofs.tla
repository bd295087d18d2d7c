--------------------------- MODULE WorkflowProofs ---------------------------
(***************************************************************************)
(* Proofs about Workflow: for every set of workflow definitions, of any    *)
(* number of steps, fields and inputs, every invocation, every answer of   *)
(* the user and the API, and any limit on retries.                         *)
(***************************************************************************)
EXTENDS Workflow, FiniteSetTheorems, TLAPS

\* The stages before the first step, and those inside a step.
Early == {"compile", "rejected", "seed", "briefing", "collect"}
Busy == {"local", "schema", "inputs", "review", "assemble", "confirm", "dispatch",
         "attempt_failed"}
Over == {"report", "done"}

\* The type of what the proofs compute with.
Typed ==
  /\ def \in Definitions /\ opt \in Options
  /\ pc \in Early \union Busy \union Over \union {"step"}
  /\ at \in Nat
  /\ captures \in [Steps -> {"unset", "default", "body"}]
  /\ facts \in [started : Nat, success : Nat, failed : Nat, skipped : Nat,
                cancelled : Nat, prompted : Nat]

\* Only a compiled workflow runs.
Compiled == pc \notin {"compile", "rejected"} => CompileWorkflow

\* The tally follows the step loop: every step before the running one was
\* counted once, as a success or a skip, and only the last can end otherwise.
Tally ==
  /\ pc \in Early => at = 1 /\ facts.started = 0
  /\ pc = "step" => at \in 1..(Len(def.steps) + 1) /\ facts.started = at - 1
  /\ pc \in Busy => at \in 1..Len(def.steps) /\ facts.started = at
  /\ pc \in Early \union Busy \union {"step"} =>
       facts.success + facts.skipped = at - 1 /\ facts.failed = 0 /\ facts.cancelled = 0
  /\ pc \in Over /\ outcome # "escaped" =>
       facts.started = facts.success + facts.failed + facts.skipped + facts.cancelled
  /\ pc \in Over /\ outcome = "success" => facts.success + facts.skipped = Len(def.steps)
  /\ exit = "complete" => pc = "done" /\ outcome = "success"

\* The output of every step before the running one is there, unless that step
\* wrote a binary body.
Captured ==
  pc \in Busy \union {"step"} =>
    \A i \in 1..Len(def.steps) : i < at /\ def.steps[i].out # "none" =>
      captures[i] # "unset" \/ i \in binary

\* No skip fails for want of a default.
SkipsSucceed == attempt # "skip"

\* A mirror has no row in the review form and is not gathered: it has no value
\* of its own.
MirrorsUnedited ==
  pc \in Busy => \A f \in Fields : Step.bind[f].from = "mirror" => local[f] = "unset"

\* What an unattended run needs, it has from the start.
Prechecked ==
  opt.noInput =>
    /\ pc # "review"
    /\ pc \in Busy \union {"briefing", "collect", "step"} => NoInputPrecheck(supplied)

Inv ==
  /\ Typed /\ Compiled /\ Tally /\ Captured /\ SkipsSucceed /\ MirrorsUnedited /\ MirrorAgrees
  /\ Prechecked /\ NoGateUnattended

----------------------------------------------------------------------------
(* Facts about the definition, which no step changes.                      *)

\* The steps of a workflow are numbered from 1.
LEMMA StepNumbers ==
  ASSUME Typed
  PROVE  Len(def.steps) \in Nat /\ Steps = 1..Len(def.steps)
<1>1. def \in Definitions BY DEF Typed
<1> DEFINE Shape == [kind : {"api", "local"}, flags : SUBSET Flags, reviewed : BOOLEAN,
                     required : SUBSET Fields, shown : SUBSET Fields,
                     out : {"none", "plain", "default"},
                     bind : [Fields -> [from : {"none", "literal", "input", "format",
                                                "step", "mirror"},
                                        of : Fields \cup Inputs, step : Nat]]]
<1> HIDE DEF Shape
<1>2. def.steps \in Seq(Shape) BY <1>1, ShapeAssumption DEF Shape
<1>3. QED BY <1>2 DEF Steps

\* A workflow that compiled stays compiled.
LEMMA CompileKept ==
  ASSUME def' = def, CompileWorkflow PROVE CompileWorkflow'
  BY DEF CompileWorkflow, ValidateStepKinds, ValidateStepOutputReferences,
         ValidateWorkflowReferences, ValidateMirrorBindings,
         ValidateSkippableOutputsHaveDefaults, ValidateLocalInputs, Steps, Bound, ReadsInput,
         Declared

\* The precheck depends on the definition, the options and the inputs given.
LEMMA PrecheckKept ==
  ASSUME UNCHANGED <<def, opt, supplied>>, NoInputPrecheck(supplied)
  PROVE  NoInputPrecheck(supplied)'
  BY DEF NoInputPrecheck, NeededInputs, NeededLocals, AutoDerived, ReadsInput, Declared, Bound,
         Steps

\* A step with a flag that lets it be skipped gives its output a default.
LEMMA SkippableHasDefault ==
  ASSUME Typed, Compiled, Tally, pc \in Busy,
         Is("optional") \/ Is("tolerant") \/ Is("skip_if_exists")
  PROVE  SafelySkippable(Step)
<1>1. CompileWorkflow BY DEF Compiled, Busy
<1>2. at \in Steps BY StepNumbers DEF Tally
<1>3. QED BY <1>1, <1>2 DEF CompileWorkflow, ValidateSkippableOutputsHaveDefaults, Is, Step,
                            SafelySkippable

----------------------------------------------------------------------------
(* The four ways a stage of a step ends.                                   *)

\* It goes on to another stage of the same step.
LEMMA MoveInv ==
  ASSUME Inv, pc \in Busy, pc' \in Busy,
         UNCHANGED <<def, opt, at, facts, captures, binary, outcome, exit>>, attempt' # "skip",
         \A f \in Fields : Step.bind[f].from = "mirror" => local'[f] = "unset",
         MirrorAgrees',
         opt.noInput => supplied' = supplied /\ pc' # "review" /\ asked' = asked
  PROVE  Inv'
<1> USE DEF Inv
<1>1. Typed' BY DEF Typed, Steps
<1>2. Compiled' BY CompileKept DEF Compiled, Busy
<1>3. Tally' BY DEF Tally, Busy, Early, Over
<1>4. Captured' BY DEF Captured
<1>5. SkipsSucceed' BY DEF SkipsSucceed
<1>6. MirrorsUnedited' BY DEF MirrorsUnedited, Step
<1>7. Prechecked' BY PrecheckKept DEF Prechecked
<1>8. NoGateUnattended' BY DEF NoGateUnattended
<1>9. QED BY <1>1, <1>2, <1>3, <1>4, <1>5, <1>6, <1>7, <1>8

\* The step ends, tallied.
LEMMA EndStepInv ==
  ASSUME Inv, pc \in Busy, NEW result \in {"success", "failed", "skipped", "cancelled"},
         NEW why, why # "skip", EndStep(result, why),
         UNCHANGED <<def, opt, exit, supplied>>, binary \subseteq binary',
         captures' \in [Steps -> {"unset", "default", "body"}],
         \A i \in Steps : i # at => captures'[i] = captures[i],
         result \in {"success", "skipped"} =>
           Step.out = "none" \/ captures'[at] # "unset" \/ at \in binary',
         opt.noInput => asked' = asked
  PROVE  Inv'
<1> USE DEF Inv
<1>1. Len(def.steps) \in Nat /\ Steps = 1..Len(def.steps) BY StepNumbers
<1>2. /\ facts' = [facts EXCEPT ![result] = @ + 1] /\ attempt' = why
      /\ \/ pc' = "step" /\ at' = at + 1 /\ result \in {"success", "skipped"}
         \/ /\ pc' = "report" /\ outcome' = result /\ at' = at
            /\ result \in {"failed", "cancelled"}
  BY DEF EndStep
<1>3. at \in 1..Len(def.steps) /\ facts.started = at BY DEF Tally
<1>4. facts' \in [started : Nat, success : Nat, failed : Nat, skipped : Nat,
                  cancelled : Nat, prompted : Nat]
  BY <1>2 DEF Typed
<1>5. Typed'
  <2>1. pc' \in Early \union Busy \union Over \union {"step"} /\ at' \in Nat
    BY <1>2 DEF Over, Typed
  <2>2. Steps' = Steps BY DEF Steps
  <2>3. QED BY <1>4, <2>1, <2>2 DEF Typed
<1>6. Compiled' BY <1>2, CompileKept DEF Compiled, Busy
<1>7. Tally'
  <2>1. /\ facts.success + facts.skipped = at - 1 /\ facts.failed = 0 /\ facts.cancelled = 0
        /\ exit # "complete"
    BY DEF Tally, Busy
  <2>2. CASE pc' = "step" /\ at' = at + 1 /\ result \in {"success", "skipped"}
    <3>1. /\ facts'.success + facts'.skipped = at /\ facts'.failed = 0 /\ facts'.cancelled = 0
          /\ facts'.started = at
      BY <1>2, <1>3, <2>1, <2>2 DEF Typed
    <3>2. QED BY <1>1, <1>3, <2>1, <2>2, <3>1 DEF Tally, Early, Busy, Over
  <2>3. CASE pc' = "report" /\ outcome' = result /\ at' = at /\ result \in {"failed", "cancelled"}
    <3>1. /\ facts'.started = at
          /\ facts'.success + facts'.failed + facts'.skipped + facts'.cancelled = at
      BY <1>2, <1>3, <2>1, <2>3 DEF Typed
    <3>2. QED BY <2>1, <2>3, <3>1 DEF Tally, Early, Busy, Over
  <2>4. QED BY <1>2, <2>2, <2>3
<1>8. Captured'
  <2>1. CASE pc' = "report" BY <2>1 DEF Captured, Busy
  <2>2. CASE pc' = "step" /\ at' = at + 1 /\ result \in {"success", "skipped"}
    <3>1. SUFFICES ASSUME NEW i \in 1..Len(def.steps), i < at + 1, def.steps[i].out # "none"
                   PROVE  captures'[i] # "unset" \/ i \in binary'
      BY <2>2 DEF Captured
    <3>2. CASE i = at BY <2>2, <3>1, <3>2 DEF Step
    <3>3. CASE i # at
      <4>1. i < at BY <1>3, <3>1, <3>3
      <4>2. QED BY <1>1, <3>1, <3>3, <4>1 DEF Captured
    <3>4. QED BY <3>2, <3>3
  <2>3. QED BY <1>2, <2>1, <2>2
<1>9. SkipsSucceed' /\ MirrorsUnedited' /\ MirrorAgrees'
  BY <1>2 DEF SkipsSucceed, MirrorsUnedited, MirrorAgrees, Busy
<1>10. Prechecked'
  BY <1>2, PrecheckKept DEF Prechecked, Busy
<1>11. NoGateUnattended' BY DEF NoGateUnattended
<1>12. QED BY <1>5, <1>6, <1>7, <1>8, <1>9, <1>10, <1>11

\* The step fails or is cancelled: nothing is captured.
LEMMA FailStepInv ==
  ASSUME Inv, pc \in Busy, NEW result \in {"failed", "cancelled"},
         NEW why, why # "skip", EndStep(result, why),
         UNCHANGED <<def, opt, exit, supplied, binary, captures>>,
         opt.noInput => asked' = asked
  PROVE  Inv'
<1>1. captures' \in [Steps -> {"unset", "default", "body"}] BY DEF Inv, Typed
<1>2. QED BY <1>1, EndStepInv

\* The step is skipped and its output gets its default.
LEMMA SkipStepInv ==
  ASSUME Inv, pc \in Busy, SafelySkippable(Step), NEW why, why # "skip", SkipStep(why),
         UNCHANGED <<def, opt, exit, supplied, binary>>, opt.noInput => asked' = asked
  PROVE  Inv'
<1>1. /\ captures' = [captures EXCEPT ![at] = IF Step.out = "none" THEN "unset" ELSE "default"]
      /\ EndStep("skipped", why)
  BY DEF SkipStep
<1>2. captures \in [Steps -> {"unset", "default", "body"}] /\ at \in Steps
  BY StepNumbers DEF Inv, Typed, Tally
<1>3. /\ captures' \in [Steps -> {"unset", "default", "body"}]
      /\ \A i \in Steps : i # at => captures'[i] = captures[i]
      /\ Step.out = "none" \/ captures'[at] # "unset"
  BY <1>1, <1>2
<1>4. QED BY <1>1, <1>3, EndStepInv

\* An error leaves execute, untallied.
LEMMA EscapeInv ==
  ASSUME Inv, pc \notin Over \union {"rejected", "compile"}, pc' = "report", outcome' = "escaped",
         attempt' # "skip",
         UNCHANGED <<def, opt, captures, facts, at, exit>>, opt.noInput => asked' = asked
  PROVE  Inv'
<1> USE DEF Inv
<1>1. Typed' BY DEF Typed, Steps, Over
<1>2. Compiled' BY CompileKept DEF Compiled
<1>3. Tally' BY DEF Tally, Busy, Early, Over
<1>4. Captured' /\ SkipsSucceed' /\ MirrorsUnedited' /\ MirrorAgrees' /\ Prechecked'
  BY DEF Captured, SkipsSucceed, MirrorsUnedited, MirrorAgrees, Prechecked, Busy
<1>5. NoGateUnattended' BY DEF NoGateUnattended
<1>6. QED BY <1>1, <1>2, <1>3, <1>4, <1>5

\* Before the first step the run goes on, or ends with nothing started.
LEMMA EarlyInv ==
  ASSUME Inv, pc \in Early \ {"rejected"},
         pc' \in {"seed", "briefing", "collect", "step", "report"},
         UNCHANGED <<def, opt, at, captures, exit>>,
         NEW n \in Nat, facts' = [facts EXCEPT !.prompted = n],
         pc' = "report" => outcome' # "success", attempt' # "skip",
         CompileWorkflow,
         opt.noInput /\ pc' \notin {"seed", "report"} => NoInputPrecheck(supplied)',
         opt.noInput => asked' \subseteq {"briefing"}
  PROVE  Inv'
<1> USE DEF Inv
<1>1. Len(def.steps) \in Nat /\ Steps = 1..Len(def.steps) BY StepNumbers
<1>2. /\ facts' \in [started : Nat, success : Nat, failed : Nat, skipped : Nat,
                     cancelled : Nat, prompted : Nat]
      /\ facts'.started = facts.started /\ facts'.success = facts.success
      /\ facts'.failed = facts.failed /\ facts'.skipped = facts.skipped
      /\ facts'.cancelled = facts.cancelled
  BY DEF Typed
<1>3. Typed' BY <1>2 DEF Typed, Steps, Early, Over
<1>4. Compiled' BY CompileKept DEF Compiled
<1>5. Tally'
  <2>1. /\ at = 1 /\ facts.started = 0 /\ facts.success + facts.skipped = 0
        /\ facts.failed = 0 /\ facts.cancelled = 0 /\ exit # "complete"
    BY DEF Tally, Early
  <2>2. facts.success = 0 /\ facts.skipped = 0 BY <2>1 DEF Typed
  <2>3. QED BY <1>1, <1>2, <2>1, <2>2 DEF Tally, Early, Busy, Over
<1>6. Captured'
  BY <1>1 DEF Captured, Busy, Tally, Early
<1>7. SkipsSucceed' /\ MirrorsUnedited' /\ MirrorAgrees'
  BY DEF SkipsSucceed, MirrorsUnedited, MirrorAgrees, Busy
<1>8. Prechecked' BY DEF Prechecked, Busy
<1>9. NoGateUnattended' BY DEF NoGateUnattended
<1>10. QED BY <1>3, <1>4, <1>5, <1>6, <1>7, <1>8, <1>9

----------------------------------------------------------------------------
(* The run, action by action.                                              *)

\* The first state satisfies the invariant.
LEMMA InitInv == ASSUME Init PROVE Inv
<1>1. Typed
  BY DEF Init, Typed, Steps, Early, NoFacts
<1>2. Compiled /\ Captured /\ SkipsSucceed /\ MirrorsUnedited /\ MirrorAgrees
  BY DEF Init, Compiled, Captured, SkipsSucceed, MirrorsUnedited, MirrorAgrees, Busy
<1>3. Tally BY DEF Init, Tally, NoFacts, Early, Busy, Over
<1>4. Prechecked /\ NoGateUnattended BY DEF Init, Prechecked, NoGateUnattended, Busy
<1>5. QED BY <1>1, <1>2, <1>3, <1>4 DEF Inv

\* A tally whose prompted count stays is the same tally.
LEMMA SameFacts ==
  ASSUME Typed, facts' = facts
  PROVE  facts.prompted \in Nat /\ facts' = [facts EXCEPT !.prompted = facts.prompted]
  BY DEF Typed

\* compile_workflow accepts the workflow or rejects it.
LEMMA CompileInv == ASSUME Inv, Compile PROVE Inv'
<1> USE DEF Inv
<1>1. /\ pc = "compile"
      /\ UNCHANGED <<def, opt, binary, runVars, at, stepVars, captures, facts, asked,
                     outcome, exit>>
  BY DEF Compile
<1>2. asked' = asked /\ attempt' = attempt BY <1>1 DEF stepVars
<1>3. CASE CompileWorkflow
  <2>1. pc' = "seed" BY <1>3 DEF Compile
  <2>2. facts.prompted \in Nat /\ facts' = [facts EXCEPT !.prompted = facts.prompted]
    BY <1>1, SameFacts
  <2>3. pc \in Early \ {"rejected"} BY <1>1 DEF Early
  <2>4. opt.noInput => asked' \subseteq {"briefing"} BY <1>2 DEF NoGateUnattended
  <2>5. attempt' # "skip" BY <1>2 DEF SkipsSucceed
  <2>6. QED BY <1>1, <1>3, <2>1, <2>2, <2>3, <2>4, <2>5, EarlyInv
<1>4. CASE ~CompileWorkflow
  <2>1. pc' = "rejected" BY <1>4 DEF Compile
  <2>2. Typed' BY <1>1, <2>1 DEF Typed, Steps, Early
  <2>3. Tally' BY <1>1, <2>1 DEF Tally, Early, Busy, Over
  <2>4. Compiled' /\ Captured' /\ SkipsSucceed' /\ MirrorsUnedited' /\ MirrorAgrees'
    BY <1>2, <2>1 DEF Compiled, Captured, SkipsSucceed, MirrorsUnedited, MirrorAgrees, Busy
  <2>5. Prechecked' /\ NoGateUnattended'
    BY <1>1, <1>2, <2>1 DEF Prechecked, NoGateUnattended, Busy
  <2>6. QED BY <2>2, <2>3, <2>4, <2>5
<1>5. QED BY <1>3, <1>4

\* The precheck reads the inputs it is given and nothing a step changes.
LEMMA PrecheckSeeded ==
  ASSUME UNCHANGED <<def, opt>>, NEW sup, supplied' = sup, NoInputPrecheck(sup)
  PROVE  NoInputPrecheck(supplied)'
  BY DEF NoInputPrecheck, NeededInputs, NeededLocals, AutoDerived, ReadsInput, Declared, Bound,
         Steps

\* Phase 0 seeds the inputs and prechecks an unattended run.
LEMMA SeedInv == ASSUME Inv, Seed PROVE Inv'
<1> USE DEF Inv
<1>1. /\ pc = "seed" /\ supplied' = Seeded
      /\ UNCHANGED <<def, opt, at, captures, facts, asked, exit>>
  BY DEF Seed
<1>2. \/ /\ opt.noInput /\ ~NoInputPrecheck(Seeded)
         /\ pc' = "report" /\ outcome' = "escaped" /\ attempt' = "no_input"
      \/ /\ opt.noInput => NoInputPrecheck(Seeded)
         /\ pc' = "briefing" /\ attempt' = attempt
  BY DEF Seed
<1>3. facts.prompted \in Nat /\ facts' = [facts EXCEPT !.prompted = facts.prompted]
  BY <1>1, SameFacts
<1>4. pc \in Early \ {"rejected"} /\ CompileWorkflow BY <1>1 DEF Early, Compiled
<1>5. opt.noInput /\ pc' \notin {"seed", "report"} => NoInputPrecheck(supplied)'
  BY <1>1, <1>2, PrecheckSeeded
<1>6. attempt' # "skip" BY <1>2 DEF SkipsSucceed
<1>7. opt.noInput => asked' \subseteq {"briefing"} BY <1>1 DEF NoGateUnattended
<1>8. pc' \in {"briefing", "report"} /\ (pc' = "report" => outcome' # "success") BY <1>2
<1>9. QED BY <1>1, <1>3, <1>4, <1>5, <1>6, <1>7, <1>8, EarlyInv

\* The briefing is shown or not; it is the one thing an unattended run shows.
LEMMA PresentBriefingInv == ASSUME Inv, PresentBriefing PROVE Inv'
<1> USE DEF Inv
<1>1. /\ pc = "briefing" /\ UNCHANGED <<def, opt, supplied, at, captures, facts, exit>>
  BY DEF PresentBriefing, runVars
<1>2. /\ asked' = asked \/ asked' = asked \cup {"briefing"}
      /\ \/ pc' = "collect" /\ attempt' = attempt
         \/ pc' = "report" /\ outcome' # "success" /\ attempt' \in {"at_briefing", "briefing"}
  BY DEF PresentBriefing, Stop
<1>3. facts.prompted \in Nat /\ facts' = [facts EXCEPT !.prompted = facts.prompted]
  BY <1>1, SameFacts
<1>4. pc \in Early \ {"rejected"} /\ CompileWorkflow BY <1>1 DEF Early, Compiled
<1>5. opt.noInput => NoInputPrecheck(supplied)' BY <1>1, PrecheckKept DEF Prechecked
<1>6. attempt' # "skip" BY <1>2 DEF SkipsSucceed
<1>7. opt.noInput => asked' \subseteq {"briefing"} BY <1>1, <1>2 DEF NoGateUnattended
<1>8. pc' \in {"collect", "report"} /\ (pc' = "report" => outcome' # "success") BY <1>2
<1>9. QED BY <1>1, <1>3, <1>4, <1>5, <1>6, <1>7, <1>8, EarlyInv

\* Phase 1 collects the declared inputs, but not of an unattended run.
LEMMA CollectWorkflowInputsInv == ASSUME Inv, CollectWorkflowInputs PROVE Inv'
<1> USE DEF Inv
<1>1. /\ pc = "collect" /\ UNCHANGED <<def, opt, at, captures, exit>>
  BY DEF CollectWorkflowInputs
<1>2. pc \in Early \ {"rejected"} /\ CompileWorkflow BY <1>1 DEF Early, Compiled
<1>3. /\ opt.noInput => supplied' = supplied /\ asked' = asked
      /\ \/ pc' = "step" /\ attempt' = attempt
         \/ pc' = "report" /\ outcome' # "success" /\ attempt' \in {"at_input_gather", "collect"}
  BY DEF CollectWorkflowInputs, Stop, ReviewSteps
<1>4. PICK n \in Nat : facts' = [facts EXCEPT !.prompted = n]
  <2>1. CASE facts' = facts BY <2>1, SameFacts
  <2>2. CASE facts' = [facts EXCEPT !.prompted = CountPrompted(supplied')]
    <3>1. CountPrompted(supplied') \in Nat
      BY ShapeAssumption, FS_Subset, FS_CardinalityType DEF CountPrompted
    <3>2. QED BY <2>2, <3>1
  <2>3. QED BY <2>1, <2>2 DEF CollectWorkflowInputs
<1>5. opt.noInput => NoInputPrecheck(supplied)' BY <1>1, <1>3, PrecheckKept DEF Prechecked
<1>6. attempt' # "skip" BY <1>3 DEF SkipsSucceed
<1>7. opt.noInput => asked' \subseteq {"briefing"} BY <1>3 DEF NoGateUnattended
<1>8. pc' \in {"step", "report"} /\ (pc' = "report" => outcome' # "success") BY <1>3
<1>9. QED BY <1>1, <1>2, <1>4, <1>5, <1>6, <1>7, <1>8, EarlyInv

\* The next step starts, with no values of its own.
LEMMA StartStepInv == ASSUME Inv, StartStep PROVE Inv'
<1> USE DEF Inv
<1>1. /\ pc = "step" /\ at \in Steps
      /\ facts' = [facts EXCEPT !.started = @ + 1] /\ local' = [f \in Fields |-> "unset"]
      /\ UNCHANGED <<def, opt, binary, runVars, at, request, attempt, captures, asked,
                     outcome, exit>>
  BY DEF StartStep
<1>2. pc' \in {"local", "schema"} BY DEF StartStep
<1>3. Len(def.steps) \in Nat /\ Steps = 1..Len(def.steps) BY StepNumbers
<1>4. /\ facts' \in [started : Nat, success : Nat, failed : Nat, skipped : Nat,
                     cancelled : Nat, prompted : Nat]
      /\ facts'.started = facts.started + 1 /\ facts'.success = facts.success
      /\ facts'.failed = facts.failed /\ facts'.skipped = facts.skipped
      /\ facts'.cancelled = facts.cancelled
  BY <1>1 DEF Typed
<1>5. Typed' BY <1>1, <1>2, <1>4 DEF Typed, Steps, Busy
<1>6. Compiled' BY <1>1, <1>2, CompileKept DEF Compiled
<1>7. Tally'
  <2>1. facts.started = at - 1 /\ facts.success + facts.skipped = at - 1
        /\ facts.failed = 0 /\ facts.cancelled = 0 /\ exit # "complete"
    BY <1>1 DEF Tally
  <2>2. facts'.started = at BY <1>3, <1>1, <1>4, <2>1
  <2>3. QED BY <1>1, <1>2, <1>3, <1>4, <2>1, <2>2 DEF Tally, Early, Busy, Over
<1>8. Captured' BY <1>1, <1>2 DEF Captured, Busy
<1>9. SkipsSucceed' /\ MirrorsUnedited' /\ MirrorAgrees'
  BY <1>1, <1>2 DEF SkipsSucceed, MirrorsUnedited, MirrorAgrees, Busy
<1>10. Prechecked'
  BY <1>1, <1>2, PrecheckKept DEF Prechecked, Busy, runVars
<1>11. NoGateUnattended' BY <1>1 DEF NoGateUnattended
<1>12. QED BY <1>5, <1>6, <1>7, <1>8, <1>9, <1>10, <1>11

\* What every stage of a step may rely on.
LEMMA BusyFacts ==
  ASSUME Inv, pc \in Busy
  PROVE  /\ CompileWorkflow /\ at \in Steps
         /\ opt.noInput => pc # "review" /\ NoInputPrecheck(supplied)
         /\ \A f \in Fields : Step.bind[f].from = "mirror" => local[f] = "unset"
         /\ attempt # "skip"
<1>1. CompileWorkflow BY DEF Inv, Compiled, Busy
<1>2. at \in Steps BY StepNumbers DEF Inv, Tally
<1>3. QED BY <1>1, <1>2 DEF Inv, Prechecked, MirrorsUnedited, SkipsSucceed

\* A mirror resolves to what its target resolves to.
LEMMA MirrorResolved ==
  ASSUME Inv, pc \in Busy, NEW f \in Fields, Step.bind[f].from = "mirror"
  PROVE  /\ Step.bind[f].of \in Fields
         /\ ResolveFieldValue(Step, f) = ResolveFieldValue(Step, Step.bind[f].of)
<1>1. CompileWorkflow /\ at \in Steps /\ local[f] = "unset" BY BusyFacts
<1>2. /\ Step.bind[f].of \in Fields
      /\ Step.bind[Step.bind[f].of].from \notin {"none", "mirror"}
  BY <1>1 DEF CompileWorkflow, ValidateMirrorBindings, Step
<1>3. QED BY <1>1, <1>2 DEF ResolveFieldValue, ResolveBinding, Bound

\* The request is assembled from the step's fields: mirrors agree in it.
LEMMA AssembledMirrorsAgree ==
  ASSUME Inv, pc \in Busy, request' = [f \in Fields |-> ResolveFieldValue(Step, f)],
         UNCHANGED <<def, at>>
  PROVE  MirrorAgrees'
<1>1. SUFFICES ASSUME NEW f \in Fields, Step.bind[f].from = "mirror"
               PROVE  request'[f] = request'[Step.bind[f].of]
  BY DEF MirrorAgrees, Step
<1>2. QED BY <1>1, MirrorResolved

\* A local step resolves its bindings.
LEMMA ResolveLocalInv == ASSUME Inv, ResolveLocal PROVE Inv'
<1>1. /\ pc = "local" /\ pc \in Busy
      /\ UNCHANGED <<def, opt, exit, supplied, binary, captures, asked, local>>
  BY DEF ResolveLocal, runVars, Busy
<1>2. CASE Stranded(Step) BY <1>1, <1>2, FailStepInv DEF ResolveLocal
<1>3. CASE ~Stranded(Step)
  <2>1. /\ pc' = "dispatch" /\ request' = [f \in Fields |-> ResolveFieldValue(Step, f)]
        /\ UNCHANGED <<facts, at, attempt, outcome>>
    BY <1>3 DEF ResolveLocal
  <2>2. MirrorAgrees' BY <1>1, <2>1, AssembledMirrorsAgree
  <2>3. pc' \in Busy BY <2>1 DEF Busy
  <2>4. QED BY <1>1, <2>1, <2>2, <2>3, BusyFacts, MoveInv
<1>4. QED BY <1>2, <1>3

\* The schema of the operation loads or not.
LEMMA LoadSchemaInv == ASSUME Inv, LoadSchema PROVE Inv'
<1>1. /\ pc = "schema" /\ pc \in Busy
      /\ UNCHANGED <<def, opt, exit, supplied, binary, captures, asked, local>>
  BY DEF LoadSchema, runVars, Busy
<1>2. CASE EndStep("failed", "schema_load") BY <1>1, <1>2, FailStepInv
<1>3. CASE pc' = "inputs" /\ UNCHANGED <<facts, at, attempt, outcome>>
  <2>1. MirrorAgrees' /\ pc' \in Busy BY <1>3 DEF MirrorAgrees, Busy
  <2>2. QED BY <1>1, <1>3, <2>1, BusyFacts, MoveInv
<1>4. QED BY <1>2, <1>3 DEF LoadSchema

\* The review plan of a step; an unattended run takes no review path.
LEMMA PlanReviewInv == ASSUME Inv, PlanReview PROVE Inv'
<1>1. /\ pc = "inputs" /\ pc \in Busy /\ ~opt.noInput
      /\ UNCHANGED <<def, opt, exit, supplied, binary, asked, local>>
  BY DEF PlanReview, runVars, Busy, TakeReviewPath, ReviewSteps
<1>2. CASE Stranded(Step)
  <2>1. /\ pc' = "report" /\ outcome' = "escaped" /\ attempt' = "plan"
        /\ UNCHANGED <<captures, facts, at>>
    BY <1>2 DEF PlanReview, Escape
  <2>2. pc \notin Over \union {"rejected", "compile"} BY <1>1 DEF Over
  <2>3. QED BY <1>1, <2>1, <2>2, EscapeInv
<1>3. CASE ~Stranded(Step)
  <2>1. pc' \in {"review", "assemble"} /\ UNCHANGED <<captures, facts, at, attempt, outcome>>
    BY <1>3 DEF PlanReview
  <2>2. MirrorAgrees' /\ pc' \in Busy BY <2>1 DEF MirrorAgrees, Busy
  <2>3. QED BY <1>1, <2>1, <2>2, BusyFacts, MoveInv
<1>4. QED BY <1>2, <1>3

\* A mirror has no editable row.
LEMMA MirrorsNotEditable ==
  ASSUME Inv, pc \in Busy, NEW f \in Fields, Step.bind[f].from = "mirror"
  PROVE  f \notin Editable(Step) /\ f \notin NeededLocals(Step)
<1>1. CompileWorkflow /\ at \in Steps BY BusyFacts
<1>2. f \notin Step.shown BY <1>1 DEF CompileWorkflow, ValidateMirrorBindings, Step
<1>3. FieldSource(Step, f) = "literal" BY DEF FieldSource
<1>4. QED BY <1>2, <1>3 DEF Editable, Rows, NeededLocals, AutoDerived, Bound

\* The user edits, skips, cancels, or the form fails.
LEMMA ReviewStepInv == ASSUME Inv, ReviewStep PROVE Inv'
<1>1. /\ pc = "review" /\ pc \in Busy /\ UNCHANGED <<def, opt, exit, supplied, binary, request>>
  BY DEF ReviewStep, runVars, Busy
<1>2. ~opt.noInput BY <1>1, BusyFacts
<1>3. CASE /\ \E edits \in SUBSET Editable(Step) :
                local' = [f \in Fields |-> IF f \in edits THEN "edit" ELSE local[f]]
           /\ pc' = "assemble" /\ UNCHANGED <<captures, facts, at, attempt, outcome>>
  <2>1. \A f \in Fields : Step.bind[f].from = "mirror" => local'[f] = "unset"
    BY <1>1, <1>3, BusyFacts, MirrorsNotEditable
  <2>2. MirrorAgrees' /\ pc' \in Busy BY <1>3 DEF MirrorAgrees, Busy
  <2>3. QED BY <1>1, <1>2, <1>3, <2>1, <2>2, BusyFacts, MoveInv
<1>4. CASE Is("optional") /\ SkipStep("declined_at_review")
  <2>1. SafelySkippable(Step) BY <1>1, <1>4, SkippableHasDefault DEF Inv
  <2>2. QED BY <1>1, <1>2, <1>4, <2>1, SkipStepInv
<1>5. CASE EndStep("failed", "frontend_contract") /\ UNCHANGED captures
  BY <1>1, <1>2, <1>5, FailStepInv
<1>6. CASE EndStep("cancelled", "at_review") /\ UNCHANGED captures
  BY <1>1, <1>2, <1>6, FailStepInv
<1>7. CASE EndStep("failed", "gather") /\ UNCHANGED captures
  BY <1>1, <1>2, <1>7, FailStepInv
<1>8. QED BY <1>3, <1>4, <1>5, <1>6, <1>7 DEF ReviewStep

\* What is missing is gathered; an unattended run misses nothing.
LEMMA GatherInputsInv == ASSUME Inv, GatherInputs PROVE Inv'
<1>1. /\ pc = "inputs" /\ pc \in Busy /\ UNCHANGED <<def, opt, exit, binary, captures, request>>
  BY DEF GatherInputs, Busy
<1> DEFINE need == NeededInputs(Step, supplied)
           locals == NeededLocals(Step)
<1>2. opt.noInput => need \cup locals = {}
  BY <1>1, BusyFacts DEF NoInputPrecheck, Step
<1>3. CASE need \cup locals = {}
  <2>1. pc' = "assemble" /\ UNCHANGED <<supplied, local, asked, facts, at, attempt, outcome>>
    BY <1>3 DEF GatherInputs
  <2>2. MirrorAgrees' /\ pc' \in Busy BY <2>1 DEF MirrorAgrees, Busy
  <2>3. QED BY <1>1, <2>1, <2>2, BusyFacts, MoveInv
<1>4. CASE need \cup locals # {}
  <2>1. ~opt.noInput BY <1>2, <1>4
  <2>2. CASE EndStep("failed", "gather") /\ UNCHANGED <<supplied, local>>
    BY <1>1, <2>1, <2>2, FailStepInv
  <2>3. CASE /\ local' = [f \in Fields |-> IF f \in locals THEN "prompt" ELSE local[f]]
             /\ pc' = "assemble" /\ UNCHANGED <<facts, at, attempt, outcome>>
    <3>1. \A f \in Fields : Step.bind[f].from = "mirror" => local'[f] = "unset"
      BY <1>1, <2>3, BusyFacts, MirrorsNotEditable
    <3>2. MirrorAgrees' /\ pc' \in Busy BY <2>3 DEF MirrorAgrees, Busy
    <3>3. QED BY <1>1, <2>1, <2>3, <3>1, <3>2, BusyFacts, MoveInv
  <2>4. QED BY <1>4, <2>2, <2>3 DEF GatherInputs
<1>5. QED BY <1>3, <1>4

\* The request is assembled, unless a reference or a field is missing.
LEMMA AssembleRequestInv == ASSUME Inv, AssembleRequest PROVE Inv'
<1>1. /\ pc = "assemble" /\ pc \in Busy
      /\ UNCHANGED <<def, opt, exit, supplied, binary, captures, asked, local>>
  BY DEF AssembleRequest, runVars, Busy
<1>2. CASE EndStep("failed", "stranded") BY <1>1, <1>2, FailStepInv
<1>3. CASE EndStep("failed", "assembly") BY <1>1, <1>3, FailStepInv
<1>4. CASE /\ request' = [f \in Fields |-> ResolveFieldValue(Step, f)]
           /\ pc' = "confirm" /\ UNCHANGED <<facts, at, attempt, outcome>>
  <2>1. MirrorAgrees' BY <1>1, <1>4, AssembledMirrorsAgree
  <2>2. pc' \in Busy BY <1>4 DEF Busy
  <2>3. QED BY <1>1, <1>4, <2>1, <2>2, BusyFacts, MoveInv
<1>5. QED BY <1>2, <1>3, <1>4 DEF AssembleRequest

\* A request that is not touched keeps its mirrors.
LEMMA RequestKept ==
  ASSUME Inv, pc \in {"confirm", "dispatch", "attempt_failed"}, UNCHANGED <<def, at, request>>
  PROVE  MirrorAgrees'
  BY DEF Inv, MirrorAgrees, Step

\* The confirmation gate, which an unattended run does not reach.
LEMMA ConfirmStepInv == ASSUME Inv, ConfirmStep PROVE Inv'
<1>1. /\ pc = "confirm" /\ pc \in Busy
      /\ UNCHANGED <<def, opt, exit, supplied, binary, request, local>>
  BY DEF ConfirmStep, runVars, Busy
<1>2. opt.noInput => asked' = asked
  <2>1. opt.noInput /\ Is("confirm") => opt.dryRun \/ opt.yes
    BY <1>1, BusyFacts DEF NoInputPrecheck, Is, Step
  <2>2. QED BY <2>1 DEF ConfirmStep
<1>3. CASE pc' = "dispatch" /\ UNCHANGED <<captures, facts, at, attempt, outcome>>
  <2>1. MirrorAgrees' BY <1>1, <1>3, RequestKept
  <2>2. pc' \in Busy BY <1>3 DEF Busy
  <2>3. QED BY <1>1, <1>2, <1>3, <2>1, <2>2, BusyFacts, MoveInv
<1>4. CASE Is("optional") /\ SkipStep("declined_at_confirm")
  <2>1. SafelySkippable(Step) BY <1>1, <1>4, SkippableHasDefault DEF Inv
  <2>2. QED BY <1>1, <1>2, <1>4, <2>1, SkipStepInv
<1>5. ASSUME NEW why \in {"preview", "frontend_contract", "confirm"},
             EndStep("failed", why) /\ UNCHANGED captures
      PROVE  Inv'
  BY <1>1, <1>2, <1>5, FailStepInv
<1>6. CASE EndStep("cancelled", "at_confirm") /\ UNCHANGED captures
  BY <1>1, <1>2, <1>6, FailStepInv
<1>7. QED BY <1>3, <1>4, <1>5, <1>6 DEF ConfirmStep

\* A step that succeeds with a body leaves its output behind.
LEMMA BoundOutputInv ==
  ASSUME Inv, pc \in Busy, NEW v \in {"default", "body"}, EndStep("success", "none"),
         captures' = [captures EXCEPT ![at] = IF Step.out = "none" THEN "unset" ELSE v],
         UNCHANGED <<def, opt, exit, supplied, binary, asked>>
  PROVE  Inv'
<1>1. captures \in [Steps -> {"unset", "default", "body"}] /\ at \in Steps
  BY BusyFacts DEF Inv, Typed
<1>2. /\ captures' \in [Steps -> {"unset", "default", "body"}]
      /\ \A i \in Steps : i # at => captures'[i] = captures[i]
      /\ Step.out = "none" \/ captures'[at] # "unset"
  BY <1>1
<1>3. QED BY <1>2, EndStepInv

\* A dry run synthesises the output.
LEMMA DryRunStepInv == ASSUME Inv, DryRunStep PROVE Inv'
<1>1. /\ pc = "dispatch" /\ pc \in Busy
      /\ UNCHANGED <<def, opt, exit, supplied, binary, asked>>
  BY DEF DryRunStep, runVars, Busy
<1>2. CASE /\ captures' = [captures EXCEPT ![at] = IF Step.out = "none" THEN "unset" ELSE "body"]
           /\ EndStep("success", "none")
  BY <1>1, <1>2, BoundOutputInv
<1>3. CASE EndStep("failed", "preview") /\ UNCHANGED captures BY <1>1, <1>3, FailStepInv
<1>4. QED BY <1>2, <1>3 DEF DryRunStep

\* One attempt: a body, a binary body, or a failure.
LEMMA DispatchInv == ASSUME Inv, Dispatch PROVE Inv'
<1>1. /\ pc = "dispatch" /\ pc \in Busy
      /\ UNCHANGED <<def, opt, exit, supplied, asked, local, request>>
  BY DEF Dispatch, runVars, Busy
<1>2. CASE /\ pc' = "attempt_failed" /\ attempt' # "skip"
           /\ UNCHANGED <<captures, binary, facts, at, outcome>>
  <2>1. MirrorAgrees' BY <1>1, <1>2, RequestKept
  <2>2. pc' \in Busy BY <1>2 DEF Busy
  <2>3. QED BY <1>1, <1>2, <2>1, <2>2, BusyFacts, MoveInv
<1>3. ASSUME NEW found \in BOOLEAN, BindStepOutputs(found), UNCHANGED binary
      PROVE  Inv'
  <2>1. CASE Step.out = "plain" /\ ~found BY <1>2, <1>3, <2>1 DEF BindStepOutputs
  <2>2. CASE ~(Step.out = "plain" /\ ~found)
    <3>1. /\ captures' = [captures EXCEPT ![at] =
                            IF Step.out = "none" THEN "unset"
                            ELSE IF found THEN "body" ELSE "default"]
          /\ EndStep("success", "none")
      BY <1>3, <2>2 DEF BindStepOutputs
    <3>2. CASE found BY <1>1, <1>3, <3>1, <3>2, BoundOutputInv
    <3>3. CASE ~found BY <1>1, <1>3, <3>1, <3>3, BoundOutputInv
    <3>4. QED BY <3>2, <3>3
  <2>3. QED BY <2>1, <2>2
<1>4. CASE EndStep("success", "binary") /\ binary' = binary \cup {at} /\ UNCHANGED captures
  <2>1. captures' \in [Steps -> {"unset", "default", "body"}] BY <1>4 DEF Inv, Typed
  <2>2. QED BY <1>1, <1>4, <2>1, EndStepInv
<1>5. QED BY <1>2, <1>3, <1>4 DEF Dispatch

\* What becomes of a failed attempt.
LEMMA DecideStepFailureInv == ASSUME Inv, DecideStepFailure PROVE Inv'
<1>1. /\ pc = "attempt_failed" /\ pc \in Busy
      /\ UNCHANGED <<def, opt, exit, supplied, binary, local, request>>
  BY DEF DecideStepFailure, runVars, Busy
<1>2. opt.noInput => asked' = asked BY DEF DecideStepFailure
<1>3. ASSUME NEW why \in {"tolerated_failure", "already_exists", "declined_after_failure"},
             SafelySkippable(Step), SkipStep(why)
      PROVE  Inv'
  BY <1>1, <1>2, <1>3, SkipStepInv
<1>4. CASE Is("tolerant") /\ SkipStep("tolerated_failure")
  BY <1>1, <1>3, <1>4, SkippableHasDefault DEF Inv
<1>5. CASE Is("skip_if_exists") /\ SkipStep("already_exists")
  BY <1>1, <1>3, <1>5, SkippableHasDefault DEF Inv
<1>6. ASSUME NEW why \in {"frontend_contract", "at_failure_gate", attempt},
             EndStep("failed", why) /\ UNCHANGED captures
      PROVE  Inv'
  <2>1. why # "skip" BY <1>1, BusyFacts
  <2>2. QED BY <1>1, <1>2, <1>6, <2>1, FailStepInv
<1>7. CASE pc' = "dispatch" /\ UNCHANGED <<captures, facts, at, attempt, outcome>>
  <2>1. MirrorAgrees' BY <1>1, <1>7, RequestKept
  <2>2. pc' \in Busy BY <1>7 DEF Busy
  <2>3. QED BY <1>1, <1>2, <1>7, <2>1, <2>2, BusyFacts, MoveInv
<1>8. CASE Escape("gate")
  <2>1. pc \notin Over \union {"rejected", "compile"} BY <1>1 DEF Over
  <2>2. QED BY <1>1, <1>2, <1>8, <2>1, EscapeInv DEF Escape
<1>9. QED BY <1>3, <1>4, <1>5, <1>6, <1>7, <1>8 DEF DecideStepFailure

\* The loop ends, and the run is classified.
LEMMA FinishInv == ASSUME Inv, FinishWorkflow \/ Report PROVE Inv'
<1> USE DEF Inv
<1>1. /\ pc \in {"step", "report"} /\ pc' \in Over
      /\ UNCHANGED <<def, opt, at, attempt, captures, facts, asked, outcome>>
  BY DEF FinishWorkflow, Report, Over, stepVars
<1>2. Typed' BY <1>1 DEF Typed, Steps
<1>3. Compiled' BY <1>1, CompileKept DEF Compiled
<1>4. Tally'
  <2>1. CASE FinishWorkflow
    <3>1. pc = "step" /\ at \notin Steps /\ pc' = "report" /\ exit' = exit
      BY <2>1 DEF FinishWorkflow
    <3>2. at = Len(def.steps) + 1 BY <3>1, StepNumbers DEF Tally
    <3>3. Len(def.steps) \in Nat BY StepNumbers
    <3>4. /\ facts.success + facts.skipped = Len(def.steps) /\ facts.started = Len(def.steps)
          /\ facts.failed = 0 /\ facts.cancelled = 0 /\ exit # "complete"
      BY <3>1, <3>2, <3>3 DEF Tally
    <3>5. facts.success + facts.failed + facts.skipped + facts.cancelled = facts.started
      BY <3>3, <3>4 DEF Typed
    <3>6. QED BY <1>1, <3>1, <3>4, <3>5 DEF Tally, Early, Busy, Over
  <2>2. CASE Report
    <3>1. pc = "report" /\ pc' = "done" /\ (exit' = "complete" => outcome = "success")
      BY <2>2 DEF Report
    <3>2. QED BY <1>1, <3>1 DEF Tally, Early, Busy, Over
  <2>3. QED BY <2>1, <2>2
<1>5. Captured' /\ SkipsSucceed' /\ MirrorsUnedited' /\ MirrorAgrees' /\ Prechecked'
  BY <1>1 DEF Captured, SkipsSucceed, MirrorsUnedited, MirrorAgrees, Prechecked, Busy, Over
<1>6. NoGateUnattended' BY <1>1 DEF NoGateUnattended
<1>7. QED BY <1>2, <1>3, <1>4, <1>5, <1>6

\* Nothing changes.
LEMMA StutterInv == ASSUME Inv, UNCHANGED vars PROVE Inv'
<1> USE DEF Inv, vars, runVars, stepVars
<1>1. Typed' BY DEF Typed, Steps
<1>2. Compiled' BY CompileKept DEF Compiled
<1>3. Tally' /\ Captured' /\ SkipsSucceed' BY DEF Tally, Captured, SkipsSucceed
<1>4. MirrorsUnedited' /\ MirrorAgrees' BY DEF MirrorsUnedited, MirrorAgrees, Step
<1>5. Prechecked' BY PrecheckKept DEF Prechecked
<1>6. NoGateUnattended' BY DEF NoGateUnattended
<1>7. QED BY <1>1, <1>2, <1>3, <1>4, <1>5, <1>6

----------------------------------------------------------------------------
\* The invariant holds in every state of every run.
LEMMA Invariant == Spec => []Inv
<1>1. Init => Inv BY InitInv
<1>2. Inv /\ [Next]_vars => Inv'
  BY CompileInv, SeedInv, PresentBriefingInv, CollectWorkflowInputsInv, StartStepInv,
     ResolveLocalInv, LoadSchemaInv, PlanReviewInv, ReviewStepInv, GatherInputsInv,
     AssembleRequestInv, ConfirmStepInv, DryRunStepInv, DispatchInv, DecideStepFailureInv,
     FinishInv, StutterInv DEF Next
<1>3. QED BY <1>1, <1>2, PTL DEF Spec

\* No reference strands: whenever execute resolves a step's fields, every
\* output they reference was captured or defaulted, unless its step wrote a
\* binary body, and no skip path lacks a default.  It holds of every workflow
\* that compile_workflow accepts, of any length.
THEOREM ReferencesResolve == Spec => []NoStrandedReference
<1>1. ASSUME Inv PROVE NoStrandedReference
  <2>1. attempt # "skip" BY <1>1 DEF Inv, SkipsSucceed
  <2>2. SUFFICES ASSUME pc \in {"inputs", "assemble", "local"}, NEW f \in Fields,
                        Step.bind[f].from = "step"
                 PROVE  \/ captures[Step.bind[f].step] # "unset"
                        \/ Step.bind[f].step \in binary
    BY <2>1 DEF NoStrandedReference
  <2>3. pc \in Busy BY <2>2 DEF Busy
  <2>4. /\ CompileWorkflow /\ at \in Steps
        /\ Len(def.steps) \in Nat /\ Steps = 1..Len(def.steps)
    BY <1>1, <2>3, BusyFacts, StepNumbers DEF Inv
  <2>5. /\ Step.bind[f].step \in 1..(at - 1)
        /\ def.steps[Step.bind[f].step].out # "none"
    BY <2>2, <2>4 DEF CompileWorkflow, ValidateStepOutputReferences, Step
  <2>6. QED BY <1>1, <2>3, <2>4, <2>5 DEF Inv, Captured
<1>2. QED BY <1>1, Invariant, PTL

\* A mirrored field is sent with its target's value, also when the user edits
\* the target in the review form.
THEOREM MirrorsSendTarget == Spec => []MirrorAgrees
<1>1. Inv => MirrorAgrees BY DEF Inv
<1>2. QED BY <1>1, Invariant, PTL

\* The tally of a run that reaches WorkflowFinished accounts for every step it
\* started, and a run that exits complete has run or skipped every step.
THEOREM TallyBalances == Spec => []FactsBalance
<1>1. ASSUME Inv PROVE FactsBalance
  BY <1>1 DEF Inv, Tally, FactsBalance, Over
<1>2. QED BY <1>1, Invariant, PTL

\* no_input_precheck is complete: with --no-input no gather, collect, review,
\* confirmation or failure gate is shown, by any surface and for any workflow.
THEOREM PrecheckComplete == Spec => []NoGateUnattended
<1>1. Inv => NoGateUnattended BY DEF Inv
<1>2. QED BY <1>1, Invariant, PTL

=============================================================================
