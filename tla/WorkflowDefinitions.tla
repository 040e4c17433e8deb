------------------------ MODULE WorkflowDefinitions ------------------------
(***************************************************************************)
(* From a JSON document to the definition the orchestrator reads: how the  *)
(* service validates and parses it, how the table stores it, and the lease *)
(* that a poll later makes of a step's expectedExecutionTime.              *)
(*                                                                         *)
(* A field is None when the document has no such key, and Wrong when its   *)
(* value has another JSON type.  The messages of a refusal are left out.   *)
(***************************************************************************)
EXTENDS Integers, Sequences

CONSTANTS
  Documents,    \* what may be sent
  Names,        \* non-empty strings
  ValidNames,   \* those of Names that match NAME_PATTERN
  EmptyName,
  Fields,       \* additionalFields of a step, opaque
  Malformed,    \* a string that is no duration at all
  IntLimit,     \* 2^31: an int is below it, and not below its opposite
  LongLimit,    \* 2^63, the same of int64_t and of long long
  Wrong,
  None

Wrap(x, limit) == ((x + limit) % (2 * limit)) - limit

Int32 == -IntLimit..(IntLimit - 1)
Int64 == -LongLimit..(LongLimit - 1)

\* static_cast<int> of an int64_t.
ToInt(x) == Wrap(x, IntLimit)

\* A string such as P1Y2M3W4DT5H6M7S.  One whose T nothing follows is Malformed.
Units == {"years", "months", "weeks", "days", "hours", "minutes", "seconds"}
DurationText == [Units -> Nat \cup {None}]

StepDocument == [name : Names \cup {EmptyName, Wrong, None},
                 expectedExecutionTime : DurationText \cup {Malformed, Wrong, None},
                 maxRetries : Int64 \cup {Wrong, None},
                 additionalFields : Fields]

StepRow == [name : ValidNames, expectedExecutionTime : DurationText \cup {None},
            maxRetries : Int32 \cup {None}, additionalFields : Fields]

DefinitionRow == [startWorkflowStepName : Names, singleton : BOOLEAN,
                  expectedExecutionTime : DurationText, steps : Seq(StepRow)]

ASSUME WidthsAssumption ==
  /\ IntLimit \in Nat \ {0}
  /\ LongLimit \in Nat
  /\ IntLimit <= LongLimit

ASSUME NamesAssumption ==
  /\ ValidNames \subseteq Names
  /\ EmptyName \notin Names

DocumentObject ==
  [hasOtherFields : BOOLEAN,
   workflowName : Names \cup {EmptyName, Wrong, None},
   workflowVersion : Int64 \cup {Wrong, None},
   startWorkflowStepName : Names \cup {EmptyName, Wrong, None},
   expectedExecutionTime : DurationText \cup {Malformed, Wrong, None},
   singleton : BOOLEAN \cup {Wrong, None},
   steps : {Wrong, None} \cup Seq(StepDocument \cup {Wrong})]

Document == DocumentObject \cup {Wrong}

ASSUME DocumentsAssumption == Documents \subseteq Document

\* None and Wrong stand for no value that a key can have.
ASSUME NoValueAssumption ==
  \A v \in {None, Wrong} :
    /\ v \notin BOOLEAN
    /\ v \notin Int
    /\ v \notin StepRow
    /\ v \notin Seq(StepRow)
    /\ v \notin DocumentObject

VARIABLES
  definitions,  \* the definition table, by workflowName and workflowVersion
  replied       \* what the last registration answered, or None: it was refused

vars == <<definitions, replied>>

Keys == ValidNames \X (Int32 \ {0})

TypeOK ==
  \A key \in DOMAIN definitions :
    key \in Keys /\ key[2] > 0 /\ definitions[key] \in DefinitionRow

Init ==
  /\ definitions = << >>
  /\ replied = None

-----------------------------------------------------------------------------
(* validateWorkflowJson.                                                   *)

\* ISO_8601_DURATION_PATTERN: some part of a duration is there.
IsValidDuration(d) ==
  d \notin {Malformed, Wrong, None} /\ \E u \in Units : d[u] # None

\* Mutant: the bound is checked before the value is narrowed.
IsIntFrom_Wide(low, v) == v \notin {Wrong, None} /\ v >= low

IsIntFrom(low, v) == v \notin {Wrong, None} /\ ToInt(v) >= low

RequiredString(v) == v \in Names

RequiredName(v) == v \in ValidNames

RequiredDuration(v) == IsValidDuration(v)

OptionalDuration(v) == v = None \/ IsValidDuration(v)

OptionalCount(v) == v = None \/ IsIntFrom(0, v)

OptionalBoolean(v) == v \in BOOLEAN \cup {None}

ValidStep(step) ==
  /\ step # Wrong
  /\ RequiredName(step.name)
  /\ OptionalDuration(step.expectedExecutionTime)
  /\ OptionalCount(step.maxRetries)

\* Mutant: two steps may have one name.
ValidSteps_Duplicates(steps) ==
  /\ steps \notin {Wrong, None}
  /\ steps # << >>
  /\ \A i \in DOMAIN steps : ValidStep(steps[i])

ValidSteps(steps) ==
  /\ steps \notin {Wrong, None}
  /\ steps # << >>
  /\ \A i \in DOMAIN steps : ValidStep(steps[i])
  /\ \A i, j \in DOMAIN steps : steps[i].name = steps[j].name => i = j

ValidDocument(doc) ==
  /\ doc # Wrong
  /\ ~doc.hasOtherFields
  /\ RequiredName(doc.workflowName)
  /\ RequiredString(doc.startWorkflowStepName)
  /\ RequiredDuration(doc.expectedExecutionTime)
  /\ OptionalBoolean(doc.singleton)
  /\ IsIntFrom(1, doc.workflowVersion)
  /\ ValidSteps(doc.steps)
  /\ \E i \in DOMAIN doc.steps : doc.steps[i].name = doc.startWorkflowStepName

-----------------------------------------------------------------------------
(* parseWorkflowDefinition, toRow and fromRow.                             *)

\* Mutant: maxRetries is not narrowed.
ParseStep_Wide(step) == step

ParseStep(step) ==
  [step EXCEPT !.maxRetries = IF @ = None THEN None ELSE ToInt(@)]

ParseDefinition(doc) ==
  [startWorkflowStepName |-> doc.startWorkflowStepName,
   singleton |-> doc.singleton # None /\ doc.singleton,
   expectedExecutionTime |-> doc.expectedExecutionTime,
   steps |-> [i \in DOMAIN doc.steps |-> ParseStep(doc.steps[i])]]

\* The row widens maxRetries, and reading it narrows it again.
FromStepRow(row) ==
  [row EXCEPT !.maxRetries = IF @ = None THEN None ELSE ToInt(@)]

\* Mutant: a step's row comes back with a count where there was none.
FromRow_RetriesDefaulted(row) ==
  [row EXCEPT !.steps = [i \in DOMAIN row.steps |->
     [row.steps[i] EXCEPT !.maxRetries = IF @ = None THEN 0 ELSE @]]]

FromRow(row) ==
  [row EXCEPT !.steps = [i \in DOMAIN row.steps |-> FromStepRow(row.steps[i])]]

-----------------------------------------------------------------------------
(* Durations and leases.                                                   *)

Written(d, u) == IF d[u] = None THEN 0 ELSE d[u]

\* What a supported duration means.
WrittenSeconds(d) ==
  Written(d, "seconds") + Written(d, "minutes") * 60
    + Written(d, "hours") * 60 * 60 + Written(d, "days") * 24 * 60 * 60

\* The sum is kept in a long long.  Overflow is undefined, and the build's plain
\* additions and multiplications (-O2) wrap; every term comes from the input, so
\* nothing is folded.  stoll refuses a part that does not fit.
ParsedSeconds(d) == Wrap(WrittenSeconds(d), LongLimit)

ParsesDuration(d) ==
  /\ d # Malformed
  /\ \A u \in {"years", "months", "weeks"} : d[u] = None
  /\ \A u \in Units : Written(d, u) \in Int64
  /\ ParsedSeconds(d) > 0

\* Mutant: the whole of the expected time.
LeaseDuration_Whole(d) == IF ParsesDuration(d) THEN ParsedSeconds(d) ELSE None

\* calculateLeaseDuration, or None when it throws.
LeaseDuration(d) ==
  IF ~ParsesDuration(d) THEN None
  ELSE IF ParsedSeconds(d) \div 3 < 1 THEN 1
  ELSE ParsedSeconds(d) \div 3

\* leaseDurationForStep, or None when it throws.
LeaseDurationForStep(step) ==
  IF step.expectedExecutionTime = None THEN None
                                       ELSE LeaseDuration(step.expectedExecutionTime)

-----------------------------------------------------------------------------
(* The service's register call.                                            *)

KeyOf(doc) == <<doc.workflowName, ToInt(doc.workflowVersion)>>

RegisterWorkflowDefinition(doc) ==
  /\ ValidDocument(doc)
  /\ replied' = [key |-> KeyOf(doc), definition |-> ParseDefinition(doc)]
  /\ definitions' = [key \in DOMAIN definitions \cup {KeyOf(doc)} |->
       IF key = KeyOf(doc) THEN ParseDefinition(doc) ELSE definitions[key]]

RefuseWorkflowDefinition(doc) ==
  /\ ~ValidDocument(doc)
  /\ replied' = None
  /\ UNCHANGED definitions

\* Mutant: a count that is not there is written as null.
ToJson_NullRetries(key, d) ==
  [hasOtherFields |-> FALSE, workflowName |-> key[1], workflowVersion |-> key[2],
   startWorkflowStepName |-> d.startWorkflowStepName, singleton |-> d.singleton,
   expectedExecutionTime |-> d.expectedExecutionTime,
   steps |-> [i \in DOMAIN d.steps |->
     [d.steps[i] EXCEPT !.maxRetries = IF @ = None THEN Wrong ELSE @]]]

\* The document the HTTP server answers with.
ToJson(key, d) ==
  [hasOtherFields |-> FALSE, workflowName |-> key[1], workflowVersion |-> key[2],
   startWorkflowStepName |-> d.startWorkflowStepName, singleton |-> d.singleton,
   expectedExecutionTime |-> d.expectedExecutionTime, steps |-> d.steps]

Next ==
  \/ \E doc \in Documents : RegisterWorkflowDefinition(doc)
  \/ \E doc \in Documents : RefuseWorkflowDefinition(doc)

Spec == Init /\ [][Next]_vars

-----------------------------------------------------------------------------
(* Properties.                                                             *)

Stored == {FromRow(definitions[key]) : key \in DOMAIN definitions}

StepRowsOf(d) == {d.steps[i] : i \in DOMAIN d.steps}

\* What Orchestrator takes for granted of a definition it reads (its Definition
\* and its DefinitionsAssumption) holds of every document that is let in,
\* whatever its numbers narrow to: the start step is there, a name names one
\* step, no step has fewer than no retries and no lease is empty.  What the
\* README says of a document that is let in is LetInAsDocumented.
LetInAsAssumed ==
  \A d \in Stored :
    /\ \E step \in StepRowsOf(d) : step.name = d.startWorkflowStepName
    /\ \A i, j \in DOMAIN d.steps : d.steps[i].name = d.steps[j].name => i = j
    /\ \A step \in StepRowsOf(d) :
         /\ step.maxRetries = None \/ step.maxRetries >= 0
         /\ LeaseDurationForStep(step) = None \/ LeaseDurationForStep(step) > 0

\* A lease is at most a third of what the document says, or one second, even
\* where the seconds overflow: a dead worker is never waited for longer.
LeaseNeverTooLong ==
  \A d \in Stored : \A step \in StepRowsOf(d) :
    LeaseDurationForStep(step) # None =>
      \/ LeaseDurationForStep(step) * 3
           <= WrittenSeconds(step.expectedExecutionTime)
      \/ LeaseDurationForStep(step) = 1

\* What the caller was answered is what the orchestrator will read.
AnsweredAsStored ==
  replied # None => replied.definition = FromRow(definitions[replied.key])

\* A caller over HTTP validates and parses the answer as if it were a document
\* of its own, and comes to what the service answered: no definition that has
\* been registered is reported to its caller as refused.
ReadBackAsAnswered ==
  replied # None =>
    LET doc == ToJson(replied.key, replied.definition)
    IN  /\ ValidDocument(doc)
        /\ KeyOf(doc) = replied.key
        /\ ParseDefinition(doc) = replied.definition

\* A duration of parts that README.md:299-304 lists as supported.
SupportedDuration(d) ==
  /\ IsValidDuration(d)
  /\ \A u \in {"years", "months", "weeks"} : d[u] = None

\* What README.md:237, 241 and 247 say of a document that passes validation,
\* and api/openapi.yaml:241 and 269 of the numbers in it.
AsDocumented(doc) ==
  /\ doc.workflowVersion >= 1
  /\ SupportedDuration(doc.expectedExecutionTime)
  /\ \A i \in DOMAIN doc.steps :
       /\ doc.steps[i].maxRetries = None \/ doc.steps[i].maxRetries >= 0
       /\ doc.steps[i].expectedExecutionTime = None
            \/ SupportedDuration(doc.steps[i].expectedExecutionTime)

\* Only documents that the README and the API description allow are registered.
\* They are not the only ones: the numbers are narrowed before their bounds are
\* checked, and validation lets in durations that the parser refuses.
LetInAsDocumented ==
  [][\A doc \in Documents :
       RegisterWorkflowDefinition(doc) => AsDocumented(doc)]_vars

=============================================================================
