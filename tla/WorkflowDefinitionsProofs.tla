--------------------- MODULE WorkflowDefinitionsProofs ---------------------
(***************************************************************************)
(* Whatever documents are sent, and whatever their numbers narrow and wrap *)
(* to: what is stored is what Orchestrator assumes, what the caller is     *)
(* answered, and what a caller over HTTP can read back.                    *)
(*                                                                         *)
(* Every property follows from one fact of a definition in the table, that *)
(* it is Sound: validation has let it in, and its numbers are ints already.*)
(* Narrowing, storing and reading again leave such a definition as it is.  *)
(***************************************************************************)
EXTENDS WorkflowDefinitions, TLAPS

-----------------------------------------------------------------------------
(* Conversions of integers.                                                *)

\* A converted value fits.
LEMMA WrapFits ==
  ASSUME NEW x \in Int, NEW limit \in Nat \ {0}
  PROVE  Wrap(x, limit) \in -limit..(limit - 1)
BY DEF Wrap

\* A value that fits is converted to itself.
LEMMA WrapKeeps ==
  ASSUME NEW limit \in Nat \ {0}, NEW x \in -limit..(limit - 1)
  PROVE  Wrap(x, limit) = x
<1>1. x + limit \in 0..(2 * limit - 1)
  OBVIOUS
<1>2. (x + limit) % (2 * limit) = x + limit
  BY <1>1
<1> QED
  BY <1>2 DEF Wrap

\* Nothing that is not negative grows by wrapping.
LEMMA WrapLowers ==
  ASSUME NEW x \in Nat, NEW limit \in Nat \ {0}
  PROVE  Wrap(x, limit) <= x
<1>1. (x + limit) % (2 * limit) <= x + limit
  OBVIOUS
<1>2. (x + limit) % (2 * limit) \in Int
  OBVIOUS
<1> QED
  BY <1>1, <1>2 DEF Wrap

\* static_cast<int> of any integer is an int, and of an int is that int.
LEMMA NarrowingOnce ==
  /\ \A x \in Int : ToInt(x) \in Int32
  /\ \A x \in Int32 : ToInt(x) = x
  /\ Int32 \subseteq Int64
  /\ Int64 \subseteq Int
<1>1. IntLimit \in Nat \ {0} /\ LongLimit \in Nat /\ IntLimit <= LongLimit
  BY WidthsAssumption DEF WidthsAssumption
<1>2. \A x \in Int : ToInt(x) \in Int32
  BY <1>1, WrapFits DEF ToInt, Int32
<1>3. \A x \in Int32 : ToInt(x) = x
  BY <1>1, WrapKeeps DEF ToInt, Int32
<1> QED
  BY <1>1, <1>2, <1>3 DEF Int32, Int64

-----------------------------------------------------------------------------
(* Steps.                                                                  *)

\* A step as the table keeps it, which validation would let in again.
SoundStep(row) ==
  /\ row \in StepRow
  /\ OptionalDuration(row.expectedExecutionTime)
  /\ row.maxRetries # None => row.maxRetries >= 0

\* A step that is let in is sound once it is parsed.
LEMMA ParsedStepIsSound ==
  ASSUME NEW step \in StepDocument \cup {Wrong}, ValidStep(step)
  PROVE  SoundStep(ParseStep(step)) /\ ParseStep(step).name = step.name
<1> DEFINE row == ParseStep(step)
<1>1. step \in StepDocument
  BY DEF ValidStep
<1>2. /\ row.name = step.name
      /\ row.expectedExecutionTime = step.expectedExecutionTime
      /\ row.additionalFields = step.additionalFields
      /\ row.maxRetries = IF step.maxRetries = None THEN None
                                                    ELSE ToInt(step.maxRetries)
  BY <1>1 DEF ParseStep, StepDocument
<1>3. row.expectedExecutionTime \in DurationText \cup {None}
  BY <1>1, <1>2 DEF ValidStep, OptionalDuration, IsValidDuration, StepDocument
<1>4. row.maxRetries \in Int32 \cup {None}
      /\ (row.maxRetries # None => row.maxRetries >= 0)
  <2>1. CASE step.maxRetries = None
    BY <1>2, <2>1
  <2>2. CASE step.maxRetries # None
    <3>1. step.maxRetries \in Int /\ ToInt(step.maxRetries) >= 0
      BY <1>1, <2>2, NarrowingOnce
        DEF ValidStep, OptionalCount, IsIntFrom, StepDocument
    <3> QED
      BY <1>2, <2>2, <3>1, NarrowingOnce
  <2> QED
    BY <2>1, <2>2
<1>5. row \in StepRow
  BY <1>1, <1>2, <1>3, <1>4
    DEF ParseStep, StepDocument, StepRow, ValidStep, RequiredName
<1>6. OptionalDuration(row.expectedExecutionTime)
  BY <1>2 DEF ValidStep
<1> QED
  BY <1>2, <1>4, <1>5, <1>6 DEF SoundStep

\* Reading a sound step's row, validating the step and parsing it change nothing.
LEMMA SoundStepIsKept ==
  ASSUME NEW row, SoundStep(row)
  PROVE  /\ FromStepRow(row) = row
         /\ ParseStep(row) = row
         /\ ValidStep(row)
<1>1. row \in StepRow
  BY DEF SoundStep
<1>2. row.maxRetries # None => ToInt(row.maxRetries) = row.maxRetries
  BY <1>1, NarrowingOnce DEF StepRow
<1>3. [row EXCEPT !.maxRetries = IF @ = None THEN None ELSE ToInt(@)] = row
  BY <1>1, <1>2 DEF StepRow
<1>4. OptionalCount(row.maxRetries)
  BY <1>1, <1>2, NoValueAssumption, NarrowingOnce
    DEF OptionalCount, IsIntFrom, SoundStep, StepRow, NoValueAssumption
<1>5. row # Wrong
  BY <1>1, NoValueAssumption DEF NoValueAssumption
<1>6. RequiredName(row.name)
  BY <1>1 DEF RequiredName, StepRow
<1> QED
  BY <1>3, <1>4, <1>5, <1>6 DEF FromStepRow, ParseStep, ValidStep, SoundStep

-----------------------------------------------------------------------------
(* Definitions.                                                            *)

\* A definition as the table keeps it, which validation would let in again.
Sound(d) ==
  /\ d \in DefinitionRow
  /\ IsValidDuration(d.expectedExecutionTime)
  /\ d.steps # << >>
  /\ \A i \in DOMAIN d.steps : SoundStep(d.steps[i])
  /\ \A i, j \in DOMAIN d.steps : d.steps[i].name = d.steps[j].name => i = j
  /\ \E i \in DOMAIN d.steps : d.steps[i].name = d.startWorkflowStepName

\* A key of the table.
SoundKey(key) == key \in Keys /\ key[2] > 0

\* A document that is let in is parsed into a sound definition with a sound key.
LEMMA ParsedIsSound ==
  ASSUME NEW doc \in Document, ValidDocument(doc)
  PROVE  Sound(ParseDefinition(doc)) /\ SoundKey(KeyOf(doc))
<1> DEFINE d == ParseDefinition(doc)
<1>1. /\ doc # Wrong
      /\ doc.workflowName \in ValidNames
      /\ doc.startWorkflowStepName \in Names
      /\ IsValidDuration(doc.expectedExecutionTime)
      /\ doc.singleton \in BOOLEAN \cup {None}
      /\ doc.workflowVersion \notin {Wrong, None}
      /\ ToInt(doc.workflowVersion) >= 1
      /\ doc.steps \notin {Wrong, None}
      /\ doc.steps # << >>
      /\ \A i \in DOMAIN doc.steps : ValidStep(doc.steps[i])
      /\ \A i, j \in DOMAIN doc.steps :
           doc.steps[i].name = doc.steps[j].name => i = j
      /\ \E i \in DOMAIN doc.steps : doc.steps[i].name = doc.startWorkflowStepName
  BY DEF ValidDocument, RequiredName, RequiredString, RequiredDuration,
         OptionalBoolean, IsIntFrom, ValidSteps
<1>2. /\ doc.expectedExecutionTime \in DurationText
      /\ doc.workflowVersion \in Int64
      /\ doc.steps \in Seq(StepDocument \cup {Wrong})
  BY <1>1 DEF Document, DocumentObject, IsValidDuration
<1>3. PICK n \in Nat : DOMAIN doc.steps = 1..n
  BY <1>2
<1>4. \A i \in DOMAIN doc.steps : doc.steps[i] \in StepDocument \cup {Wrong}
  BY <1>2
<1>5. \A i \in DOMAIN doc.steps : /\ SoundStep(ParseStep(doc.steps[i]))
                                  /\ ParseStep(doc.steps[i]).name = doc.steps[i].name
  BY <1>1, <1>4, ParsedStepIsSound
<1>6. /\ d.startWorkflowStepName = doc.startWorkflowStepName
      /\ d.singleton = (doc.singleton # None /\ doc.singleton)
      /\ d.expectedExecutionTime = doc.expectedExecutionTime
      /\ d.steps = [i \in DOMAIN doc.steps |-> ParseStep(doc.steps[i])]
  BY DEF ParseDefinition
<1>7. /\ DOMAIN d.steps = DOMAIN doc.steps
      /\ \A i \in DOMAIN doc.steps : d.steps[i] = ParseStep(doc.steps[i])
  BY <1>6
<1>8. d.steps \in Seq(StepRow)
  <2>1. \A i \in 1..n : d.steps[i] \in StepRow
    BY <1>3, <1>5, <1>7 DEF SoundStep
  <2> QED
    BY <1>3, <1>6, <2>1
<1>9. d \in DefinitionRow
  <2>1. (doc.singleton # None /\ doc.singleton) \in BOOLEAN
    BY <1>1
  <2> QED
    BY <1>1, <1>2, <1>6, <1>8, <2>1 DEF ParseDefinition, DefinitionRow
<1>10. d.steps # << >>
  BY <1>1, <1>2, <1>3, <1>7
<1>11. Sound(d)
  BY <1>1, <1>5, <1>6, <1>7, <1>9, <1>10 DEF Sound
<1>12. SoundKey(KeyOf(doc))
  <2>1. ToInt(doc.workflowVersion) \in Int32 /\ ToInt(doc.workflowVersion) \in Int
    BY <1>2, NarrowingOnce
  <2> QED
    BY <1>1, <2>1 DEF SoundKey, KeyOf, Keys
<1> QED
  BY <1>11, <1>12

\* A sound definition is read back as it was stored.
LEMMA SoundIsReadAsStored ==
  ASSUME NEW d, Sound(d)
  PROVE  FromRow(d) = d
<1>1. d \in DefinitionRow /\ d.steps \in Seq(StepRow)
  BY DEF Sound, DefinitionRow
<1>2. \A i \in DOMAIN d.steps : FromStepRow(d.steps[i]) = d.steps[i]
  BY SoundStepIsKept DEF Sound
<1> DEFINE steps == [i \in DOMAIN d.steps |-> FromStepRow(d.steps[i])]
<1>3. steps = d.steps
  BY <1>1, <1>2
<1>4. FromRow(d) = [d EXCEPT !.steps = steps]
  BY DEF FromRow
<1> HIDE DEF steps
<1> QED
  BY <1>1, <1>3, <1>4 DEF DefinitionRow

\* The document made of a sound definition is valid, and is parsed into it.
LEMMA SoundIsReadBack ==
  ASSUME NEW key, SoundKey(key), NEW d, Sound(d)
  PROVE  LET doc == ToJson(key, d)
         IN  /\ ValidDocument(doc)
             /\ KeyOf(doc) = key
             /\ ParseDefinition(doc) = d
<1> DEFINE doc == ToJson(key, d)
<1>1. /\ d \in DefinitionRow
      /\ d.steps \in Seq(StepRow)
      /\ d.singleton \in BOOLEAN
      /\ d.startWorkflowStepName \in Names
  BY DEF Sound, DefinitionRow
<1>2. /\ doc.hasOtherFields = FALSE
      /\ doc.workflowName = key[1]
      /\ doc.workflowVersion = key[2]
      /\ doc.startWorkflowStepName = d.startWorkflowStepName
      /\ doc.singleton = d.singleton
      /\ doc.expectedExecutionTime = d.expectedExecutionTime
      /\ doc.steps = d.steps
  BY DEF ToJson
<1>3. \A i \in DOMAIN d.steps :
        ValidStep(d.steps[i]) /\ ParseStep(d.steps[i]) = d.steps[i]
  BY SoundStepIsKept DEF Sound
<1>4. ValidSteps(doc.steps)
  BY <1>1, <1>2, <1>3, NoValueAssumption DEF ValidSteps, Sound, NoValueAssumption
<1>5. /\ key[1] \in ValidNames
      /\ key[2] \in Int32
      /\ key[2] > 0
      /\ key = <<key[1], key[2]>>
  BY DEF SoundKey, Keys
<1>6. IsIntFrom(1, key[2]) /\ ToInt(key[2]) = key[2]
  <2>1. key[2] \in Int /\ ToInt(key[2]) = key[2]
    BY <1>5, NarrowingOnce
  <2> QED
    BY <1>5, <2>1, NoValueAssumption DEF IsIntFrom, NoValueAssumption
<1>7. doc # Wrong
  <2>1. key[2] \in Int64
    BY <1>5, NarrowingOnce
  <2>2. StepRow \subseteq StepDocument
    BY NamesAssumption, NarrowingOnce DEF StepRow, StepDocument, NamesAssumption
  <2>3. d.steps \in Seq(StepDocument \cup {Wrong})
    BY <1>1, <2>2
  <2>4. d.expectedExecutionTime \in DurationText
    BY <1>1 DEF DefinitionRow
  <2>5. doc \in DocumentObject
    BY <1>1, <1>5, <2>1, <2>3, <2>4, NamesAssumption
      DEF ToJson, DocumentObject, NamesAssumption
  <2> QED
    BY <2>5, NoValueAssumption DEF NoValueAssumption
<1>8. ValidDocument(doc)
  BY <1>1, <1>2, <1>4, <1>5, <1>6, <1>7
    DEF ValidDocument, RequiredName, RequiredString, RequiredDuration,
        OptionalBoolean, Sound
<1>9. KeyOf(doc) = key
  BY <1>2, <1>5, <1>6 DEF KeyOf
<1>10. ParseDefinition(doc) = d
  <2>1. [i \in DOMAIN d.steps |-> ParseStep(d.steps[i])] = d.steps
    BY <1>1, <1>3
  <2>2. (d.singleton # None /\ d.singleton) = d.singleton
    BY <1>1, NoValueAssumption DEF NoValueAssumption
  <2> QED
    BY <1>1, <1>2, <2>1, <2>2 DEF ParseDefinition, DefinitionRow
<1> QED
  BY <1>8, <1>9, <1>10

-----------------------------------------------------------------------------
(* Leases.                                                                 *)

\* The seconds a duration says are none or more.
LEMMA WrittenIsNat ==
  ASSUME NEW d \in DurationText
  PROVE  WrittenSeconds(d) \in Nat
<1>1. \A u \in Units : Written(d, u) \in Nat
  BY DEF DurationText, Written
<1>2. /\ Written(d, "seconds") \in Nat
      /\ Written(d, "minutes") \in Nat
      /\ Written(d, "hours") \in Nat
      /\ Written(d, "days") \in Nat
  BY <1>1 DEF Units
<1> QED
  BY <1>2 DEF WrittenSeconds

\* A lease is not empty, and is at most a third of what is written, or one.
LEMMA LeaseIsAThird ==
  ASSUME NEW step \in StepRow, OptionalDuration(step.expectedExecutionTime),
         LeaseDurationForStep(step) # None
  PROVE  /\ LeaseDurationForStep(step) > 0
         /\ \/ LeaseDurationForStep(step) * 3
                 <= WrittenSeconds(step.expectedExecutionTime)
            \/ LeaseDurationForStep(step) = 1
<1> DEFINE d == step.expectedExecutionTime
<1>1. d # None /\ LeaseDurationForStep(step) = LeaseDuration(d)
  BY DEF LeaseDurationForStep
<1>2. d \in DurationText
  BY <1>1 DEF StepRow
<1>3. WrittenSeconds(d) \in Nat
  BY <1>2, WrittenIsNat
<1>4. ParsesDuration(d)
  BY <1>1 DEF LeaseDuration
<1>5. LongLimit \in Nat \ {0}
  BY WidthsAssumption DEF WidthsAssumption
<1>6. ParsedSeconds(d) \in Int /\ ParsedSeconds(d) <= WrittenSeconds(d)
  BY <1>3, <1>5, WrapFits, WrapLowers DEF ParsedSeconds
<1>7. LeaseDuration(d) = IF ParsedSeconds(d) \div 3 < 1 THEN 1
                                                       ELSE ParsedSeconds(d) \div 3
  BY <1>4 DEF LeaseDuration
<1> HIDE DEF d
<1>8. /\ LeaseDuration(d) > 0
      /\ LeaseDuration(d) * 3 <= WrittenSeconds(d) \/ LeaseDuration(d) = 1
  BY <1>3, <1>6, <1>7
<1> QED
  BY <1>1, <1>8 DEF d

-----------------------------------------------------------------------------
(* The invariant.                                                          *)

\* Every definition of the table is sound, and the last answer is in the table.
DefinitionsInv ==
  /\ \A key \in DOMAIN definitions : SoundKey(key) /\ Sound(definitions[key])
  /\ replied # None => /\ replied.key \in DOMAIN definitions
                       /\ replied.definition = definitions[replied.key]

LEMMA DefinitionsInvHolds == Spec => []DefinitionsInv
<1>1. Init => DefinitionsInv
  BY DEF Init, DefinitionsInv
<1>2. DefinitionsInv /\ [Next]_vars => DefinitionsInv'
  <2> SUFFICES ASSUME DefinitionsInv, [Next]_vars
               PROVE  DefinitionsInv'
    OBVIOUS
  <2>1. ASSUME NEW doc \in Documents, RegisterWorkflowDefinition(doc)
        PROVE  DefinitionsInv'
    <3>1. Sound(ParseDefinition(doc)) /\ SoundKey(KeyOf(doc))
      BY <2>1, DocumentsAssumption, ParsedIsSound
        DEF DocumentsAssumption, RegisterWorkflowDefinition
    <3>2. /\ DOMAIN definitions' = DOMAIN definitions \cup {KeyOf(doc)}
          /\ definitions'[KeyOf(doc)] = ParseDefinition(doc)
          /\ \A key \in DOMAIN definitions :
               key # KeyOf(doc) => definitions'[key] = definitions[key]
          /\ replied'.key = KeyOf(doc)
          /\ replied'.definition = ParseDefinition(doc)
      BY <2>1 DEF RegisterWorkflowDefinition
    <3>3. \A key \in DOMAIN definitions' :
            SoundKey(key) /\ Sound(definitions'[key])
      BY <3>1, <3>2 DEF DefinitionsInv
    <3> QED
      BY <3>2, <3>3 DEF DefinitionsInv, Sound, SoundKey
  <2>2. ASSUME NEW doc \in Documents, RefuseWorkflowDefinition(doc)
        PROVE  DefinitionsInv'
    BY <2>2 DEF RefuseWorkflowDefinition, DefinitionsInv
  <2>3. CASE UNCHANGED vars
    BY <2>3 DEF DefinitionsInv, vars
  <2> QED
    BY <2>1, <2>2, <2>3 DEF Next
<1> QED
  BY <1>1, <1>2, PTL DEF Spec

-----------------------------------------------------------------------------
(* The theorems.                                                           *)

\* The table always holds definitions of its type: validateWorkflowJson and
\* parseWorkflowDefinition let no value through that the rows cannot keep.
THEOREM DefinitionsTypeCorrect == Spec => []TypeOK
<1>1. DefinitionsInv => TypeOK
  BY DEF DefinitionsInv, TypeOK, Sound, SoundKey
<1> QED
  BY <1>1, DefinitionsInvHolds, PTL

\* Whatever its numbers narrow to, a definition the service let in is what the
\* orchestrator takes for granted when a poll, a report or a sweep reads it.
THEOREM LetInIsAsAssumed == Spec => []LetInAsAssumed
<1>1. ASSUME NEW d, Sound(d), FromRow(d) = d
      PROVE  /\ \E step \in StepRowsOf(d) : step.name = d.startWorkflowStepName
             /\ \A i, j \in DOMAIN d.steps :
                  d.steps[i].name = d.steps[j].name => i = j
             /\ \A step \in StepRowsOf(d) :
                  /\ step.maxRetries = None \/ step.maxRetries >= 0
                  /\ \/ LeaseDurationForStep(step) = None
                     \/ LeaseDurationForStep(step) > 0
  <2>1. \A step \in StepRowsOf(d) : SoundStep(step)
    BY <1>1 DEF Sound, StepRowsOf
  <2>2. \A step \in StepRowsOf(d) :
          LeaseDurationForStep(step) = None \/ LeaseDurationForStep(step) > 0
    BY <2>1, LeaseIsAThird DEF SoundStep
  <2>3. \E step \in StepRowsOf(d) : step.name = d.startWorkflowStepName
    BY <1>1 DEF Sound, StepRowsOf
  <2>4. \A i, j \in DOMAIN d.steps : d.steps[i].name = d.steps[j].name => i = j
    BY <1>1 DEF Sound
  <2> QED
    BY <2>1, <2>2, <2>3, <2>4 DEF SoundStep
<1>2. DefinitionsInv => LetInAsAssumed
  BY <1>1, SoundIsReadAsStored DEF DefinitionsInv, LetInAsAssumed, Stored
<1> QED
  BY <1>2, DefinitionsInvHolds, PTL

\* Where the seconds of a duration overflow, the lease only gets shorter: a dead
\* worker is never waited for longer than a third of what the document says.
THEOREM LeasesAreNeverTooLong == Spec => []LeaseNeverTooLong
<1>1. ASSUME DefinitionsInv, NEW key \in DOMAIN definitions,
             NEW step \in StepRowsOf(FromRow(definitions[key]))
      PROVE  step \in StepRow /\ OptionalDuration(step.expectedExecutionTime)
  <2>1. Sound(definitions[key]) /\ FromRow(definitions[key]) = definitions[key]
    BY <1>1, SoundIsReadAsStored DEF DefinitionsInv
  <2> QED
    BY <2>1 DEF Sound, SoundStep, StepRowsOf
<1>2. DefinitionsInv => LeaseNeverTooLong
  BY <1>1, LeaseIsAThird DEF LeaseNeverTooLong, Stored
<1> QED
  BY <1>2, DefinitionsInvHolds, PTL

\* The answer to a registration is the definition the orchestrator reads: no
\* count is narrowed twice, and no missing one comes back as a number.
THEOREM AnswersAreAsStored == Spec => []AnsweredAsStored
<1>1. DefinitionsInv => AnsweredAsStored
  BY SoundIsReadAsStored DEF DefinitionsInv, AnsweredAsStored
<1> QED
  BY <1>1, DefinitionsInvHolds, PTL

\* The client of an HTTP server accepts the answer to every registration, and
\* parses it into what the server stored.
THEOREM AnswersAreReadBack == Spec => []ReadBackAsAnswered
<1>1. DefinitionsInv => ReadBackAsAnswered
  BY SoundIsReadBack DEF DefinitionsInv, ReadBackAsAnswered
<1> QED
  BY <1>1, DefinitionsInvHolds, PTL

=============================================================================
