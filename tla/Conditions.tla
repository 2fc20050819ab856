------------------------------ MODULE Conditions ------------------------------
(***************************************************************************)
(* The provider-status conditions of a Machine (utils.go 46-110):         *)
(* conditionSuccess, conditionFailed and setMachineProviderCondition with *)
(* its helpers.  A condition is a record [type, status, reason, message,  *)
(* ltt]; ltt is its LastTransitionTime, abstracted to "unset" (the zero   *)
(* value of a fresh condition), "earlier" (set by an earlier call) or     *)
(* "now" (set by metav1.Now() in this call): the properties only compare *)
(* a transition time with the call that set it.                           *)
(***************************************************************************)
EXTENDS Sequences, SequencesExt

MachineCreation == "MachineCreation"

ConditionSuccess ==
    [type |-> MachineCreation, status |-> "True",
     reason |-> "MachineCreationSucceeded",
     message |-> "Machine successfully created", ltt |-> "unset"]

\* The caller sets the Message (the error text).
ConditionFailed ==
    [type |-> MachineCreation, status |-> "False",
     reason |-> "MachineCreationFailed", message |-> "", ltt |-> "unset"]

\* findProviderCondition: the index of the first condition of the type, 0
\* for none (a nil pointer).
FindProviderCondition(conditions, conditionType) ==
    SelectInSeq(conditions, LAMBDA c : c.type = conditionType)

\* Mutant: only a changed Reason updates the condition.
ShouldUpdateConditionReasonOnly(newCondition, existingCondition) ==
    newCondition.reason # existingCondition.reason

ShouldUpdateCondition(newCondition, existingCondition) ==
    \/ newCondition.reason # existingCondition.reason
    \/ newCondition.message # existingCondition.message

\* Mutant: the transition time stamped on every update.
UpdateExistingConditionAlwaysStamp(newCondition, existingCondition, now) ==
    IF ~ShouldUpdateCondition(newCondition, existingCondition) THEN existingCondition
    ELSE [existingCondition EXCEPT !.ltt = now,
                                   !.status = newCondition.status,
                                   !.reason = newCondition.reason,
                                   !.message = newCondition.message]

\* updateExistingCondition, through the pointer into the slice: the
\* transition time moves only when the status changes.
UpdateExistingCondition(newCondition, existingCondition, now) ==
    IF ~ShouldUpdateCondition(newCondition, existingCondition) THEN existingCondition
    ELSE [existingCondition EXCEPT
            !.ltt = IF existingCondition.status # newCondition.status THEN now ELSE @,
            !.status = newCondition.status,
            !.reason = newCondition.reason,
            !.message = newCondition.message]

\* setMachineProviderCondition: append the condition stamped now when none
\* of its type exists, else update the first one of its type in place.
SetMachineProviderCondition(condition, conditions, now) ==
    LET i == FindProviderCondition(conditions, condition.type)
    IN  IF i = 0
        THEN Append(conditions, [condition EXCEPT !.ltt = now])
        ELSE [conditions EXCEPT ![i] = UpdateExistingCondition(condition, @, now)]
=============================================================================
