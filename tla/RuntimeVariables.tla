---------------------------- MODULE RuntimeVariables ----------------------------
(***************************************************************************)
(* The variables of one event of a runtime graph (src/pkg/runtimevars):    *)
(* a bag that handlers write, before the variables of a provider and the   *)
(* fields of the event, and how the scheduler looks a path up in the three *)
(* while handlers of other nodes go on writing.                            *)
(*                                                                         *)
(* The bag's mutex makes each access to it one step.  Provider and event   *)
(* are read as they are: what changes them during an event is outside the  *)
(* library.  A definition Name_Change is a mistake the code could have     *)
(* made in Name.                                                           *)
(***************************************************************************)
CONSTANTS
  Paths,      \* paths, each a sequence of segments
  Written,    \* values handlers write
  Providers,  \* what a provider may answer, a value per path
  Events      \* what the resolver may find in an event, per path

Missing == [kind |-> "missing", n |-> 0]
Failed == [kind |-> "failed", n |-> 0]

(* ValidatePath: not empty, and no segment is.                             *)
ValidPath(p) == p # <<>> /\ \A i \in DOMAIN p : p[i] # ""

Valid == {p \in Paths : ValidPath(p)}
NoPath == <<>>

ASSUME SourcesAssumption ==
  /\ Missing \notin Written
  /\ \A provider \in Providers : DOMAIN provider = Valid
  /\ \A event \in Events : DOMAIN event = Valid

VARIABLES
  bag,       \* Bag.values
  provider,  \* View.Provider
  event,     \* View.Event as the resolver sees it
  path,      \* the path the scheduler looks up
  at,        \* "none", which look comes next, or "done"
  found,     \* what the lookup has found
  written,   \* history: what handlers wrote for this event
  seen       \* history: values the path has had during the lookup

sourceVars == <<bag, provider, event, written>>
lookupVars == <<path, at, found, seen>>
variableVars == <<sourceVars, lookupVars>>

Empty == [p \in Valid |-> Missing]

VariablesInit ==
  /\ bag = Empty /\ written = Empty
  /\ provider = Empty /\ event = Empty
  /\ path = NoPath /\ at = "none" /\ found = Missing /\ seen = {}

(* reflectTypedValue goes by the kind of a field, not by its type, and     *)
(* behind a nil pointer there is nothing.                                  *)
FieldValue(v) ==
  CASE v.kind = "named" -> [v EXCEPT !.kind = "int"]
    [] v.kind = "nil" -> Missing
    [] OTHER -> v

(* What a path of the event is worth: the order of src/docs/api-guide.md,  *)
(* lines 364-365.                                                          *)
Worth(p) ==
  IF written[p] # Missing THEN written[p]
  ELSE IF provider[p] # Missing THEN provider[p]
  ELSE FieldValue(event[p])

--------------------------------------------------------------------------------
(* The scheduler, before the first node of an event.                       *)
Reset_KeepsBag ==
  /\ at = "none"
  /\ bag' = bag
  /\ provider' \in Providers /\ event' \in Events
  /\ written' = Empty
  /\ UNCHANGED lookupVars
Reset ==
  /\ at = "none"
  /\ bag' = Empty
  /\ provider' \in Providers /\ event' \in Events
  /\ written' = Empty
  /\ UNCHANGED lookupVars

Looking == at \in {"typed", "again", "boxed"}

(* A handler sets a variable, or deletes it (v is Missing).  A path that   *)
(* is not valid is refused.                                                *)
Put(p, v) ==
  /\ p \in Valid
  /\ bag' = [bag EXCEPT ![p] = v]
  /\ written' = [written EXCEPT ![p] = v]
  /\ UNCHANGED <<provider, event, path, at, found>>
  /\ seen' = IF Looking /\ p = path THEN seen \union {Worth(p)'} ELSE seen

Handler == \E p \in Paths, v \in Written \union {Missing} : Put(p, v)

BeginLookup(p) ==
  /\ at \in {"none", "done"}
  /\ path' = p
  /\ at' = "typed"
  /\ found' = Missing
  /\ seen' = {Worth(p)}
  /\ UNCHANGED sourceVars

Find(v) == found' = v /\ at' = "done"
GoOn(next) == at' = next /\ UNCHANGED found

(* View.LookupValue asks the bag for a typed value first,                  *)
LookTyped ==
  /\ at = "typed"
  /\ IF bag[path] # Missing THEN Find(bag[path]) ELSE GoOn("again")
  /\ UNCHANGED <<sourceVars, path, seen>>

(* then for any value, then the provider, then the resolver, which may     *)
(* fail.                                                                   *)
LookAgain ==
  /\ at = "again"
  /\ CASE bag[path] # Missing -> Find(bag[path])
       [] bag[path] = Missing /\ provider[path] # Missing -> Find(provider[path])
       [] OTHER -> IF FieldValue(event[path]) # Missing
                   THEN Find(FieldValue(event[path]))
                   ELSE GoOn("boxed")
  /\ UNCHANGED <<sourceVars, path, seen>>

(* When all say no the evaluator asks View.Lookup: the same three again.   *)
LookBoxed ==
  /\ at = "boxed"
  /\ Find(IF bag[path] # Missing THEN bag[path] ELSE Missing)
  /\ UNCHANGED <<sourceVars, path, seen>>

Look == LookTyped \/ LookAgain \/ LookBoxed

EndLookups ==
  /\ at = "done"
  /\ at' = "none" /\ path' = NoPath /\ found' = Missing /\ seen' = {}
  /\ UNCHANGED sourceVars

VariablesNext ==
  \/ Reset \/ Handler \/ Look \/ EndLookups
  \/ \E p \in Valid : BeginLookup(p)

VariablesSpec == VariablesInit /\ [][VariablesNext]_variableVars

--------------------------------------------------------------------------------
(* A lookup asks the bag up to three times, with the provider and the      *)
(* event in between, while handlers set and delete the path.  All the same *)
(* what it finds is what the path was worth at one moment of the lookup,   *)
(* in the event being handled (context.go:167-217, compiler.go:177-203,    *)
(* and Clear, bag.go:99-110, between events).                              *)
LookupCurrent == at = "done" => found \in seen

--------------------------------------------------------------------------------
(* The inductive invariant of lookups, part of Conditions' IInv: the bag   *)
(* holds what was written for this event only, and a lookup that asks      *)
(* again has nothing to expect from the provider and the event.            *)
BagOfEvent == bag = written /\ DOMAIN bag = Valid

LookupInv ==
  /\ Looking => path \in Valid /\ Worth(path) \in seen
  /\ at = "boxed" => provider[path] = Missing /\ FieldValue(event[path]) = Missing

VariablesInv == BagOfEvent /\ LookupInv /\ LookupCurrent
===============================================================================
