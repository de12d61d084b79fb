------------------------------ MODULE Bindings ------------------------------
(***************************************************************************)
(* What bindings make of the arguments of a call: the properties of        *)
(* entities and of Server (Accessors), overloaded calls (Overloads) and    *)
(* http.request (HttpRequest).  They share no state with each other, so a  *)
(* behaviour is one of one of them: `part' says which, and the others stay *)
(* as they are in a fixed first state.                                     *)
(***************************************************************************)
EXTENDS Accessors, HttpRequest

VARIABLES
    part,
    form, reached  \* Overloads

callVars == <<form, reached>>
bindingVars == <<part, vars, callVars, askedVars>>

Documented == INSTANCE OverloadForms
Over == INSTANCE Overloads WITH Forms <- Documented!Forms, outcome <- reached

-----------------------------------------------------------------------------

\* One fixed first state for each part that is not the one of the behaviour.
PropertyRests == kind = "Object" /\ Init
CallRests == form = (CHOOSE f \in Documented!Forms : TRUE) /\ Over!Init
RequestRests == options = (CHOOSE o \in Options : TRUE) /\ RequestInit

BindingsInit ==
    \/ part = "property" /\ Init /\ CallRests /\ RequestRests
    \/ part = "call" /\ PropertyRests /\ Over!Init /\ RequestRests
    \/ part = "request" /\ PropertyRests /\ CallRests /\ RequestInit

BindingsNext ==
    \/ part = "property" /\ Next /\ UNCHANGED <<part, callVars, askedVars>>
    \/ part = "call" /\ Over!Next /\ UNCHANGED <<part, vars, askedVars>>
    \/ part = "request" /\ RequestNext /\ UNCHANGED <<part, vars, callVars>>

BindingsSpec == BindingsInit /\ [][BindingsNext]_bindingVars

-----------------------------------------------------------------------------

\* Of Overloads: every documented form of a call reaches the server as meant.
FormsUnderstood == Over!FormsUnderstood
=============================================================================
