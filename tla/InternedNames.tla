---------------------------- MODULE InternedNames ----------------------------
(***************************************************************************)
(* What the interpreter relies on when it compares names by pointer and    *)
(* keeps definitions under them: one pointer per name for as long as the   *)
(* program runs, and the meaning last given to it.                         *)
(***************************************************************************)
CONSTANTS
    Strings,        \* the names that may be typed
    Meanings,       \* what a name may be defined to be
    NoMeaning       \* what an undefined name stands for

VARIABLES
    pointer,        \* the pointer handed out for each name seen so far
    meaning,        \* what each of them means
    asked,          \* the name of the last call that returned anything
    answer          \* and what it returned

vars == <<pointer, meaning, asked, answer>>

Known == DOMAIN pointer

Init ==
    /\ pointer = [s \in {} |-> NoMeaning]
    /\ meaning = [s \in {} |-> NoMeaning]
    /\ asked = NoMeaning
    /\ answer = NoMeaning

\* A name seen before has the pointer it had; a new one gets a new pointer.
Intern(s) ==
    /\ asked' = s
    /\ \/ /\ s \in Known
          /\ answer' = pointer[s]
          /\ UNCHANGED <<pointer, meaning>>
       \/ /\ s \notin Known
          /\ \A t \in Known : pointer[t] # answer'
          /\ pointer' = [t \in Known \cup {s} |-> IF t = s THEN answer' ELSE pointer[t]]
          /\ meaning' = [t \in Known \cup {s} |-> IF t = s THEN NoMeaning ELSE meaning[t]]

Define(s, m) ==
    /\ s \in Known
    /\ meaning' = [meaning EXCEPT ![s] = m]
    /\ UNCHANGED <<pointer, asked, answer>>

Recall(s) ==
    /\ asked' = s
    /\ answer' = IF s \in Known THEN meaning[s] ELSE NoMeaning
    /\ UNCHANGED <<pointer, meaning>>

\* The end of the program gives every name back.
Forget ==
    /\ pointer' = [s \in {} |-> NoMeaning]
    /\ meaning' = [s \in {} |-> NoMeaning]
    /\ UNCHANGED <<asked, answer>>

Next ==
    \/ \E s \in Strings : Intern(s) \/ Recall(s)
    \/ \E s \in Strings, m \in Meanings : Define(s, m)
    \/ Forget

Spec == Init /\ [][Next]_vars

=============================================================================
