--------------------------- MODULE RuleDefinitions ---------------------------
(***************************************************************************)
(* A session in which rules are defined and redefined between statements:  *)
(* the array rules[] of reduction_rule.c and the abbreviations, around the *)
(* reducer of GraphReducer.  Here a combinator is one struct               *)
(* reduction_rule and a variable a name without one: what an atom's field  *)
(* rule points to was fixed when its name was parsed.  A definition keeps  *)
(* that pointer, a redefinition frees what it points to.                   *)
(*                                                                         *)
(* A definition's graph is built, copied and released in one step: see     *)
(* BracketAbstraction.  Its copies are built as if they had been typed.    *)
(***************************************************************************)
EXTENDS GraphReducer

CONSTANTS
    NameOf,         \* the name of each struct reduction_rule
    Texts,          \* expressions that may be typed: names, App and Reduce
    Definitions     \* the definitions: [name, text], no text has a "reduce"

VARIABLES
    rules,          \* rules[0..number_of_rules-1]
    freed,          \* structs that free_reduction_rule has given to free()
    kept,           \* what each abbreviation stands for
    latest          \* HISTORY: the rule last given for each name

table == <<rules, freed, kept, latest>>
sessionVars == <<vars, table>>

Defined == {NameOf[rules[i]] : i \in DOMAIN rules}

\* The first rule with that name.
get_reduction_rule(identifier) ==
    rules[CHOOSE idx \in DOMAIN rules :
            /\ NameOf[rules[idx]] = identifier
            /\ \A i \in 1..idx-1 : NameOf[rules[i]] # identifier]

\* The rule takes the place of the one with its name.
AddedRule(rule) ==
    IF NameOf[rule] \in Defined
    THEN LET prev == get_reduction_rule(NameOf[rule])
             place == CHOOSE i \in DOMAIN rules : rules[i] = prev
         IN  [rules EXCEPT ![place] = rule]
    ELSE Append(rules, rule)

\* "rule: name numbers -> numbers".  calloc comes before the free: the struct
\* is none that is in use.
add_reduction_rule(rule) ==
    /\ pc = "prompt"
    /\ rule \notin {rules[i] : i \in DOMAIN rules} \cup freed
    /\ rules' = AddedRule(rule)
    /\ freed' = IF NameOf[rule] \in Defined
                THEN freed \cup {get_reduction_rule(NameOf[rule])} ELSE freed
    /\ latest' = [name \in DOMAIN latest \cup {NameOf[rule]} |->
                     IF name = NameOf[rule] THEN rule ELSE latest[name]]
    /\ UNCHANGED <<vars, kept>>

\* What the parser builds for a name: a copy of what it abbreviates, or one
\* node with the rule of that name, if there is one.
Meaning(name) ==
    IF name \in DOMAIN kept THEN kept[name]
    ELSE IF name \in Defined THEN << get_reduction_rule(name) >>
    ELSE << name >>

Resolved(text) ==
    LET upTo[i \in 0..Len(text)] ==
            IF i = 0 THEN <<>>
            ELSE upTo[i - 1] \o (IF text[i] \in {App, Reduce} THEN <<text[i]>>
                                 ELSE Meaning(text[i]))
    IN  upTo[Len(text)]

\* "def name text"
Define(name, text) ==
    /\ pc = "prompt"
    /\ kept' = [n \in DOMAIN kept \cup {name} |->
                   IF n = name THEN Resolved(text) ELSE kept[n]]
    /\ UNCHANGED <<vars, rules, freed, latest>>

Type(text) ==
    /\ pc = "prompt"
    /\ StartStatement(Resolved(text))
    /\ UNCHANGED table

\* What GraphReducer does with a statement, and with the settings.
Reducer == Next /\ UNCHANGED table

SessionInit ==
    /\ Init
    /\ rules = <<>>
    /\ freed = {}
    /\ kept = [n \in {} |-> <<>>]
    /\ latest = [n \in {} |-> App]

SessionNext ==
    \/ \E rule \in Combinators : add_reduction_rule(rule)
    \/ \E d \in Definitions : Define(d.name, d.text)
    \/ \E text \in Texts : Type(text)
    \/ Reducer

SessionSpec == SessionInit /\ [][SessionNext]_sessionVars

-----------------------------------------------------------------------------
(* Properties                                                              *)

\* A name that is parsed now gets the rule last given for it, however often
\* and in whatever order rules were redefined, and that rule still exists.
LatestRuleFound ==
    /\ DOMAIN latest = Defined
    /\ \A name \in Defined :
          /\ get_reduction_rule(name) = latest[name]
          /\ get_reduction_rule(name) \notin freed

\* README.md:195, "You can redefine a primitive with another `rule:` input
\* which uses the name to be redefined": refuted, after that an abbreviation
\* made before leads reduce_graph (graph.c:127) to the rule that was freed.
OnlyRulesThatExist ==
    pc = "loop" /\ stack # <<>> => label[top] \notin freed

=============================================================================
