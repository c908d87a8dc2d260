------------------------ MODULE RuleDefinitionsProofs ------------------------
(***************************************************************************)
(* A lookup finds the rule last given, for every set of names and rules    *)
(* and every session.                                                      *)
(***************************************************************************)
EXTENDS RuleDefinitions, TLAPS

\* One entry for each name, never one that was freed, and it is the last rule
\* given for that name.
TableInv ==
    /\ rules \in Seq(Combinators)
    /\ \A i, j \in DOMAIN rules : NameOf[rules[i]] = NameOf[rules[j]] => i = j
    /\ \A i \in DOMAIN rules : rules[i] \notin freed
    /\ DOMAIN latest = Defined
    /\ \A i \in DOMAIN rules : latest[NameOf[rules[i]]] = rules[i]

\* Where names are distinct, the first rule with a name is the only one.
LEMMA TheRuleOfItsName ==
    ASSUME TableInv, NEW i \in DOMAIN rules
    PROVE  get_reduction_rule(NameOf[rules[i]]) = rules[i]
<1> DEFINE P(idx) == /\ NameOf[rules[idx]] = NameOf[rules[i]]
                     /\ \A j \in 1..idx-1 : NameOf[rules[j]] # NameOf[rules[i]]
<1>1. DOMAIN rules = 1..Len(rules) /\ Len(rules) \in Nat
  BY DEF TableInv
<1>2. P(i)
  <2> SUFFICES ASSUME NEW j \in 1..i-1 PROVE NameOf[rules[j]] # NameOf[rules[i]]
    OBVIOUS
  <2>1. j \in DOMAIN rules /\ j # i
    BY <1>1
  <2> QED
    BY <2>1 DEF TableInv
<1>3. \A idx \in DOMAIN rules : P(idx) => idx = i
  BY DEF TableInv
<1>4. (CHOOSE idx \in DOMAIN rules : P(idx)) = i
  BY <1>2, <1>3
<1> QED
  BY <1>4 DEF get_reduction_rule

\* A new name gets a place of its own.
LEMMA NewName ==
    ASSUME TableInv, NEW rule \in Combinators, add_reduction_rule(rule),
           NameOf[rule] \notin Defined
    PROVE  TableInv'
<1>1. /\ rules' = Append(rules, rule) /\ freed' = freed
      /\ \A i \in DOMAIN rules : rules[i] # rule
      /\ rule \notin freed
  BY DEF add_reduction_rule, AddedRule
<1>2. /\ DOMAIN latest' = Defined \cup {NameOf[rule]}
      /\ latest'[NameOf[rule]] = rule
      /\ \A name \in Defined : latest'[name] = latest[name]
  BY DEF add_reduction_rule, TableInv
<1>3. /\ rules' \in Seq(Combinators)
      /\ DOMAIN rules' = DOMAIN rules \cup {Len(rules) + 1}
      /\ rules'[Len(rules) + 1] = rule
      /\ \A i \in DOMAIN rules : rules'[i] = rules[i]
      /\ Len(rules) + 1 \notin DOMAIN rules
  BY <1>1 DEF TableInv
<1>4. \A i \in DOMAIN rules : NameOf[rules[i]] \in Defined
                              /\ NameOf[rules[i]] # NameOf[rule]
  BY DEF Defined
<1>5. \A i, j \in DOMAIN rules' : NameOf[rules'[i]] = NameOf[rules'[j]] => i = j
  BY <1>3, <1>4 DEF TableInv
<1>6. \A i \in DOMAIN rules' : rules'[i] \notin freed'
  BY <1>1, <1>3 DEF TableInv
<1>7. DOMAIN latest' = Defined'
  BY <1>2, <1>3 DEF Defined
<1>8. \A i \in DOMAIN rules' : latest'[NameOf[rules'[i]]] = rules'[i]
  BY <1>2, <1>3, <1>4 DEF TableInv
<1> QED
  BY <1>3, <1>5, <1>6, <1>7, <1>8 DEF TableInv

\* A known name keeps its place, and the rule that was there is freed.
LEMMA KnownName ==
    ASSUME TableInv, NEW rule \in Combinators, add_reduction_rule(rule),
           NameOf[rule] \in Defined
    PROVE  TableInv'
<1>1. PICK p \in DOMAIN rules : NameOf[rules[p]] = NameOf[rule]
  BY DEF Defined
<1>2. get_reduction_rule(NameOf[rule]) = rules[p]
  BY <1>1, TheRuleOfItsName
<1>3. \A i \in DOMAIN rules : rules[i] = rules[p] => i = p
  BY <1>1 DEF TableInv
<1>4. (CHOOSE i \in DOMAIN rules : rules[i] = rules[p]) = p
  BY <1>3
<1>5. /\ rules' = [rules EXCEPT ![p] = rule]
      /\ freed' = freed \cup {rules[p]}
      /\ rule \notin freed /\ \A i \in DOMAIN rules : rules[i] # rule
  BY <1>2, <1>4 DEF add_reduction_rule, AddedRule
<1>6. /\ DOMAIN latest' = Defined
      /\ latest'[NameOf[rule]] = rule
      /\ \A name \in Defined : name # NameOf[rule] => latest'[name] = latest[name]
  BY DEF add_reduction_rule, TableInv
<1>7. /\ rules' \in Seq(Combinators)
      /\ DOMAIN rules' = DOMAIN rules
      /\ rules'[p] = rule
      /\ \A i \in DOMAIN rules : i # p => rules'[i] = rules[i]
  BY <1>1, <1>5 DEF TableInv
<1>8. \A i \in DOMAIN rules : NameOf[rules'[i]] = NameOf[rules[i]]
  BY <1>1, <1>7
<1>9. \A i, j \in DOMAIN rules' : NameOf[rules'[i]] = NameOf[rules'[j]] => i = j
  BY <1>7, <1>8 DEF TableInv
<1>10. \A i \in DOMAIN rules' : rules'[i] \notin freed'
  BY <1>3, <1>5, <1>7 DEF TableInv
<1>11. DOMAIN latest' = Defined'
  BY <1>6, <1>7, <1>8 DEF Defined
<1>12. \A i \in DOMAIN rules' : latest'[NameOf[rules'[i]]] = rules'[i]
  <2> SUFFICES ASSUME NEW i \in DOMAIN rules
               PROVE  latest'[NameOf[rules[i]]] = rules'[i]
    BY <1>7, <1>8
  <2>1. CASE i = p
    BY <2>1, <1>1, <1>6, <1>7
  <2>2. CASE i # p
    <3>1. NameOf[rules[i]] # NameOf[rule] /\ NameOf[rules[i]] \in Defined
      BY <2>2, <1>1 DEF TableInv, Defined
    <3> QED
      BY <2>2, <3>1, <1>6, <1>7 DEF TableInv
  <2> QED
    BY <2>1, <2>2
<1> QED
  BY <1>7, <1>9, <1>10, <1>11, <1>12 DEF TableInv

\* The inductive invariant behind the theorem below holds in every session.
THEOREM TableInvariant == SessionSpec => []TableInv
<1>1. SessionInit => TableInv
  BY DEF SessionInit, TableInv, Defined
<1>2. TableInv /\ [SessionNext]_sessionVars => TableInv'
  <2> SUFFICES ASSUME TableInv, [SessionNext]_sessionVars PROVE TableInv'
    OBVIOUS
  <2>1. ASSUME NEW rule \in Combinators, add_reduction_rule(rule) PROVE TableInv'
    BY <2>1, NewName, KnownName
  <2>2. ASSUME NEW d \in Definitions, Define(d.name, d.text) PROVE TableInv'
    BY <2>2 DEF Define, TableInv, Defined
  <2>3. ASSUME NEW text \in Texts, Type(text) PROVE TableInv'
    BY <2>3 DEF Type, table, TableInv, Defined
  <2>4. CASE Reducer
    BY <2>4 DEF Reducer, table, TableInv, Defined
  <2>5. CASE UNCHANGED sessionVars
    BY <2>5 DEF sessionVars, table, TableInv, Defined
  <2> QED
    BY <2>1, <2>2, <2>3, <2>4, <2>5 DEF SessionNext
<1> QED
  BY <1>1, <1>2, PTL DEF SessionSpec

\* Whatever was defined and redefined, a name that is parsed gets the rule
\* last given for it, and that rule still exists.
THEOREM LookupFindsLatestRule == SessionSpec => []LatestRuleFound
<1>1. TableInv => LatestRuleFound
  <2> SUFFICES ASSUME TableInv, NEW name \in Defined
               PROVE  /\ get_reduction_rule(name) = latest[name]
                      /\ get_reduction_rule(name) \notin freed
    BY DEF LatestRuleFound, TableInv
  <2>1. PICK i \in DOMAIN rules : name = NameOf[rules[i]]
    BY DEF Defined
  <2> QED
    BY <2>1, TheRuleOfItsName DEF TableInv
<1> QED
  BY <1>1, TableInvariant, PTL

=============================================================================
